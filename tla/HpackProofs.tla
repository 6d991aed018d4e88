---------------------------- MODULE HpackProofs -----------------------------
(***************************************************************************)
(* Header compression for every table, code and width: integers and        *)
(* Huffman-coded strings read back as written, the decoder's table is      *)
(* bounded, and it keeps in step with that of the peer.                    *)
(***************************************************************************)
EXTENDS Hpack, Iteration, FiniteSetTheorems, SequenceTheorems, TLAPS

-----------------------------------------------------------------------------
(* Powers of two *)

\* The exponents that occur.
Exponents == 0..(WORD_BITS + GROUP_BITS * MAX_GROUPS)

LEMMA Widths ==
  /\ GROUP_BITS \in Nat \ {0} /\ MAX_GROUPS \in Nat \ {0} /\ WORD_BITS \in Nat \ {0}
  /\ STRING_PREFIX \in 1..WORD_BITS /\ OCTET_BITS \in Nat \ {0}
  /\ GROUP_BITS <= WORD_BITS
  /\ GROUP_BITS * MAX_GROUPS \in Nat
<1>1. {GROUP_BITS, MAX_GROUPS, WORD_BITS, STRING_PREFIX, OCTET_BITS} \subseteq Nat \ {0}
  BY CodingAssumption
<1>2. GROUP_BITS <= WORD_BITS /\ STRING_PREFIX <= WORD_BITS
  BY CodingAssumption
<1>3. GROUP_BITS \in Nat \ {0} /\ MAX_GROUPS \in Nat \ {0} /\ WORD_BITS \in Nat \ {0}
      /\ STRING_PREFIX \in Nat \ {0} /\ OCTET_BITS \in Nat \ {0}
  BY <1>1
<1>4. \A a, b \in Nat : a * b \in Nat
  OBVIOUS
<1> QED BY <1>2, <1>3, <1>4

\* A power is a number above 0, the next one its double.
LEMMA PowerIs ==
  ASSUME NEW n \in Exponents
  PROVE  2^n \in Nat /\ 2^n > 0 /\ 2^(n + 1) = 2 * 2^n
BY PowersAssumption DEF Exponents

\* Powers above the first are above 1.
LEMMA PowerAbove ==
  ASSUME NEW n \in Exponents, n > 0
  PROVE  2^n >= 2
<1>1. n - 1 \in Exponents /\ (n - 1) + 1 = n
  BY Widths DEF Exponents
<1>2. 2^(n - 1) \in Nat /\ 2^(n - 1) > 0 /\ 2^((n - 1) + 1) = 2 * 2^(n - 1)
  BY <1>1, PowerIs
<1> DEFINE a == 2^(n - 1)
           b == 2^n
<1>3. a \in Nat /\ a > 0 /\ b = 2 * a
  BY <1>1, <1>2
<1> HIDE DEF a, b
<1>4. b >= 2
  BY <1>3
<1> QED BY <1>4 DEF b

\* A group holds more than one number.
LEMMA GroupIs == GROUP \in Nat /\ GROUP > 1
<1>1. GROUP_BITS \in Exponents /\ GROUP_BITS > 0
  BY Widths DEF Exponents
<1>2. 2^GROUP_BITS \in Nat
  BY <1>1, PowerIs
<1>3. 2^GROUP_BITS >= 2
  BY <1>1, PowerAbove
<1> QED BY <1>2, <1>3 DEF GROUP

\* The largest number in a prefix.
LEMMA PrefixIs ==
  ASSUME NEW bits \in 1..WORD_BITS
  PROVE  2^bits - 1 \in Nat /\ 2^bits - 1 > 0
<1>1. bits \in Exponents /\ bits > 0
  BY Widths DEF Exponents
<1>2. 2^bits \in Nat
  BY <1>1, PowerIs
<1>3. 2^bits >= 2
  BY <1>1, PowerAbove
<1> HIDE DEF Exponents
<1> QED BY <1>2, <1>3

\* Powers multiply as their exponents add.
LEMMA PowerSum ==
  ASSUME NEW m \in Exponents, NEW n \in Exponents, m + n \in Exponents
  PROVE  2^(m + n) = 2^m * 2^n
<1> DEFINE G == {k \in 0..n : 2^(m + k) = 2^m * 2^k}
<1>1. m \in Nat /\ n \in Nat /\ 2^m \in Nat
  BY Widths, PowerIs DEF Exponents
<1>2. 0 \in G
  <2>1. 2^0 = 1 /\ m + 0 = m
    BY <1>1, PowersAssumption
  <2> QED BY <1>1, <2>1
<1>3. ASSUME NEW k \in 0..n, k + 1 \in 0..n, k \in G PROVE k + 1 \in G
  <2>1. m + k \in Exponents /\ k \in Exponents /\ m + (k + 1) = (m + k) + 1
    BY <1>1, <1>3, Widths DEF Exponents
  <2> DEFINE a == 2^m
             b == 2^k
             c == 2^(k + 1)
             d == 2^(m + k)
             e == 2^(m + (k + 1))
  <2>2. b \in Nat /\ c = 2 * b /\ d \in Nat
    BY <2>1, PowerIs
  <2>3. e = 2 * d
    BY <2>1, PowerIs
  <2>4. d = a * b /\ a \in Nat
    BY <1>1, <1>3
  <2> HIDE DEF a, b, c, d, e
  <2>5. e = a * c
    BY <2>2, <2>3, <2>4
  <2> QED BY <1>3, <2>5 DEF a, c, e
<1>4. \A k \in 0..n : k \in G
  <2> HIDE DEF G
  <2> QED BY <1>1, <1>2, <1>3, UpTo
<1> QED BY <1>1, <1>4

-----------------------------------------------------------------------------
(* Prefix integers *)

\* What division by a group leaves.
LEMMA Division ==
  ASSUME NEW n \in Nat
  PROVE  /\ n \div GROUP \in Nat /\ n % GROUP \in 0..GROUP - 1
         /\ n = GROUP * (n \div GROUP) + (n % GROUP)
         /\ n > 0 => n \div GROUP < n
         /\ n \div GROUP <= n
         /\ n < GROUP => n % GROUP = n
         /\ (n + GROUP) % GROUP = n % GROUP
<1>1. GROUP \in Nat /\ GROUP > 1
  BY GroupIs
<1> SUFFICES ASSUME NEW g \in Nat, g > 1
             PROVE  /\ n \div g \in Nat /\ n % g \in 0..g - 1
                    /\ n = g * (n \div g) + (n % g)
                    /\ n > 0 => n \div g < n
                    /\ n \div g <= n
                    /\ n < g => n % g = n
                    /\ (n + g) % g = n % g
  BY <1>1
<1>2. /\ n \div g \in Nat /\ n % g \in 0..g - 1
      /\ n = g * (n \div g) + (n % g)
  OBVIOUS
<1>3. n > 0 => n \div g < n
  OBVIOUS
<1>4. n \div g <= n
  BY <1>2, <1>3
<1>5. n < g => n % g = n
  OBVIOUS
<1>6. (n + g) % g = n % g
  <2> DEFINE q == n \div g
             r == n % g
             q2 == (n + g) \div g
             r2 == (n + g) % g
             d == q2 - q - 1
  <2>1. q \in Nat /\ r \in 0..g - 1 /\ n = g * q + r
    OBVIOUS
  <2>2. q2 \in Nat /\ r2 \in 0..g - 1 /\ n + g = g * q2 + r2
    OBVIOUS
  <2> HIDE DEF q, r, q2, r2
  <2>3. d \in Int /\ g * d = r - r2
    BY <2>1, <2>2
  <2> HIDE DEF d
  <2>4. (d >= 1 => g * d >= g) /\ (d <= -1 => g * d <= -g)
    BY <2>3
  <2>5. d = 0
    BY <2>1, <2>2, <2>3, <2>4
  <2>6. r = r2
    BY <2>1, <2>2, <2>3, <2>5
  <2> QED BY <2>6 DEF r, r2
<1> QED BY <1>2, <1>3, <1>4, <1>5, <1>6

\* left[i] is what the loop of write_integer has still to write after i turns.
Lefts(left, rest) ==
    /\ left \in [0..rest -> Nat] /\ left[0] = rest
    /\ \A i \in 1..rest : left[i] = left[i - 1] \div GROUP

\* The octets, when the loop ends after `last` turns.
Digits(left, last) ==
    [i \in 1..last + 1 |-> IF i <= last THEN GROUP + (left[i - 1] % GROUP) ELSE left[last]]

\* The loop ends at the first number that one octet holds.
Written(left, last, rest) ==
    /\ Lefts(left, rest) /\ last \in 0..rest
    /\ left[last] < GROUP /\ \A j \in 0..last - 1 : left[j] >= GROUP
    /\ groups(rest) = Digits(left, last)

LEMMA GroupsAre ==
  ASSUME NEW rest \in Nat
  PROVE  \E left, last : Written(left, last, rest)
<1> DEFINE step == [p \in Nat \X (1..rest) |-> p[1] \div GROUP]
           Is(f) == f = [i \in 0..rest |-> IF i = 0 THEN rest ELSE f[i - 1] \div GROUP]
           left == CHOOSE f : Is(f)
           Ends(i) == left[i] < GROUP /\ \A j \in 0..i - 1 : left[j] >= GROUP
           last == CHOOSE i \in 0..rest : Ends(i)
<1>1. step \in [Nat \X (1..rest) -> Nat]
  BY Division
<1>2. PICK f : Iterates(f, Nat, rest, rest, step)
  <2> DEFINE S == Nat
  <2>1. rest \in S /\ rest \in Nat /\ step \in [S \X (1..rest) -> S]
    BY <1>1
  <2> HIDE DEF step, S
  <2>2. \E f : Iterates(f, S, rest, rest, step)
    BY <2>1, IterateExists
  <2> QED BY <2>2 DEF S
<1>3. \A n \in 1..rest : f[n] = f[n - 1] \div GROUP
  <2> TAKE n \in 1..rest
  <2>1. n - 1 \in 0..rest
    OBVIOUS
  <2>2. <<f[n - 1], n>> \in Nat \X (1..rest)
    BY <1>2, <2>1 DEF Iterates
  <2>3. f[n] = step[<<f[n - 1], n>>]
    BY <1>2 DEF Iterates
  <2> QED BY <2>2, <2>3
<1>4. Is(f)
  <2>1. f[0] = rest /\ f \in [0..rest -> Nat]
    BY <1>2 DEF Iterates
  <2> HIDE DEF step
  <2> QED BY <1>3, <2>1
<1>5. Is(left)
  BY <1>4
<1>6. groups(rest) = Digits(left, last)
  BY DEF groups, Digits
<1> HIDE DEF left
<1>7. left[0] = rest /\ \A n \in 1..rest : left[n] = left[n - 1] \div GROUP
  BY <1>5
<1>8. \A n \in 0..rest : left[n] \in Nat /\ left[n] <= rest - n
  <2> DEFINE G == {n \in 0..rest : left[n] \in Nat /\ left[n] <= rest - n}
  <2>1. 0 \in G
    BY <1>7
  <2>2. ASSUME NEW n \in 0..rest, n + 1 \in 0..rest, n \in G PROVE n + 1 \in G
    <3>1. n + 1 \in 1..rest /\ (n + 1) - 1 = n
      BY <2>2
    <3>2. left[n + 1] = left[n] \div GROUP
      BY <1>7, <3>1
    <3>3. left[n] \in Nat /\ left[n] <= rest - n
      BY <2>2
    <3>4. left[n + 1] \in Nat /\ left[n + 1] <= left[n] /\ (left[n] > 0 => left[n + 1] < left[n])
      BY <3>2, <3>3, Division
    <3> QED BY <2>2, <3>1, <3>3, <3>4
  <2>3. \A n \in 0..rest : n \in G
    <3> HIDE DEF G
    <3> QED BY <2>1, <2>2, UpTo
  <2> QED BY <2>3
<1>9. Lefts(left, rest)
  BY <1>5, <1>7, <1>8 DEF Lefts
<1>10. \E i \in 0..rest : Ends(i)
  <2> DEFINE T == {i \in 0..rest : left[i] < GROUP}
  <2>1. rest \in T
    <3>1. left[rest] <= rest - rest /\ left[rest] \in Nat
      BY <1>8
    <3> QED BY <3>1, GroupIs
  <2>2. PICK i \in T : \A j \in T : i <= j
    <3>1. T \in SUBSET Nat /\ T # {}
      BY <2>1
    <3> HIDE DEF T
    <3> QED BY <3>1, LeastNat
  <2>3. \A j \in 0..i - 1 : left[j] >= GROUP
    <3> TAKE j \in 0..i - 1
    <3>1. j \in 0..rest /\ j \notin T
      BY <2>2
    <3> QED BY <1>8, <3>1, GroupIs
  <2> QED BY <2>2, <2>3
<1>11. last \in 0..rest /\ Ends(last)
  <2> HIDE DEF Ends
  <2> QED BY <1>10
<1> HIDE DEF last
<1> QED BY <1>6, <1>9, <1>11 DEF Written

\* All octets but the last have the high bit set, and the last has not.
Terminated(rest) ==
    /\ rest \in Seq(Nat) /\ Len(rest) > 0
    /\ rest[Len(rest)] < GROUP /\ \A i \in 1..Len(rest) - 1 : rest[i] >= GROUP

LEMMA GroupsTerminated ==
  ASSUME NEW rest \in Nat
  PROVE  Terminated(groups(rest))
<1>1. PICK left, last : Written(left, last, rest)
  BY GroupsAre
<1> DEFINE o == groups(rest)
<1>2. last \in Nat /\ \A i \in 0..last : left[i] \in Nat
  BY <1>1 DEF Written, Lefts
<1>3. \A i \in 1..last : i - 1 \in 0..last /\ left[i - 1] % GROUP \in Nat
  <2> TAKE i \in 1..last
  <2>1. i - 1 \in 0..last
    BY <1>2
  <2>2. left[i - 1] % GROUP \in 0..GROUP - 1
    BY <1>2, <2>1, Division
  <2> QED BY <2>1, <2>2, GroupIs
<1>4. o = [i \in 1..last + 1 |-> o[i]] /\ \A i \in 1..last + 1 : o[i] = IF i <= last THEN GROUP + (left[i - 1] % GROUP) ELSE left[last]
  BY <1>1 DEF Written, Digits
<1> HIDE DEF o
<1>5. \A i \in 1..last : o[i] \in Nat /\ o[i] >= GROUP
  BY <1>2, <1>3, <1>4, GroupIs
<1>6. o[last + 1] = left[last] /\ left[last] \in Nat /\ left[last] < GROUP
  BY <1>1, <1>2, <1>4 DEF Written
<1>7. \A i \in 1..last + 1 : o[i] \in Nat
  BY <1>2, <1>5, <1>6
<1>8. o \in Seq(Nat) /\ Len(o) = last + 1
  BY <1>2, <1>4, <1>7
<1>9. Len(o) - 1 = last
  BY <1>2, <1>8
<1> QED BY <1>2, <1>5, <1>6, <1>8, <1>9 DEF o, Terminated

LEMMA WriteTyped ==
  ASSUME NEW value \in Nat, NEW bits \in 1..WORD_BITS
  PROVE  write_integer(value, bits) \in Seq(Nat) /\ Len(write_integer(value, bits)) > 0
<1> DEFINE max == 2^bits - 1
<1>1. max \in Nat
  BY PrefixIs
<1>2. write_integer(value, bits) = IF value < max THEN <<value>> ELSE <<max>> \o groups(value - max)
  BY DEF write_integer
<1> HIDE DEF max
<1>3. value >= max => value - max \in Nat
  BY <1>1
<1>4. value >= max => groups(value - max) \in Seq(Nat)
  BY <1>3, GroupsTerminated DEF Terminated
<1> QED BY <1>1, <1>2, <1>4

\* value[i] is what read_integer has after i continuation octets.
Values(value, rest, max) ==
    /\ value \in [0..Len(rest) -> Nat] /\ value[0] = max
    /\ \A i \in 1..Len(rest) : value[i] = (value[i - 1] + shifted(rest[i], i)) % 2^WORD_BITS

LEMMA WordIs == 2^WORD_BITS \in Nat /\ 2^WORD_BITS > 1
<1>1. WORD_BITS \in Exponents /\ WORD_BITS > 0
  BY Widths DEF Exponents
<1>2. 2^WORD_BITS \in Nat
  BY <1>1, PowerIs
<1>3. 2^WORD_BITS >= 2
  BY <1>1, PowerAbove
<1> HIDE DEF Exponents
<1> QED BY <1>2, <1>3

LEMMA ShiftedTyped ==
  ASSUME NEW octet \in Nat, NEW i \in Nat, i > 0
  PROVE  shifted(octet, i) \in Nat
<1> DEFINE e == (GROUP_BITS * (i - 1)) % WORD_BITS
           p == 2^e
           w == 2^WORD_BITS
           d == octet % GROUP
<1>1. e \in 0..WORD_BITS - 1
  <2>1. GROUP_BITS * (i - 1) \in Int
    BY Widths
  <2> QED BY <2>1, Widths
<1>2. p \in Nat
  <2>1. e \in Exponents
    BY <1>1, Widths DEF Exponents
  <2> HIDE DEF e
  <2> QED BY <2>1, PowerIs
<1>3. w \in Nat /\ w > 1
  BY WordIs
<1>4. d \in Nat
  BY Division, GroupIs
<1>5. shifted(octet, i) = (d * p) % w
  BY DEF shifted
<1> HIDE DEF d, p, w
<1> QED BY <1>2, <1>3, <1>4, <1>5

\* read_integer as a loop.  The first octet without the high bit ends it.
First(rest) == CHOOSE i \in {k \in DOMAIN rest : rest[k] < GROUP} : \A j \in {k \in DOMAIN rest : rest[k] < GROUP} : i <= j

Reads(value, octets, bits) ==
    LET max == 2^bits - 1
        rest == Tail(octets) IN
    /\ Values(value, rest, max)
    /\ read_integer(octets, bits) =
         IF octets[1] < max THEN octets[1]
         ELSE IF {k \in DOMAIN rest : rest[k] < GROUP} # {} /\ ~overflows(First(rest)) THEN value[First(rest)]
         ELSE Err

LEMMA ReadIs ==
  ASSUME NEW octets \in Seq(Nat), Len(octets) > 0, NEW bits \in 1..WORD_BITS
  PROVE  \E value : Reads(value, octets, bits)
<1> DEFINE max == 2^bits - 1
           rest == Tail(octets)
           N == Len(rest)
           w == 2^WORD_BITS
           next(v, i) == (v + shifted(rest[i], i)) % w
           step == [p \in Nat \X (1..N) |-> next(p[1], p[2])]
           Is(f) == f = [i \in 0..N |-> IF i = 0 THEN max ELSE next(f[i - 1], i)]
           value == CHOOSE f : Is(f)
<1>1. max \in Nat
  BY PrefixIs
<1>2. rest \in Seq(Nat) /\ N \in Nat /\ \A i \in 1..N : rest[i] \in Nat
  OBVIOUS
<1>3. \A v \in Nat, i \in 1..N : next(v, i) \in Nat
  <2> TAKE v \in Nat, i \in 1..N
  <2> DEFINE s == shifted(rest[i], i)
  <2>1. s \in Nat
    <3>1. rest[i] \in Nat /\ i \in Nat /\ i > 0
      BY <1>2
    <3> HIDE DEF rest
    <3> QED BY <3>1, ShiftedTyped
  <2>2. w \in Nat /\ w > 1
    BY WordIs
  <2> HIDE DEF s, w
  <2>3. (v + s) % w \in Nat
    BY <2>1, <2>2
  <2> QED BY <2>3 DEF s
<1> HIDE DEF next
<1>4. PICK f : Iterates(f, Nat, N, max, step)
  <2> DEFINE S == Nat
  <2>1. step \in [S \X (1..N) -> S] /\ max \in S /\ N \in Nat
    BY <1>1, <1>2, <1>3
  <2> HIDE DEF step, S, max, N
  <2>2. \E f : Iterates(f, S, N, max, step)
    BY <2>1, IterateExists
  <2> QED BY <2>2 DEF S
<1>5. f \in [0..N -> Nat] /\ f[0] = max
  BY <1>4 DEF Iterates
<1>6. \A n \in 1..N : f[n] = next(f[n - 1], n)
  <2> HIDE DEF N
  <2> TAKE n \in 1..N
  <2>1. n - 1 \in 0..N
    BY <1>2
  <2>2. <<f[n - 1], n>> \in Nat \X (1..N)
    BY <1>5, <2>1
  <2>3. f[n] = step[<<f[n - 1], n>>]
    BY <1>4 DEF Iterates
  <2> QED BY <2>2, <2>3
<1>7. Is(f)
  <2> HIDE DEF step, N, max
  <2> QED BY <1>2, <1>5, <1>6
<1>8. Is(value)
  BY <1>7
<1>9. value[0] = max /\ value = [i \in 0..N |-> value[i]] /\ \A n \in 1..N : value[n] = next(value[n - 1], n)
  <2> HIDE DEF value, N, max
  <2>1. value = [i \in 0..N |-> IF i = 0 THEN max ELSE next(value[i - 1], i)]
    BY <1>8
  <2>2. DOMAIN value = 0..N
    BY <2>1
  <2>3. value[0] = max
    BY <1>2, <2>1
  <2>4. \A n \in 1..N : value[n] = next(value[n - 1], n)
    BY <1>2, <2>1
  <2>5. value = [i \in 0..N |-> value[i]]
    BY <2>1
  <2> QED BY <2>3, <2>4, <2>5
<1> DEFINE G == {n \in 0..N : value[n] \in Nat}
<1>10. \A n \in 0..N : value[n] \in Nat
  <2> HIDE DEF value, N, max
  <2>1. 0 \in G
    BY <1>1, <1>2, <1>9
  <2>2. ASSUME NEW n \in 0..N, n + 1 \in 0..N, n \in G PROVE n + 1 \in G
    <3>1. n + 1 \in 1..N /\ (n + 1) - 1 = n
      BY <1>2, <2>2
    <3> QED BY <1>3, <1>9, <2>2, <3>1
  <2>3. \A n \in 0..N : n \in G
    <3> HIDE DEF G
    <3> QED BY <1>2, <2>1, <2>2, UpTo
  <2> QED BY <2>3
<1>11. Values(value, rest, max)
  <2> HIDE DEF value, max
  <2> QED BY <1>9, <1>10 DEF Values, next, w
<1>12. read_integer(octets, bits) =
         IF octets[1] < max THEN octets[1]
         ELSE IF {k \in DOMAIN rest : rest[k] < GROUP} # {} /\ ~overflows(First(rest)) THEN value[First(rest)]
         ELSE Err
  BY Zenon DEF read_integer, First, next, w
<1> HIDE DEF value
<1> QED BY <1>11, <1>12 DEF Reads

LEMMA FirstIs ==
  ASSUME NEW rest \in Seq(Nat), {k \in DOMAIN rest : rest[k] < GROUP} # {}
  PROVE  /\ First(rest) \in 1..Len(rest) /\ rest[First(rest)] < GROUP
         /\ \A k \in 1..Len(rest) : rest[k] < GROUP => First(rest) <= k
<1> DEFINE E == {k \in DOMAIN rest : rest[k] < GROUP}
<1>1. E \in SUBSET Nat /\ E # {} /\ DOMAIN rest = 1..Len(rest)
  OBVIOUS
<1>2. \E i \in E : \A j \in E : i <= j
  <2> HIDE DEF E
  <2> QED BY <1>1, LeastNat
<1>3. First(rest) \in E /\ \A j \in E : First(rest) <= j
  <2>1. First(rest) = CHOOSE i \in E : \A j \in E : i <= j
    BY DEF First
  <2> HIDE DEF E
  <2> QED BY <1>2, <2>1
<1> QED BY <1>1, <1>3

\* A reader returns a number or fails.
LEMMA ReadTyped ==
  ASSUME NEW octets \in Seq(Nat), Len(octets) > 0, NEW bits \in 1..WORD_BITS
  PROVE  read_integer(octets, bits) \in Nat \cup {Err}
<1> DEFINE rest == Tail(octets)
<1>1. PICK value : Reads(value, octets, bits)
  BY ReadIs
<1>2. rest \in Seq(Nat) /\ octets[1] \in Nat
  OBVIOUS
<1>3. Values(value, rest, 2^bits - 1) /\ read_integer(octets, bits) \in
         {octets[1], Err} \cup (IF {k \in DOMAIN rest : rest[k] < GROUP} # {} THEN {value[First(rest)]} ELSE {})
  BY <1>1 DEF Reads
<1>4. {k \in DOMAIN rest : rest[k] < GROUP} # {} => First(rest) \in 0..Len(rest)
  <2> HIDE DEF rest
  <2> QED BY <1>2, FirstIs
<1>5. {k \in DOMAIN rest : rest[k] < GROUP} # {} => value[First(rest)] \in Nat
  <2> HIDE DEF rest
  <2> QED BY <1>3, <1>4 DEF Values
<1> HIDE DEF rest
<1> QED BY <1>2, <1>3, <1>5

\* All octets are read if only the last has no high bit.
LEMMA ReadTerminated ==
  ASSUME NEW r, Terminated(r), NEW bits \in 1..WORD_BITS
  PROVE  \E value : /\ Values(value, r, 2^bits - 1)
                    /\ read_integer(<<2^bits - 1>> \o r, bits) = IF Len(r) > MAX_GROUPS THEN Err ELSE value[Len(r)]
<1> DEFINE max == 2^bits - 1
           o == <<max>> \o r
<1>1. max \in Nat /\ r \in Seq(Nat) /\ Len(r) \in Nat /\ Len(r) > 0
  BY PrefixIs DEF Terminated
<1> HIDE DEF max
<1>2. o \in Seq(Nat) /\ Len(o) > 0 /\ o[1] = max /\ ~(o[1] < max)
  BY <1>1
<1>3. Tail(o) = r
  BY <1>1
<1> HIDE DEF o
<1>4. PICK value : Reads(value, o, bits)
  BY <1>2, ReadIs
<1>5. Len(r) \in {k \in DOMAIN r : r[k] < GROUP}
  BY <1>1 DEF Terminated
<1>6. First(r) = Len(r)
  <2>1. First(r) \in 1..Len(r) /\ r[First(r)] < GROUP
    BY <1>1, <1>5, FirstIs
  <2>2. First(r) # Len(r) => r[First(r)] >= GROUP /\ r[First(r)] \in Nat
    BY <1>1, <2>1 DEF Terminated
  <2> QED BY <2>1, <2>2, GroupIs
<1>7. read_integer(o, bits) = IF ~overflows(Len(r)) THEN value[Len(r)] ELSE Err
  BY <1>2, <1>3, <1>4, <1>5, <1>6 DEF Reads, max
<1>8. Values(value, r, max)
  BY <1>3, <1>4 DEF Reads, max
<1> QED BY <1>7, <1>8 DEF overflows, o, max

LEMMA PowerGrows ==
  ASSUME NEW m \in Exponents, NEW n \in Exponents, m <= n
  PROVE  2^m <= 2^n
<1>1. n - m \in Exponents /\ m + (n - m) = n
  BY Widths DEF Exponents
<1>2. 2^(m + (n - m)) = 2^m * 2^(n - m)
  BY <1>1, PowerSum
<1> DEFINE a == 2^m
           b == 2^(n - m)
           c == 2^n
<1>3. a \in Nat /\ b \in Nat /\ b > 0 /\ c = a * b
  BY <1>1, <1>2, PowerIs
<1> HIDE DEF a, b, c
<1>4. a <= c
  BY <1>3
<1> QED BY <1>4 DEF a, c

\* The weight of the octet after n continuation octets.
Weight(n) == 2^(GROUP_BITS * n)

LEMMA WeightIs ==
  /\ Weight(0) = 1
  /\ \A n \in 0..MAX_GROUPS : GROUP_BITS * n \in Exponents /\ Weight(n) \in Nat /\ Weight(n) > 0
  /\ \A n \in 0..MAX_GROUPS - 1 : Weight(n + 1) = GROUP * Weight(n)
<1>1. \A n \in 0..MAX_GROUPS : GROUP_BITS * n \in Exponents
  <2> TAKE n \in 0..MAX_GROUPS
  <2> SUFFICES ASSUME NEW g \in Nat, NEW m \in Nat, n <= m PROVE g * n \in Nat /\ g * n <= g * m
    <3> DEFINE a == GROUP_BITS * n
               b == GROUP_BITS * MAX_GROUPS
    <3>1. a \in Nat /\ b \in Nat /\ a <= b
      BY Widths
    <3> HIDE DEF a, b
    <3>2. a \in 0..(WORD_BITS + b)
      BY <3>1, Widths
    <3> QED BY <3>2 DEF Exponents, a, b
  <2>1. g * n \in Nat
    OBVIOUS
  <2>2. g * (m - n) \in Nat /\ g * m = g * n + g * (m - n)
    OBVIOUS
  <2> QED BY <2>1, <2>2
<1>2. \A n \in 0..MAX_GROUPS : Weight(n) \in Nat /\ Weight(n) > 0
  BY <1>1, PowerIs DEF Weight
<1>3. ASSUME NEW n \in 0..MAX_GROUPS - 1 PROVE Weight(n + 1) = GROUP * Weight(n)
  <2>1. n \in 0..MAX_GROUPS /\ n + 1 \in 0..MAX_GROUPS
    BY Widths
  <2>2. GROUP_BITS * (n + 1) = GROUP_BITS + GROUP_BITS * n
    BY Widths
  <2>3. GROUP_BITS \in Exponents
    BY Widths DEF Exponents
  <2>4. GROUP_BITS * n \in Exponents /\ GROUP_BITS + GROUP_BITS * n \in Exponents
    BY <1>1, <2>1, <2>2
  <2>5. 2^(GROUP_BITS + GROUP_BITS * n) = 2^GROUP_BITS * 2^(GROUP_BITS * n)
    BY <2>3, <2>4, PowerSum
  <2> QED BY <2>2, <2>5 DEF Weight, GROUP
<1>4. Weight(0) = 1
  <2>1. GROUP_BITS * 0 = 0
    BY Widths
  <2> QED BY <2>1, PowersAssumption DEF Weight
<1> QED BY <1>1, <1>2, <1>3, <1>4

\* What the loop has still to write, with its weight, is within what it began with.
LEMMA LeftWeighs ==
  ASSUME NEW rest \in Nat, NEW left, NEW last, Written(left, last, rest)
  PROVE  \A n \in 0..last : n <= MAX_GROUPS =>
            /\ left[n] \in Nat /\ left[n] * Weight(n) <= rest
            /\ n > 0 => left[n] > 0
<1>1. last \in Nat /\ last <= rest /\ left[0] = rest /\ \A n \in 0..last : left[n] \in Nat
  BY DEF Written, Lefts
<1>2. ASSUME NEW n \in 0..last - 1
      PROVE  left[n + 1] = left[n] \div GROUP /\ left[n] >= GROUP
  <2>1. n + 1 \in 1..rest /\ (n + 1) - 1 = n
    BY <1>1
  <2> QED BY <2>1 DEF Written, Lefts
<1>3. MAX_GROUPS \in Nat /\ Weight(0) = 1
  BY Widths, WeightIs
<1> DEFINE G == {n \in 0..last : n <= MAX_GROUPS => left[n] * Weight(n) <= rest /\ (n > 0 => left[n] > 0)}
<1>4. 0 \in G
  BY <1>1, <1>3
<1>5. ASSUME NEW n \in 0..last, n + 1 \in 0..last, n \in G PROVE n + 1 \in G
  <2> SUFFICES ASSUME n + 1 <= MAX_GROUPS PROVE left[n + 1] * Weight(n + 1) <= rest /\ left[n + 1] > 0
    BY <1>5
  <2>1. n \in 0..last - 1 /\ n \in 0..MAX_GROUPS - 1 /\ n \in 0..MAX_GROUPS
    BY <1>1, <1>3, <1>5
  <2> DEFINE a == left[n]
             b == left[n + 1]
             w == Weight(n)
             x == Weight(n + 1)
  <2>2. b = a \div GROUP /\ a >= GROUP /\ a \in Nat
    BY <1>1, <1>2, <2>1
  <2>3. b \in Nat /\ a % GROUP \in 0..GROUP - 1 /\ a = GROUP * b + (a % GROUP)
    BY <2>2, Division
  <2>4. w \in Nat /\ x = GROUP * w
    BY <2>1, WeightIs
  <2>5. a * w <= rest
    BY <1>3, <1>5, <2>1
  <2> HIDE DEF a, b, w, x
  <2>6. b > 0
    <3>1. b = 0 => GROUP * b = 0
      BY GroupIs
    <3> QED BY <2>2, <2>3, <3>1, GroupIs
  <2>7. b * x <= a * w
    <3> SUFFICES ASSUME NEW g \in Nat, NEW r \in Nat, a = g * b + r, x = g * w PROVE b * x <= a * w
      BY <2>3, <2>4, GroupIs
    <3>1. a * w = (g * b) * w + r * w
      BY <2>2, <2>3, <2>4
    <3>2. b * x = (g * b) * w
      BY <2>3, <2>4
    <3>3. r * w \in Nat /\ (g * b) * w \in Nat
      BY <2>3, <2>4
    <3> QED BY <3>1, <3>2, <3>3
  <2>8. b * x \in Nat /\ a * w \in Nat
    BY <2>2, <2>3, <2>4, GroupIs
  <2> QED BY <2>5, <2>6, <2>7, <2>8 DEF b, x
<1>6. \A n \in 0..last : n \in G
  <2> HIDE DEF G
  <2> QED BY <1>1, <1>4, <1>5, UpTo
<1> QED BY <1>1, <1>6

\* A number below the limit takes no more octets than read_integer accepts.
LEMMA FewGroups ==
  ASSUME NEW rest \in Nat, rest < Weight(MAX_GROUPS)
  PROVE  Len(groups(rest)) <= MAX_GROUPS
<1>1. PICK left, last : Written(left, last, rest)
  BY GroupsAre
<1>2. last \in Nat
  BY <1>1 DEF Written
<1>3. Len(groups(rest)) = last + 1
  BY <1>1, <1>2 DEF Written, Digits
<1> SUFFICES ASSUME last >= MAX_GROUPS PROVE FALSE
  BY <1>2, <1>3, Widths
<1>4. MAX_GROUPS \in 0..last /\ MAX_GROUPS > 0 /\ MAX_GROUPS \in 0..MAX_GROUPS
  BY <1>2, Widths
<1> DEFINE a == left[MAX_GROUPS]
           w == Weight(MAX_GROUPS)
<1>5. a \in Nat /\ a > 0 /\ a * w <= rest
  BY <1>1, <1>4, LeftWeighs
<1>6. w \in Nat
  BY <1>4, WeightIs
<1> HIDE DEF a, w
<1>7. w <= a * w /\ a * w \in Nat
  BY <1>5, <1>6
<1> QED BY <1>5, <1>6, <1>7 DEF w

\* No bits are lost where the result fits in a word.
LEMMA ShiftExact ==
  ASSUME NEW octet \in Nat, NEW n \in 0..MAX_GROUPS,
         octet % GROUP = 0 \/ Weight(n) < 2^WORD_BITS,
         (octet % GROUP) * Weight(n) < 2^WORD_BITS
  PROVE  shifted(octet, n + 1) = (octet % GROUP) * Weight(n)
<1> DEFINE e == (GROUP_BITS * n) % WORD_BITS
           p == 2^e
           w == 2^WORD_BITS
           d == octet % GROUP
           x == Weight(n)
<1>1. shifted(octet, n + 1) = (d * p) % w
  <2>1. (n + 1) - 1 = n
    BY Widths
  <2> QED BY <2>1 DEF shifted
<1>2. d \in Nat /\ w \in Nat /\ w > 1 /\ x \in Nat
  BY Division, GroupIs, WordIs, WeightIs
<1>3. e \in 0..WORD_BITS - 1
  <2>1. GROUP_BITS * n \in Int
    BY Widths
  <2> QED BY <2>1, Widths
<1>4. p \in Nat
  <2>1. e \in Exponents
    BY <1>3, Widths DEF Exponents
  <2> HIDE DEF e
  <2> QED BY <2>1, PowerIs
<1>5. CASE d = 0
  <2> HIDE DEF p, w, x, d
  <2>1. d * p = 0 /\ d * x = 0 /\ 0 % w = 0
    BY <1>2, <1>4, <1>5
  <2> QED BY <1>1, <2>1 DEF x, d
<1>6. CASE d # 0
  <2>1. x < w
    BY <1>6
  <2>2. GROUP_BITS * n < WORD_BITS
    <3> SUFFICES ASSUME GROUP_BITS * n >= WORD_BITS PROVE FALSE
      <4>1. GROUP_BITS * n \in Int
        BY Widths
      <4> QED BY <4>1, Widths
    <3>1. WORD_BITS \in Exponents
      BY Widths DEF Exponents
    <3>2. GROUP_BITS * n \in Exponents
      BY WeightIs
    <3>3. w <= x
      BY <3>1, <3>2, PowerGrows DEF Weight
    <3> HIDE DEF w, x
    <3> QED BY <1>2, <2>1, <3>3
  <2>3. e = GROUP_BITS * n
    <3> DEFINE m == GROUP_BITS * n
    <3>1. m \in Nat
      BY WeightIs, Widths DEF Exponents
    <3> HIDE DEF m
    <3>2. m % WORD_BITS = m
      BY <2>2, <3>1, Widths DEF m
    <3> QED BY <3>2 DEF m
  <2>4. p = x
    BY <2>3 DEF Weight
  <2>5. d * x < w
    OBVIOUS
  <2> HIDE DEF p, w, x, d, e
  <2>6. d * x \in Nat
    BY <1>2
  <2>7. (d * x) % w = d * x
    <3> DEFINE y == d * x
    <3> HIDE DEF y
    <3>1. y \in Nat /\ y < w
      BY <2>5, <2>6 DEF y
    <3>2. y % w = y
      BY <1>2, <3>1
    <3> QED BY <3>2 DEF y
  <2> QED BY <1>1, <2>4, <2>7 DEF x, d
<1> QED BY <1>5, <1>6

\* The octets of r carry the digits of a number, and zeros behind them.
Spells(r, left, last) ==
    /\ r \in Seq(Nat) /\ last + 1 <= Len(r) /\ Len(r) <= MAX_GROUPS
    /\ \A i \in 1..Len(r) : r[i] % GROUP = IF i <= last + 1 THEN left[i - 1] % GROUP ELSE 0

\* One continuation octet, of those that carry digits.
LEMMA AddDigit ==
  ASSUME NEW a \in Nat, NEW n \in 0..MAX_GROUPS, NEW v \in Nat, NEW total \in Nat, NEW octet \in Nat,
         octet % GROUP = a % GROUP, n > 0 => a > 0,
         total < 2^WORD_BITS, v + a * Weight(n) = total
  PROVE  /\ (v + shifted(octet, n + 1)) % 2^WORD_BITS = v + (a % GROUP) * Weight(n)
         /\ a < GROUP => v + (a % GROUP) * Weight(n) = total
         /\ n < MAX_GROUPS => (v + (a % GROUP) * Weight(n)) + (a \div GROUP) * Weight(n + 1) = total
<1> DEFINE d == a % GROUP
           q == a \div GROUP
           x == Weight(n)
           w == 2^WORD_BITS
           s == shifted(octet, n + 1)
<1>1. d \in Nat /\ q \in Nat /\ a = GROUP * q + d /\ (a < GROUP => d = a) /\ d <= a
  <2>1. d \in 0..GROUP - 1 /\ q \in Nat /\ a = GROUP * q + d /\ (a < GROUP => d = a)
    BY Division
  <2> HIDE DEF d, q
  <2>2. GROUP * q \in Nat
    BY <2>1, GroupIs
  <2> QED BY <2>1, <2>2, GroupIs
<1>2. x \in Nat /\ x > 0 /\ w \in Nat /\ w > 1 /\ (n = 0 => x = 1)
  BY WeightIs, WordIs
<1>3. d * x <= a * x /\ d * x \in Nat /\ a * x \in Nat
  <2> HIDE DEF d, q, x
  <2>1. a * x = d * x + (a - d) * x
    BY <1>1, <1>2
  <2>2. (a - d) * x \in Nat /\ d * x \in Nat /\ a * x \in Nat
    BY <1>1, <1>2
  <2> QED BY <2>1, <2>2
<1>4. d # 0 => x < w
  <2>1. v + a * x = total /\ total < w
    OBVIOUS
  <2> HIDE DEF x, w
  <2>2. a > 0 => x <= a * x
    BY <1>2
  <2>3. d # 0 => a > 0
    BY <1>1
  <2> QED BY <1>2, <1>3, <2>1, <2>2, <2>3
<1>5. s = d * x
  <2>1. d * x < w
    <3>1. v + a * x = total /\ total < w
      OBVIOUS
    <3> HIDE DEF x, w, d
    <3> QED BY <1>2, <1>3, <3>1
  <2>2. octet % GROUP = d
    OBVIOUS
  <2> QED BY <1>4, <2>1, <2>2, ShiftExact
<1>6. (v + s) % w = v + d * x
  <2>1. v + a * x = total /\ total < w
    OBVIOUS
  <2> HIDE DEF x, w, d, s
  <2> DEFINE y == v + d * x
  <2>2. y \in Nat /\ y < w
    BY <1>2, <1>3, <2>1
  <2> HIDE DEF y
  <2>3. y % w = y
    BY <1>2, <2>2
  <2> QED BY <1>5, <2>3 DEF y
<1>7. a < GROUP => v + d * x = total
  BY <1>1
<1>8. n < MAX_GROUPS => (v + d * x) + q * Weight(n + 1) = total
  <2> SUFFICES ASSUME n < MAX_GROUPS PROVE (v + d * x) + q * Weight(n + 1) = total
    OBVIOUS
  <2>1. Weight(n + 1) = GROUP * x
    BY WeightIs, Widths
  <2>2. v + a * x = total
    OBVIOUS
  <2> HIDE DEF d, q, x
  <2>3. q * (GROUP * x) = (GROUP * q) * x
    BY <1>1, <1>2, GroupIs
  <2>4. a * x = (GROUP * q) * x + d * x /\ (GROUP * q) * x \in Nat
    BY <1>1, <1>2, GroupIs
  <2> QED BY <1>3, <2>1, <2>2, <2>3, <2>4
<1> QED BY <1>6, <1>7, <1>8

LEMMA SpelledIsRead ==
  ASSUME NEW rest \in Nat, NEW left, NEW last, Written(left, last, rest),
         NEW r, Spells(r, left, last), NEW max \in Nat, max + rest < 2^WORD_BITS,
         NEW value, Values(value, r, max)
  PROVE  value[Len(r)] = max + rest
<1> DEFINE N == Len(r)
           total == max + rest
<1>1. N \in Nat /\ N <= MAX_GROUPS /\ last + 1 <= N /\ last \in Nat /\ \A i \in 1..N : r[i] \in Nat
  BY Widths DEF Spells, Written
<1>2. \A n \in 0..last : left[n] \in Nat /\ (n > 0 => left[n] > 0)
  BY <1>1, LeftWeighs, Widths
<1>3. \A n \in 0..N : value[n] \in Nat
  BY DEF Values
<1>4. \A n \in 0..N - 1 : value[n + 1] = (value[n] + shifted(r[n + 1], n + 1)) % 2^WORD_BITS
  <2> TAKE n \in 0..N - 1
  <2>1. n + 1 \in 1..N /\ (n + 1) - 1 = n
    BY <1>1
  <2> QED BY <2>1 DEF Values
<1>5. \A n \in 0..last : r[n + 1] % GROUP = left[n] % GROUP
  <2> TAKE n \in 0..last
  <2>1. n + 1 \in 1..N /\ (n + 1) - 1 = n /\ n + 1 <= last + 1
    BY <1>1
  <2> QED BY <2>1 DEF Spells
<1>6. \A n \in 0..last - 1 : left[n + 1] = left[n] \div GROUP
  <2> TAKE n \in 0..last - 1
  <2>1. n + 1 \in 1..rest /\ (n + 1) - 1 = n
    BY <1>1 DEF Written
  <2> QED BY <2>1 DEF Written, Lefts
<1>7. left[last] < GROUP /\ left[0] = rest /\ value[0] = max
  BY DEF Written, Lefts, Values
<1> HIDE DEF N
<1> DEFINE Sum(n) == value[n] + left[n] * Weight(n) = total
           G == {n \in 0..last : Sum(n)}
<1>8. 0 \in G
  BY <1>1, <1>7, WeightIs
<1>9. ASSUME NEW n \in 0..last, Sum(n)
      PROVE  /\ value[n + 1] = value[n] + (left[n] % GROUP) * Weight(n)
             /\ left[n] < GROUP => value[n + 1] = total
             /\ n < last => Sum(n + 1)
  <2>1. n \in 0..N - 1 /\ n \in 0..MAX_GROUPS /\ n \in 0..N /\ n + 1 \in 1..N
    BY <1>1, Widths
  <2>2. value[n] \in Nat /\ left[n] \in Nat /\ r[n + 1] \in Nat /\ total \in Nat
    BY <1>1, <1>2, <1>3, <2>1
  <2>3. r[n + 1] % GROUP = left[n] % GROUP /\ (n > 0 => left[n] > 0)
    BY <1>2, <1>5
  <2>4. total < 2^WORD_BITS /\ value[n] + left[n] * Weight(n) = total
    BY <1>9
  <2> HIDE DEF total
  <2>5. /\ (value[n] + shifted(r[n + 1], n + 1)) % 2^WORD_BITS = value[n] + (left[n] % GROUP) * Weight(n)
        /\ left[n] < GROUP => value[n] + (left[n] % GROUP) * Weight(n) = total
        /\ n < MAX_GROUPS => (value[n] + (left[n] % GROUP) * Weight(n)) + (left[n] \div GROUP) * Weight(n + 1) = total
    BY <2>1, <2>2, <2>3, <2>4, AddDigit
  <2>6. value[n + 1] = value[n] + (left[n] % GROUP) * Weight(n)
    BY <1>4, <2>1, <2>5
  <2>7. n < last => n < MAX_GROUPS /\ left[n + 1] = left[n] \div GROUP
    BY <1>1, <1>6, Widths
  <2> QED BY <2>5, <2>6, <2>7
<1>10. \A n \in 0..last : n \in G
  <2>1. ASSUME NEW n \in 0..last, n + 1 \in 0..last, n \in G PROVE n + 1 \in G
    <3>1. n < last /\ Sum(n)
      BY <1>1, <2>1
    <3>2. Sum(n + 1)
      <4> HIDE DEF Sum
      <4> QED BY <1>9, <3>1
    <3> QED BY <2>1, <3>2
  <2> HIDE DEF G
  <2> QED BY <1>1, <1>8, <2>1, UpTo
<1>11. value[last + 1] = total
  <2>1. last \in 0..last /\ Sum(last)
    BY <1>1, <1>10
  <2> HIDE DEF Sum, total
  <2> QED BY <1>7, <1>9, <2>1
<1> DEFINE H == {n \in 0..N : n > last => value[n] = total}
<1>12. 0 \in H
  BY <1>1
<1>13. ASSUME NEW n \in 0..N, n + 1 \in 0..N, n \in H PROVE n + 1 \in H
  <2>1. n \in 0..N - 1 /\ n + 1 \in 1..N /\ n \in 0..MAX_GROUPS
    BY <1>1, <1>13, Widths
  <2>2. CASE n < last
    BY <1>1, <1>13, <2>2
  <2>3. CASE n = last
    BY <1>1, <1>11, <1>13, <2>3
  <2>4. CASE n > last
    <3>1. value[n] = total
      BY <1>13, <2>4
    <3>2. r[n + 1] % GROUP = 0 /\ r[n + 1] \in Nat
      <4>1. ~(n + 1 <= last + 1)
        BY <1>1, <2>4
      <4> QED BY <1>1, <2>1, <4>1 DEF Spells, N
    <3> DEFINE x == Weight(n)
               w == 2^WORD_BITS
    <3>3. x \in Nat /\ w \in Nat /\ w > 1 /\ total < w /\ total \in Nat
      BY <2>1, WeightIs, WordIs
    <3>4. (r[n + 1] % GROUP) * x = 0
      <4> HIDE DEF x
      <4> QED BY <3>2, <3>3
    <3>5. shifted(r[n + 1], n + 1) = 0
      <4>1. (r[n + 1] % GROUP) * Weight(n) < 2^WORD_BITS
        BY <3>3, <3>4
      <4>2. shifted(r[n + 1], n + 1) = (r[n + 1] % GROUP) * Weight(n)
        BY <2>1, <3>2, <4>1, ShiftExact
      <4> QED BY <3>4, <4>2
    <3>6. value[n + 1] = (total + 0) % w
      BY <1>4, <2>1, <3>1, <3>5
    <3> HIDE DEF x, w, total
    <3>7. value[n + 1] = total
      BY <3>3, <3>6
    <3> QED BY <1>13, <3>7
  <2> QED BY <1>1, <2>2, <2>3, <2>4
<1>14. \A n \in 0..N : n \in H
  <2> HIDE DEF H
  <2> QED BY <1>1, <1>12, <1>13, UpTo
<1>15. N \in 0..N /\ N > last
  BY <1>1
<1> QED BY <1>14, <1>15 DEF N

\* A sequence with one more element in front.
LEMMA Prepended ==
  ASSUME NEW S, NEW x \in S, NEW s \in Seq(S)
  PROVE  /\ <<x>> \o s \in Seq(S) /\ Len(<<x>> \o s) = Len(s) + 1
         /\ (<<x>> \o s)[1] = x
         /\ \A i \in 2..Len(s) + 1 : (<<x>> \o s)[i] = s[i - 1]
         /\ \A i \in 1..Len(s) : (<<x>> \o s)[i + 1] = s[i]
<1> DEFINE o == <<x>> \o s
<1>1. <<x>> \in Seq(S) /\ Len(<<x>>) = 1 /\ <<x>>[1] = x /\ Len(s) \in Nat
  OBVIOUS
<1>2. /\ o \in Seq(S) /\ Len(o) = 1 + Len(s)
      /\ \A i \in 1..1 + Len(s) : o[i] = IF i <= 1 THEN <<x>>[i] ELSE s[i - 1]
  BY <1>1, ConcatProperties
<1> HIDE DEF o
<1>3. o[1] = x
  BY <1>1, <1>2
<1>4. \A i \in 2..Len(s) + 1 : o[i] = s[i - 1]
  BY <1>1, <1>2
<1>5. ASSUME NEW i \in 1..Len(s) PROVE o[i + 1] = s[i]
  <2>1. i + 1 \in 2..Len(s) + 1 /\ (i + 1) - 1 = i
    BY <1>1
  <2> QED BY <1>4, <2>1
<1> QED BY <1>1, <1>2, <1>3, <1>4, <1>5 DEF o

\* The last octet with its high bit set, and k octets without digits.
Raised(g) == [g EXCEPT ![Len(g)] = @ + GROUP]
Zeros(k) == [i \in 1..k |-> IF i < k THEN GROUP ELSE 0]

LEMMA RaisedIs ==
  ASSUME NEW g \in Seq(Nat), Len(g) > 0
  PROVE  /\ Raised(g) \in Seq(Nat) /\ Len(Raised(g)) = Len(g)
         /\ \A i \in 1..Len(g) : Raised(g)[i] = IF i = Len(g) THEN g[i] + GROUP ELSE g[i]
<1>1. Len(g) \in 1..Len(g) /\ g[Len(g)] + GROUP \in Nat
  BY GroupIs
<1>2. Raised(g) = [g EXCEPT ![Len(g)] = g[Len(g)] + GROUP]
  BY DEF Raised
<1> QED BY <1>1, <1>2, ExceptSeq

LEMMA RaisedCons ==
  ASSUME NEW x \in Nat, NEW g \in Seq(Nat), Len(g) > 0
  PROVE  Raised(<<x>> \o g) = <<x>> \o Raised(g)
<1> DEFINE o == <<x>> \o g
           h == Raised(g)
           p == <<x>> \o h
           q == Raised(o)
           L == Len(g)
<1>1. L \in Nat /\ L > 0
  OBVIOUS
<1>2. o \in Seq(Nat) /\ Len(o) = L + 1 /\ o[1] = x /\ \A i \in 2..L + 1 : o[i] = g[i - 1]
  BY Prepended
<1>3. h \in Seq(Nat) /\ Len(h) = L /\ \A i \in 1..L : h[i] = IF i = L THEN g[i] + GROUP ELSE g[i]
  BY RaisedIs
<1> HIDE DEF o, h
<1>4. q \in Seq(Nat) /\ Len(q) = L + 1 /\ \A i \in 1..L + 1 : q[i] = IF i = L + 1 THEN o[i] + GROUP ELSE o[i]
  <2>1. /\ Raised(o) \in Seq(Nat) /\ Len(Raised(o)) = Len(o)
        /\ \A i \in 1..Len(o) : Raised(o)[i] = IF i = Len(o) THEN o[i] + GROUP ELSE o[i]
    <3>1. o \in Seq(Nat) /\ Len(o) > 0
      BY <1>1, <1>2
    <3> QED BY <3>1, RaisedIs, Zenon
  <2> HIDE DEF L
  <2> QED BY <1>2, <2>1
<1>5. p \in Seq(Nat) /\ Len(p) = L + 1 /\ p[1] = x /\ \A i \in 2..L + 1 : p[i] = h[i - 1]
  BY <1>3, Prepended
<1> HIDE DEF p, q, L
<1>6. ASSUME NEW i \in 1..L + 1 PROVE q[i] = p[i]
  <2>1. CASE i = 1
    BY <1>1, <1>2, <1>4, <1>5, <2>1
  <2>2. CASE i # 1
    <3>1. i \in 2..L + 1 /\ i - 1 \in 1..L /\ (i - 1 = L <=> i = L + 1)
      BY <1>1, <2>2
    <3>2. q[i] = IF i = L + 1 THEN o[i] + GROUP ELSE o[i]
      BY <1>4, Zenon
    <3>3. o[i] = g[i - 1] /\ p[i] = h[i - 1]
      BY <1>2, <1>5, <3>1, Zenon
    <3>4. h[i - 1] = IF i - 1 = L THEN g[i - 1] + GROUP ELSE g[i - 1]
      BY <1>3, <3>1, Zenon
    <3> QED BY <3>1, <3>2, <3>3, <3>4, Zenon
  <2> QED BY <2>1, <2>2
<1>7. q = p
  BY <1>4, <1>5, <1>6, SeqEqual
<1> QED BY <1>7 DEF o, h, p, q

\* Longer forms end where they should and have the same digits.
LEMMA Lengthened ==
  ASSUME NEW g, Terminated(g), NEW k \in Nat, k > 0, NEW r, r = Raised(g) \o Zeros(k)
  PROVE  /\ Terminated(r) /\ Len(r) = Len(g) + k
         /\ \A i \in 1..Len(r) : r[i] % GROUP = IF i <= Len(g) THEN g[i] % GROUP ELSE 0
<1> DEFINE h == Raised(g)
           z == Zeros(k)
           L == Len(g)
<1>1. g \in Seq(Nat) /\ L \in Nat /\ L > 0 /\ \A i \in 1..L - 1 : g[i] >= GROUP
  BY DEF Terminated
<1>2. h \in Seq(Nat) /\ Len(h) = L /\ \A i \in 1..L : h[i] = IF i = L THEN g[i] + GROUP ELSE g[i]
  BY <1>1, RaisedIs
<1>3. z \in Seq(Nat) /\ Len(z) = k /\ \A i \in 1..k : z[i] = IF i < k THEN GROUP ELSE 0
  BY GroupIs DEF Zeros
<1> HIDE DEF h, z
<1> HIDE DEF L
<1>4. r \in Seq(Nat) /\ Len(r) = L + k /\ \A i \in 1..L + k : r[i] = IF i <= L THEN h[i] ELSE z[i - L]
  <2>1. r = h \o z
    BY DEF h, z
  <2>2. /\ h \o z \in Seq(Nat) /\ Len(h \o z) = Len(h) + Len(z)
        /\ \A i \in 1..Len(h) + Len(z) : (h \o z)[i] = IF i <= Len(h) THEN h[i] ELSE z[i - Len(h)]
    <3>1. h \in Seq(Nat) /\ z \in Seq(Nat)
      BY <1>2, <1>3
    <3> QED BY <3>1, ConcatProperties
  <2> QED BY <1>2, <1>3, <2>1, <2>2
<1>5. ASSUME NEW i \in 1..L PROVE r[i] >= GROUP /\ r[i] % GROUP = g[i] % GROUP
  <2>1. r[i] = h[i] /\ g[i] \in Nat
    BY <1>1, <1>4 DEF L
  <2>2. CASE i = L
    <3>1. h[i] = g[i] + GROUP
      BY <1>2, <2>2
    <3>2. (g[i] + GROUP) % GROUP = g[i] % GROUP
      BY <2>1, Division
    <3>3. h[i] >= GROUP
      BY <2>1, <3>1, GroupIs
    <3> QED BY <2>1, <3>1, <3>2, <3>3
  <2>3. CASE i # L
    <3>1. i \in 1..L - 1
      BY <1>1, <2>3
    <3> QED BY <1>1, <1>2, <2>1, <2>3, <3>1
  <2> QED BY <2>2, <2>3
<1>6. 0 % GROUP = 0 /\ GROUP % GROUP = 0
  <2>1. (0 + GROUP) % GROUP = 0 % GROUP
    BY Division
  <2>2. 0 % GROUP = 0 /\ 0 + GROUP = GROUP
    BY GroupIs
  <2> QED BY <2>1, <2>2
<1>7. ASSUME NEW i \in 1..L + k, i > L
      PROVE  r[i] = (IF i < L + k THEN GROUP ELSE 0) /\ r[i] % GROUP = 0
  <2>1. i - L \in 1..k /\ (i - L < k <=> i < L + k) /\ ~(i <= L)
    BY <1>1, <1>7
  <2>2. r[i] = IF i < L + k THEN GROUP ELSE 0
    BY <1>3, <1>4, <2>1
  <2> QED BY <1>6, <2>2
<1>8. Terminated(r)
  <2>1. Len(r) \in 1..L + k /\ Len(r) > L /\ Len(r) \in Nat
    BY <1>1, <1>4
  <2>2. r[Len(r)] = 0
    <3>1. r[Len(r)] = IF Len(r) < L + k THEN GROUP ELSE 0
      BY <1>7, <2>1, Zenon
    <3> QED BY <1>4, <2>1, <3>1
  <2>3. ASSUME NEW i \in 1..Len(r) - 1 PROVE r[i] >= GROUP
    <3>1. CASE i <= L
      BY <1>1, <1>4, <1>5, <3>1
    <3>2. CASE i > L
      <4>1. i \in 1..L + k /\ i < L + k
        BY <1>1, <1>4
      <4>2. r[i] = GROUP
        BY <1>7, <3>2, <4>1
      <4> QED BY <4>2, GroupIs
    <3> QED BY <1>1, <3>1, <3>2
  <2>4. Len(r) > 0 /\ 0 < GROUP
    BY <1>1, <2>1, GroupIs
  <2> QED BY <1>4, <2>2, <2>3, <2>4, Zenon DEF Terminated
<1>9. ASSUME NEW i \in 1..L + k PROVE r[i] % GROUP = IF i <= L THEN g[i] % GROUP ELSE 0
  <2>1. CASE i <= L
    <3>1. i \in 1..L
      BY <1>1, <2>1
    <3> QED BY <1>5, <2>1, <3>1, Zenon
  <2>2. CASE ~(i <= L)
    <3>1. i > L
      BY <1>1, <2>2
    <3> QED BY <1>7, <2>2, <3>1, Zenon
  <2> QED BY <2>1, <2>2, Zenon
<1> QED BY <1>4, <1>8, <1>9, Zenon DEF L

\* The digits that write_integer writes.
LEMMA DigitsAre ==
  ASSUME NEW rest \in Nat, NEW left, NEW last, Written(left, last, rest)
  PROVE  /\ last \in Nat /\ Len(groups(rest)) = last + 1
         /\ \A i \in 1..last + 1 : groups(rest)[i] % GROUP = left[i - 1] % GROUP
<1> DEFINE g == groups(rest)
<1>1. last \in Nat /\ \A i \in 0..last : left[i] \in Nat
  BY DEF Written, Lefts
<1>2. g = Digits(left, last)
  BY DEF Written
<1>3. Len(g) = last + 1 /\ \A i \in 1..last + 1 : g[i] = IF i <= last THEN GROUP + (left[i - 1] % GROUP) ELSE left[last]
  BY <1>1, <1>2 DEF Digits
<1> HIDE DEF g
<1>4. ASSUME NEW i \in 1..last + 1 PROVE g[i] % GROUP = left[i - 1] % GROUP
  <2>1. i - 1 \in 0..last
    BY <1>1
  <2>2. CASE i <= last
    <3> DEFINE d == left[i - 1] % GROUP
    <3>1. d \in Nat /\ d < GROUP
      <4>1. d \in 0..GROUP - 1
        BY <1>1, <2>1, Division
      <4> HIDE DEF d
      <4> QED BY <4>1, GroupIs
    <3>2. g[i] = GROUP + d
      BY <1>3, <2>2
    <3> HIDE DEF d
    <3>3. (d + GROUP) % GROUP = d % GROUP
      BY <3>1, Division
    <3>4. d % GROUP = d
      BY <3>1, Division
    <3>5. GROUP + d = d + GROUP
      BY <3>1, GroupIs
    <3> QED BY <3>2, <3>3, <3>4, <3>5 DEF d
  <2>3. CASE i = last + 1
    <3>1. ~(i <= last) /\ i - 1 = last
      BY <1>1, <2>3
    <3> QED BY <1>3, <3>1
  <2> QED BY <1>1, <2>2, <2>3
<1> QED BY <1>1, <1>3, <1>4 DEF g

\* The integer that an encoder writes, with k octets more than it needs, reads back.
\* (write_integer, read_integer, and the longer forms that RFC 7541 lets a peer use.)
THEOREM IntegersReadBack ==
  ASSUME NEW value \in Nat, NEW bits \in 1..WORD_BITS, NEW k \in Nat,
         value < 2^WORD_BITS, value < Weight(MAX_GROUPS),
         k > 0 => Len(write_integer(value, bits)) + k <= MAX_GROUPS + 1
  PROVE  /\ read_integer(lengthen(write_integer(value, bits), k), bits) = value
         /\ lengthen(write_integer(value, bits), k) \in Seq(Nat)
         /\ Len(lengthen(write_integer(value, bits), k)) > 0
<1> DEFINE max == 2^bits - 1
           o == write_integer(value, bits)
           rest == value - max
           g == groups(rest)
<1>1. max \in Nat /\ max > 0 /\ o \in Seq(Nat) /\ Len(o) > 0
  BY PrefixIs, WriteTyped
<1>2. o = IF value < max THEN <<value>> ELSE <<max>> \o g
  BY DEF write_integer
<1>3. CASE value < max
  <2>1. o = <<value>>
    BY <1>2, <1>3
  <2> HIDE DEF o, max
  <2>2. Len(o) = 1 /\ lengthen(o, k) = o
    BY <2>1 DEF lengthen
  <2>3. PICK v : Reads(v, o, bits)
    BY <1>1, ReadIs
  <2>4. o[1] = value
    BY <2>1
  <2>5. read_integer(o, bits) = value
    BY <1>3, <2>3, <2>4 DEF Reads, max
  <2> QED BY <1>1, <2>2, <2>5 DEF o
<1>4. CASE ~(value < max)
  <2>1. rest \in Nat /\ rest < Weight(MAX_GROUPS) /\ max + rest = value /\ max + rest < 2^WORD_BITS
    <3>1. Weight(MAX_GROUPS) \in Nat /\ 2^WORD_BITS \in Nat
      BY WeightIs, WordIs, Widths
    <3> HIDE DEF max
    <3> QED BY <1>1, <1>4, <3>1
  <2>2. o = <<max>> \o g
    BY <1>2, <1>4
  <2>3. k > 0 => Len(o) + k <= MAX_GROUPS + 1
    OBVIOUS
  <2> HIDE DEF o, max, rest
  <2>4. PICK left, last : Written(left, last, rest)
    BY <2>1, GroupsAre
  <2>5. Terminated(g) /\ Len(g) <= MAX_GROUPS
    BY <2>1, GroupsTerminated, FewGroups
  <2>6. last \in Nat /\ Len(g) = last + 1 /\ \A i \in 1..last + 1 : g[i] % GROUP = left[i - 1] % GROUP
    BY <2>1, <2>4, DigitsAre
  <2> HIDE DEF g
  <2>7. g \in Seq(Nat) /\ Len(g) > 0 /\ Len(g) \in Nat
    BY <2>5 DEF Terminated
  <2>8. Len(o) = Len(g) + 1
    BY <1>1, <2>2, <2>7, Prepended
  <2>9. PICK r : /\ lengthen(o, k) = <<max>> \o r /\ Terminated(r) /\ Len(r) = Len(g) + k
                 /\ \A i \in 1..Len(r) : r[i] % GROUP = IF i <= last + 1 THEN left[i - 1] % GROUP ELSE 0
    <3>1. CASE k = 0
      <4>1. lengthen(o, k) = <<max>> \o g
        BY <2>2, <3>1 DEF lengthen
      <4> QED BY <2>5, <2>6, <2>7, <3>1, <4>1, SMTT(30)
    <3>2. CASE k # 0
      <4> DEFINE r == Raised(g) \o Zeros(k)
      <4>1. lengthen(o, k) = Raised(o) \o Zeros(k)
        BY <2>7, <2>8, <3>2 DEF lengthen, Raised, Zeros
      <4>2. Raised(o) = <<max>> \o Raised(g)
        BY <1>1, <2>2, <2>7, RaisedCons
      <4>3. Raised(g) \in Seq(Nat) /\ Zeros(k) \in Seq(Nat) /\ <<max>> \in Seq(Nat)
        BY <1>1, <2>7, RaisedIs, GroupIs DEF Zeros
      <4>4. lengthen(o, k) = <<max>> \o r
        BY <4>1, <4>2, <4>3, ConcatAssociative
      <4>5. /\ Terminated(r) /\ Len(r) = Len(g) + k
            /\ \A i \in 1..Len(r) : r[i] % GROUP = IF i <= Len(g) THEN g[i] % GROUP ELSE 0
        <5>1. k > 0
          BY <3>2
        <5> QED BY <2>5, <5>1, Lengthened, Zenon
      <4> HIDE DEF r
      <4>6. Len(r) \in Nat
        BY <4>5 DEF Terminated
      <4>7. ASSUME NEW i \in 1..Len(r)
            PROVE  r[i] % GROUP = IF i <= last + 1 THEN left[i - 1] % GROUP ELSE 0
        BY <2>6, <4>5, <4>6
      <4> QED BY <4>4, <4>5, <4>7
    <3> QED BY <3>1, <3>2
  <2>10. Len(r) <= MAX_GROUPS /\ Len(r) \in Nat /\ r \in Seq(Nat)
    <3>1. r \in Seq(Nat)
      BY <2>9 DEF Terminated
    <3> QED BY <2>3, <2>5, <2>7, <2>8, <2>9, <3>1, Widths
  <2>11. Spells(r, left, last)
    BY <2>6, <2>9, <2>10, Widths DEF Spells
  <2>12. PICK v : /\ Values(v, r, 2^bits - 1)
                  /\ read_integer(<<2^bits - 1>> \o r, bits) = IF Len(r) > MAX_GROUPS THEN Err ELSE v[Len(r)]
    BY <2>9, ReadTerminated
  <2>13. v[Len(r)] = max + rest
    BY <1>1, <2>1, <2>4, <2>11, <2>12, SpelledIsRead DEF max
  <2>14. ~(Len(r) > MAX_GROUPS)
    BY <2>10, Widths
  <2>15. read_integer(<<max>> \o r, bits) = value
    BY <2>1, <2>12, <2>13, <2>14 DEF max
  <2>16. <<max>> \o r \in Seq(Nat) /\ Len(<<max>> \o r) > 0
    BY <1>1, <2>10, Prepended
  <2> QED BY <2>9, <2>15, <2>16 DEF o
<1> QED BY <1>3, <1>4

-----------------------------------------------------------------------------
(* The Huffman code *)

Symbols == DOMAIN HUFFMAN_CODES

LEMMA CodeIs ==
  ASSUME NEW c \in Symbols
  PROVE  /\ c \in Nat /\ HUFFMAN_CODES[c] \in Seq({0, 1}) /\ HUFFMAN_CODES[c] \in Seq(Nat)
         /\ Len(HUFFMAN_CODES[c]) \in Nat /\ Len(HUFFMAN_CODES[c]) > 0
<1> DEFINE B == {0, 1}
<1>1. HUFFMAN_CODES[c] \in Seq(B) /\ HUFFMAN_CODES[c] # <<>> /\ c \in Nat
  BY HuffmanAssumption DEF Symbols
<1>2. B \subseteq Nat
  OBVIOUS
<1> HIDE DEF B
<1>3. HUFFMAN_CODES[c] \in Seq(Nat)
  BY <1>1, <1>2, SeqMonotonic
<1>4. Len(HUFFMAN_CODES[c]) \in Nat \ {0}
  BY <1>1, EmptySeq
<1> QED BY <1>1, <1>3, <1>4 DEF B

\* The codes of the symbols of a text.
CodesOf(text) == [i \in DOMAIN text |-> HUFFMAN_CODES[text[i]]]

LEMMA CodesOfTyped ==
  ASSUME NEW text \in Seq(Symbols)
  PROVE  CodesOf(text) \in Seq(Seq(Nat)) /\ Len(CodesOf(text)) = Len(text)
<1> DEFINE T == Seq(Nat)
           N == Len(text)
<1>1. N \in Nat /\ DOMAIN text = 1..N /\ \A i \in 1..N : text[i] \in Symbols
  OBVIOUS
<1>2. \A i \in 1..N : HUFFMAN_CODES[text[i]] \in T
  BY <1>1, CodeIs
<1>3. CodesOf(text) = [i \in 1..N |-> HUFFMAN_CODES[text[i]]]
  BY <1>1 DEF CodesOf
<1> HIDE DEF T, N
<1>4. CodesOf(text) \in Seq(T) /\ Len(CodesOf(text)) = N
  BY <1>1, <1>2, <1>3
<1> QED BY <1>4 DEF T, N

LEMMA BitsTyped ==
  ASSUME NEW text \in Seq(Symbols)
  PROVE  bits_of(text) \in Seq(Nat)
<1>1. CodesOf(text) \in Seq(Seq(Nat)) /\ bits_of(text) = FlattenSeq(CodesOf(text))
  BY CodesOfTyped DEF bits_of, CodesOf
<1> QED BY <1>1, FlattenTyped

LEMMA BitsEmpty == bits_of(<<>>) = <<>>
BY DEF bits_of, FlattenSeq

\* The bits of a text with one symbol more.
LEMMA BitsAppend ==
  ASSUME NEW text \in Seq(Symbols), NEW c \in Symbols
  PROVE  bits_of(Append(text, c)) = bits_of(text) \o HUFFMAN_CODES[c]
<1> DEFINE t == Append(text, c)
           x == HUFFMAN_CODES[c]
           T == Seq(Nat)
           a == CodesOf(text)
<1>1. a \in Seq(T) /\ Len(a) = Len(text)
  BY CodesOfTyped
<1>2. x \in T
  BY CodeIs
<1>3. DOMAIN t = 1..Len(text) + 1 /\ t[Len(text) + 1] = c /\ \A i \in 1..Len(text) : t[i] = text[i]
  OBVIOUS
<1>4. DOMAIN text = 1..Len(text) /\ Len(text) \in Nat
  OBVIOUS
<1>5. CodesOf(t) = Append(a, x)
  <2>1. CodesOf(t) = [i \in 1..Len(text) + 1 |-> HUFFMAN_CODES[t[i]]]
    BY <1>3 DEF CodesOf
  <2>2. a = [i \in 1..Len(text) |-> HUFFMAN_CODES[text[i]]]
    BY <1>4 DEF CodesOf
  <2> DEFINE b == Append(a, x)
             d == CodesOf(t)
  <2>3. b \in Seq(T) /\ Len(b) = Len(text) + 1 /\ b[Len(text) + 1] = x /\ \A i \in 1..Len(text) : b[i] = a[i]
    <3> HIDE DEF T, a, x
    <3> QED BY <1>1, <1>2, <1>4
  <2>4. ASSUME NEW i \in 1..Len(text) + 1 PROVE d[i] = b[i]
    <3>1. CASE i = Len(text) + 1
      <4> HIDE DEF b, t
      <4> QED BY <1>3, <2>1, <2>3, <3>1 DEF x
    <3>2. CASE i # Len(text) + 1
      <4>1. i \in 1..Len(text)
        BY <1>4, <3>2
      <4>2. d[i] = HUFFMAN_CODES[t[i]] /\ a[i] = HUFFMAN_CODES[text[i]]
        <5> HIDE DEF a, t
        <5> QED BY <2>1, <2>2, <4>1
      <4>3. t[i] = text[i]
        <5> HIDE DEF t
        <5> QED BY <1>3, <4>1
      <4>4. b[i] = a[i]
        <5> HIDE DEF b, a
        <5> QED BY <2>3, <4>1, Zenon
      <4> HIDE DEF b, t, a, d
      <4> QED BY <4>2, <4>3, <4>4, Zenon
    <3> QED BY <3>1, <3>2
  <2>5. d \in Seq(T) /\ Len(d) = Len(text) + 1
    <3>1. t \in Seq(Symbols) /\ Len(t) = Len(text) + 1
      OBVIOUS
    <3> HIDE DEF t
    <3> QED BY <3>1, CodesOfTyped
  <2> HIDE DEF b, d, T
  <2>6. d = b
    BY <2>3, <2>4, <2>5, SeqEqual
  <2> QED BY <2>6 DEF b, d
<1>6. FlattenSeq(Append(a, x)) = FlattenSeq(a) \o x
  <2> HIDE DEF a, x
  <2> QED BY <1>1, <1>2, FlattenAppend
<1>7. bits_of(t) = FlattenSeq(CodesOf(t)) /\ bits_of(text) = FlattenSeq(a)
  BY DEF bits_of, CodesOf
<1> QED BY <1>5, <1>6, <1>7

\* No text is longer than its codes.
LEMMA BitsLength ==
  ASSUME NEW text \in Seq(Symbols)
  PROVE  Len(bits_of(text)) >= Len(text)
<1> DEFINE N == Len(text)
           part(n) == SubSeq(text, 1, n)
           G == {n \in 0..N : Len(bits_of(part(n))) >= n}
<1>1. N \in Nat /\ part(N) = text /\ \A n \in 0..N : part(n) \in Seq(Symbols)
  OBVIOUS
<1>2. part(0) = <<>>
  OBVIOUS
<1>3. 0 \in G
  BY <1>1, <1>2, BitsEmpty
<1>4. ASSUME NEW n \in 0..N, n + 1 \in 0..N, n \in G PROVE n + 1 \in G
  <2> DEFINE c == text[n + 1]
  <2>1. c \in Symbols
    BY <1>1, <1>4
  <2>2. part(n + 1) = Append(part(n), c)
    BY <1>1, <1>4
  <2>3. part(n) \in Seq(Symbols)
    BY <1>1
  <2> DEFINE a == bits_of(part(n))
             b == HUFFMAN_CODES[c]
  <2> HIDE DEF part, c
  <2>4. a \in Seq(Nat) /\ b \in Seq(Nat) /\ Len(b) > 0
    BY <2>1, <2>3, BitsTyped, CodeIs
  <2>5. bits_of(part(n + 1)) = a \o b
    BY <2>1, <2>2, <2>3, BitsAppend
  <2>6. Len(a) >= n
    BY <1>4
  <2> HIDE DEF a, b
  <2>7. Len(a \o b) >= n + 1
    <3>1. Len(a \o b) = Len(a) + Len(b) /\ Len(a) \in Nat /\ Len(b) \in Nat
      BY <2>4
    <3> QED BY <2>4, <2>6, <3>1
  <2> QED BY <1>4, <2>5, <2>7
<1>5. \A n \in 0..N : n \in G
  <2> HIDE DEF G
  <2> QED BY <1>1, <1>3, <1>4, UpTo
<1>6. Len(bits_of(part(N))) >= N
  BY <1>1, <1>5
<1> QED BY <1>1, <1>6

\* The states of huffman_decode between two bits.
WalkStates == [out : Seq(Symbols), partial : Seq(Nat), error : BOOLEAN]
At(out, partial) == [out |-> out, partial |-> partial, error |-> FALSE]

\* s[n] is the state after n bits.
Walks(s, bits) ==
    /\ s \in [0..Len(bits) -> WalkStates] /\ s[0] = At(<<>>, <<>>)
    /\ \A n \in 1..Len(bits) : s[n] = walk(s[n - 1], bits[n])

\* The symbols whose code is the path.
SymbolsAt(path) == {sym \in Symbols : HUFFMAN_CODES[sym] = path}
Inner(path) == \E code \in Range(HUFFMAN_CODES) \cup {HUFFMAN_EOS} : IsStrictPrefix(path, code)

LEMMA WalkIs ==
  ASSUME NEW s \in WalkStates, NEW b \in Nat
  PROVE  LET path == Append(s.partial, b) IN
         walk(s, b) = IF s.error THEN s
                      ELSE IF SymbolsAt(path) # {}
                           THEN [s EXCEPT !.out = Append(@, CHOOSE sym \in SymbolsAt(path) : TRUE), !.partial = <<>>]
                      ELSE IF Inner(path) THEN [s EXCEPT !.partial = path]
                      ELSE [s EXCEPT !.error = TRUE]
BY Zenon DEF walk, SymbolsAt, Inner, Symbols

LEMMA WalkTyped ==
  ASSUME NEW s \in WalkStates, NEW b \in Nat
  PROVE  walk(s, b) \in WalkStates
<1> DEFINE path == Append(s.partial, b)
           sym == CHOOSE sym \in SymbolsAt(path) : TRUE
<1>1. s.out \in Seq(Symbols) /\ s.partial \in Seq(Nat) /\ s.error \in BOOLEAN
      /\ s = [out |-> s.out, partial |-> s.partial, error |-> s.error]
  BY DEF WalkStates
<1>2. path \in Seq(Nat)
  BY <1>1
<1> HIDE DEF path
<1>3. SymbolsAt(path) # {} => sym \in Symbols
  BY DEF SymbolsAt
<1> HIDE DEF sym
<1>4. walk(s, b) = IF s.error THEN s
                   ELSE IF SymbolsAt(path) # {} THEN [s EXCEPT !.out = Append(@, sym), !.partial = <<>>]
                   ELSE IF Inner(path) THEN [s EXCEPT !.partial = path]
                   ELSE [s EXCEPT !.error = TRUE]
  BY WalkIs DEF path, sym
<1>5. SymbolsAt(path) # {} => Append(s.out, sym) \in Seq(Symbols)
  BY <1>1, <1>3
<1>6. CASE s.error
  BY <1>4, <1>6
<1>7. CASE ~s.error /\ SymbolsAt(path) # {}
  <2>1. walk(s, b) = [out |-> Append(s.out, sym), partial |-> <<>>, error |-> s.error]
    BY <1>1, <1>4, <1>7
  <2>2. <<>> \in Seq(Nat)
    OBVIOUS
  <2> QED BY <1>1, <1>5, <1>7, <2>1, <2>2 DEF WalkStates
<1>8. CASE ~s.error /\ SymbolsAt(path) = {} /\ Inner(path)
  <2>1. walk(s, b) = [out |-> s.out, partial |-> path, error |-> s.error]
    BY <1>1, <1>4, <1>8
  <2> QED BY <1>1, <1>2, <2>1 DEF WalkStates
<1>9. CASE ~s.error /\ SymbolsAt(path) = {} /\ ~Inner(path)
  <2>1. walk(s, b) = [out |-> s.out, partial |-> s.partial, error |-> TRUE]
    BY <1>1, <1>4, <1>9
  <2> QED BY <1>1, <2>1 DEF WalkStates
<1> QED BY <1>6, <1>7, <1>8, <1>9

\* huffman_decode as the end of the walk.
Decodes(s, bits) ==
    /\ Walks(s, bits)
    /\ huffman_decode(bits) = IF s[Len(bits)].error \/ bad_padding(s[Len(bits)].partial) THEN Err
                              ELSE s[Len(bits)].out

LEMMA DecodeIs ==
  ASSUME NEW bits \in Seq(Nat)
  PROVE  \E s : Decodes(s, bits)
<1> DEFINE N == Len(bits)
           S == WalkStates
           base == At(<<>>, <<>>)
           next(t, n) == walk(t, bits[n])
           step == [p \in S \X (1..N) |-> next(p[1], p[2])]
           Is(f) == f = [n \in 0..N |-> IF n = 0 THEN base ELSE next(f[n - 1], n)]
           s == CHOOSE f : Is(f)
<1>1. N \in Nat /\ \A n \in 1..N : bits[n] \in Nat
  OBVIOUS
<1>2. base \in S
  BY DEF At, WalkStates
<1>3. \A t \in S, n \in 1..N : next(t, n) \in S
  BY <1>1, WalkTyped
<1> HIDE DEF next, S, base
<1>4. PICK f : Iterates(f, S, N, base, step)
  <2>1. step \in [S \X (1..N) -> S]
    BY <1>3
  <2> HIDE DEF step, N
  <2> QED BY <1>1, <1>2, <2>1, IterateExists
<1>5. f \in [0..N -> S] /\ f[0] = base
  BY <1>4 DEF Iterates
<1>6. \A n \in 1..N : f[n] = next(f[n - 1], n)
  <2> HIDE DEF N
  <2> TAKE n \in 1..N
  <2>1. n - 1 \in 0..N
    BY <1>1
  <2>2. <<f[n - 1], n>> \in S \X (1..N)
    BY <1>5, <2>1
  <2>3. f[n] = step[<<f[n - 1], n>>]
    BY <1>4 DEF Iterates
  <2> QED BY <2>2, <2>3
<1>7. Is(f)
  <2> HIDE DEF step, N
  <2> QED BY <1>1, <1>5, <1>6
<1>8. Is(s)
  BY <1>7
<1>9. huffman_decode(bits) = IF s[N].error \/ bad_padding(s[N].partial) THEN Err ELSE s[N].out
  BY Zenon DEF huffman_decode, next, base, At
<1> HIDE DEF s, N
<1>10. s[0] = base /\ s = [n \in 0..N |-> s[n]] /\ \A n \in 1..N : s[n] = next(s[n - 1], n)
  <2>1. s = [n \in 0..N |-> IF n = 0 THEN base ELSE next(s[n - 1], n)]
    BY <1>8
  <2>2. s[0] = base
    BY <1>1, <2>1
  <2>3. \A n \in 1..N : s[n] = next(s[n - 1], n)
    BY <1>1, <2>1
  <2>4. s = [n \in 0..N |-> s[n]]
    BY <2>1
  <2> QED BY <2>2, <2>3, <2>4
<1> DEFINE G == {n \in 0..N : s[n] \in S}
<1>11. \A n \in 0..N : s[n] \in S
  <2>1. 0 \in G
    BY <1>1, <1>2, <1>10
  <2>2. ASSUME NEW n \in 0..N, n + 1 \in 0..N, n \in G PROVE n + 1 \in G
    <3>1. n + 1 \in 1..N /\ (n + 1) - 1 = n
      BY <1>1, <2>2
    <3> QED BY <1>3, <1>10, <2>2, <3>1
  <2>3. \A n \in 0..N : n \in G
    <3> HIDE DEF G
    <3> QED BY <1>1, <2>1, <2>2, UpTo
  <2> QED BY <2>3
<1>12. Walks(s, bits)
  BY <1>10, <1>11 DEF Walks, N, S, base, next
<1> QED BY <1>9, <1>12 DEF Decodes, N

\* A reader of strings returns a text or fails.
LEMMA HuffmanTyped ==
  ASSUME NEW bits \in Seq(Nat)
  PROVE  huffman_decode(bits) \in Seq(Nat) \cup {Err}
<1>1. PICK s : Decodes(s, bits)
  BY DecodeIs
<1>2. Len(bits) \in 0..Len(bits)
  OBVIOUS
<1>3. s[Len(bits)] \in WalkStates
  BY <1>1, <1>2 DEF Decodes, Walks
<1>4. s[Len(bits)].out \in Seq(Symbols) /\ Symbols \subseteq Nat
  BY <1>3, HuffmanAssumption DEF WalkStates, Symbols
<1>5. s[Len(bits)].out \in Seq(Nat)
  BY <1>4, SeqMonotonic
<1> QED BY <1>1, <1>5 DEF Decodes

\* What was read is what the symbols found stand for, and the path to the node.
LEMMA WalkStep ==
  ASSUME NEW s \in WalkStates, NEW b \in Nat, ~walk(s, b).error
  PROVE  ~s.error /\ bits_of(walk(s, b).out) \o walk(s, b).partial = (bits_of(s.out) \o s.partial) \o <<b>>
<1> DEFINE path == Append(s.partial, b)
           sym == CHOOSE sym \in SymbolsAt(path) : TRUE
           t == walk(s, b)
           a == bits_of(s.out)
<1>1. s.out \in Seq(Symbols) /\ s.partial \in Seq(Nat) /\ s.error \in BOOLEAN
      /\ s = [out |-> s.out, partial |-> s.partial, error |-> s.error]
  BY DEF WalkStates
<1>2. path \in Seq(Nat) /\ path = s.partial \o <<b>> /\ <<b>> \in Seq(Nat)
  BY <1>1
<1>3. a \in Seq(Nat)
  BY <1>1, BitsTyped
<1>4. (a \o s.partial) \o <<b>> = a \o path
  <2> HIDE DEF a, path
  <2> QED BY <1>1, <1>2, <1>3, ConcatAssociative, SMTT(30)
<1> HIDE DEF path
<1>5. SymbolsAt(path) # {} => sym \in Symbols /\ HUFFMAN_CODES[sym] = path
  BY DEF SymbolsAt
<1> HIDE DEF sym
<1>6. t = IF s.error THEN s
          ELSE IF SymbolsAt(path) # {} THEN [s EXCEPT !.out = Append(@, sym), !.partial = <<>>]
          ELSE IF Inner(path) THEN [s EXCEPT !.partial = path]
          ELSE [s EXCEPT !.error = TRUE]
  BY WalkIs DEF path, sym
<1>7. ~t.error
  OBVIOUS
<1> HIDE DEF t
<1>8. ~s.error
  BY <1>6, <1>7
<1>9. CASE SymbolsAt(path) # {}
  <2>1. t.out = Append(s.out, sym) /\ t.partial = <<>>
    BY <1>1, <1>6, <1>8, <1>9
  <2>2. bits_of(Append(s.out, sym)) = a \o path
    BY <1>1, <1>5, <1>9, BitsAppend
  <2>3. (a \o path) \o <<>> = a \o path
    <3>1. a \o path \in Seq(Nat)
      <4> HIDE DEF a
      <4> QED BY <1>2, <1>3
    <3> QED BY <3>1, ConcatEmptySeq
  <2> QED BY <1>4, <1>8, <2>1, <2>2, <2>3 DEF t
<1>10. CASE SymbolsAt(path) = {}
  <2>1. t.out = s.out /\ t.partial = path
    <3>1. Inner(path)
      BY <1>1, <1>6, <1>7, <1>8, <1>10
    <3> QED BY <1>1, <1>6, <1>8, <1>10, <3>1
  <2> QED BY <1>4, <1>8, <2>1 DEF t
<1> QED BY <1>9, <1>10

LEMMA WalkSound ==
  ASSUME NEW bits \in Seq(Nat), NEW s, Walks(s, bits)
  PROVE  \A n \in 0..Len(bits) : ~s[n].error => SubSeq(bits, 1, n) = bits_of(s[n].out) \o s[n].partial
<1> DEFINE N == Len(bits)
           part(n) == SubSeq(bits, 1, n)
           read(n) == bits_of(s[n].out) \o s[n].partial
           G == {n \in 0..N : ~s[n].error => part(n) = read(n)}
<1>0. N \in Nat
  OBVIOUS
<1>1. \A n \in 0..N : s[n] \in WalkStates
  <2>1. s \in [0..N -> WalkStates]
    BY DEF Walks
  <2> HIDE DEF N
  <2> QED BY <2>1
<1>2. 0 \in G
  <2>1. s[0].out = <<>> /\ s[0].partial = <<>>
    BY DEF Walks, At
  <2>2. part(0) = <<>> /\ <<>> \o <<>> = <<>>
    OBVIOUS
  <2>3. read(0) = <<>>
    BY <2>1, <2>2, BitsEmpty
  <2> HIDE DEF part, read, N
  <2> QED BY <1>0, <2>2, <2>3
<1>3. ASSUME NEW n \in 0..N, n + 1 \in 0..N, n \in G PROVE n + 1 \in G
  <2> SUFFICES ASSUME ~s[n + 1].error PROVE part(n + 1) = read(n + 1)
    BY <1>3
  <2>1. n + 1 \in 1..N /\ (n + 1) - 1 = n
    BY <1>0, <1>3
  <2>2. s[n + 1] = walk(s[n], bits[n + 1])
    BY <2>1 DEF Walks
  <2>3. s[n] \in WalkStates /\ bits[n + 1] \in Nat
    BY <1>1, <2>1
  <2>4. ~s[n].error /\ read(n + 1) = read(n) \o <<bits[n + 1]>>
    BY <2>2, <2>3, WalkStep
  <2>5. part(n) = read(n)
    <3> HIDE DEF part, read
    <3> QED BY <1>3, <2>4
  <2>6. part(n + 1) = part(n) \o <<bits[n + 1]>>
    BY <1>0, <2>1
  <2> HIDE DEF part, read
  <2> QED BY <2>4, <2>5, <2>6
<1>4. \A n \in 0..N : n \in G
  <2> HIDE DEF G
  <2> QED BY <1>0, <1>2, <1>3, UpTo
<1> QED BY <1>4

IsCode(code) == code \in Range(HUFFMAN_CODES) \cup {HUFFMAN_EOS}

\* A path that a code goes on from is a node of the trie; the end of a code is a leaf.
LEMMA WalkInner ==
  ASSUME NEW out \in Seq(Symbols), NEW partial \in Seq(Nat), NEW b \in Nat,
         NEW code, IsCode(code),
         IsStrictPrefix(Append(partial, b), code)
  PROVE  walk(At(out, partial), b) = At(out, Append(partial, b))
<1> DEFINE s == At(out, partial)
           path == Append(partial, b)
<1>1. s \in WalkStates /\ s.partial = partial /\ ~s.error /\ s.out = out
  BY DEF At, WalkStates
<1>2. SymbolsAt(path) = {}
  <2> SUFFICES ASSUME NEW a \in Symbols, HUFFMAN_CODES[a] = path PROVE FALSE
    BY DEF SymbolsAt
  <2>1. IsPrefix(HUFFMAN_CODES[a], code) /\ HUFFMAN_CODES[a] # code
    BY DEF IsStrictPrefix
  <2>2. CASE code = HUFFMAN_EOS
    BY <2>1, <2>2, HuffmanAssumption DEF Symbols
  <2>3. CASE code \in Range(HUFFMAN_CODES)
    <3>1. PICK c \in Symbols : code = HUFFMAN_CODES[c]
      BY <2>3 DEF Range, Symbols
    <3>2. a = c
      BY <2>1, <3>1, HuffmanAssumption DEF Symbols
    <3> QED BY <2>1, <3>1, <3>2
  <2> QED BY <2>2, <2>3 DEF IsCode
<1>3. Inner(path)
  BY DEF Inner, IsCode
<1> HIDE DEF path
<1>4. walk(s, b) = [s EXCEPT !.partial = path]
  BY <1>1, <1>2, <1>3, WalkIs DEF path
<1> QED BY <1>4 DEF At, path

LEMMA WalkLeaf ==
  ASSUME NEW out \in Seq(Symbols), NEW partial \in Seq(Nat), NEW b \in Nat,
         NEW c \in Symbols, Append(partial, b) = HUFFMAN_CODES[c]
  PROVE  walk(At(out, partial), b) = At(Append(out, c), <<>>)
<1> DEFINE s == At(out, partial)
           path == Append(partial, b)
           sym == CHOOSE sym \in SymbolsAt(path) : TRUE
<1>1. s \in WalkStates /\ s.partial = partial /\ ~s.error /\ s.out = out
  BY DEF At, WalkStates
<1>2. c \in SymbolsAt(path)
  BY DEF SymbolsAt
<1>3. sym \in Symbols /\ HUFFMAN_CODES[sym] = HUFFMAN_CODES[c]
  BY <1>2 DEF SymbolsAt
<1>4. IsPrefix(HUFFMAN_CODES[sym], HUFFMAN_CODES[c])
  <2>1. Len(HUFFMAN_CODES[c]) \in Nat
    BY CodeIs
  <2> HIDE DEF sym
  <2> QED BY <1>3, <2>1 DEF IsPrefix
<1>5. sym = c
  <2> HIDE DEF sym
  <2> QED BY <1>3, <1>4, HuffmanAssumption DEF Symbols
<1>6. walk(s, b) = [s EXCEPT !.out = Append(@, sym), !.partial = <<>>]
  BY <1>1, <1>2, WalkIs
<1> HIDE DEF sym
<1> QED BY <1>5, <1>6 DEF At

\* After p bits the text `out` was read, and no bit of another symbol.
Stands(s, bits, p, out) ==
    /\ bits \in Seq(Nat) /\ Walks(s, bits) /\ p \in Nat
    /\ out \in Seq(Symbols) /\ s[p] = At(out, <<>>)

\* The m bits after p are those of the code.
Spelt(bits, p, code, m) == p + m <= Len(bits) /\ \A j \in 1..m : bits[p + j] = code[j]

\* The walk follows a code as far as its last bit but one.
LEMMA WalkAlong ==
  ASSUME NEW bits, NEW s, NEW p, NEW out, Stands(s, bits, p, out),
         NEW code \in Seq(Nat), IsCode(code), NEW m \in Nat, m < Len(code), Spelt(bits, p, code, m)
  PROVE  s[p + m] = At(out, SubSeq(code, 1, m))
<1> DEFINE part(j) == SubSeq(code, 1, j)
           G == {j \in 0..m : s[p + j] = At(out, part(j))}
<1>0. bits \in Seq(Nat) /\ Walks(s, bits) /\ p \in Nat /\ out \in Seq(Symbols) /\ s[p] = At(out, <<>>)
  BY DEF Stands
<1>1. Len(bits) \in Nat /\ Len(code) \in Nat /\ p + m <= Len(bits)
  BY <1>0 DEF Spelt
<1>2. 0 \in G
  <2>1. part(0) = <<>> /\ p + 0 = p
    BY <1>0
  <2>2. s[p + 0] = At(out, part(0))
    BY <1>0, <2>1
  <2> HIDE DEF part
  <2> QED BY <2>2
<1>3. ASSUME NEW j \in 0..m, j + 1 \in 0..m, j \in G PROVE j + 1 \in G
  <2>1. j + 1 \in 1..m /\ p + (j + 1) \in 1..Len(bits) /\ (p + (j + 1)) - 1 = p + j
    BY <1>0, <1>1, <1>3
  <2>2. s[p + (j + 1)] = walk(s[p + j], bits[p + (j + 1)])
    BY <1>0, <2>1 DEF Walks
  <2>3. bits[p + (j + 1)] = code[j + 1] /\ code[j + 1] \in Nat
    <3>1. j + 1 \in 1..Len(code)
      BY <1>1, <2>1
    <3>2. code[j + 1] \in Nat
      BY <3>1, ElementOfSeq
    <3> QED BY <2>1, <3>2 DEF Spelt
  <2>4. part(j) \in Seq(Nat) /\ part(j + 1) = Append(part(j), code[j + 1])
    <3>1. j \in 0..Len(code) /\ j + 1 \in 1..Len(code)
      BY <1>1, <2>1
    <3> QED BY <3>1
  <2>5. IsStrictPrefix(part(j + 1), code)
    <3>1. Len(part(j + 1)) = j + 1 /\ part(j + 1) # code
      BY <1>1, <2>1
    <3>2. SubSeq(part(j + 1), 1, j + 1) = part(j + 1)
      BY <1>1, <2>1
    <3> HIDE DEF part
    <3> QED BY <1>1, <2>1, <3>1, <3>2 DEF IsStrictPrefix, IsPrefix, part
  <2>6. s[p + j] = At(out, part(j))
    BY <1>3
  <2> HIDE DEF part
  <2>7. walk(At(out, part(j)), code[j + 1]) = At(out, Append(part(j), code[j + 1]))
    BY <1>0, <2>3, <2>4, <2>5, WalkInner
  <2> QED BY <1>3, <2>2, <2>3, <2>4, <2>6, <2>7
<1>4. \A j \in 0..m : j \in G
  <2> HIDE DEF G
  <2> QED BY <1>2, <1>3, UpTo
<1> QED BY <1>4

\* A whole code gives its symbol.
LEMMA WalkSymbol ==
  ASSUME NEW bits, NEW s, NEW p, NEW out, Stands(s, bits, p, out),
         NEW c \in Symbols, Spelt(bits, p, HUFFMAN_CODES[c], Len(HUFFMAN_CODES[c]))
  PROVE  s[p + Len(HUFFMAN_CODES[c])] = At(Append(out, c), <<>>)
<1> DEFINE code == HUFFMAN_CODES[c]
           m == Len(code) - 1
<1>0. bits \in Seq(Nat) /\ Walks(s, bits) /\ p \in Nat /\ out \in Seq(Symbols)
  BY DEF Stands
<1>1. code \in Seq(Nat) /\ Len(code) \in Nat /\ Len(code) > 0 /\ Len(bits) \in Nat
  BY <1>0, CodeIs
<1>2. m \in Nat /\ m < Len(code) /\ Spelt(bits, p, code, m)
  BY <1>0, <1>1, SMTT(30) DEF Spelt
<1>3. IsCode(code)
  BY DEF IsCode, Range, Symbols
<1>4. s[p + m] = At(out, SubSeq(code, 1, m))
  <2> HIDE DEF m, code
  <2>1. code \in Seq(Nat)
    BY <1>1
  <2> QED BY <1>2, <1>3, <2>1, WalkAlong
<1>5. Append(SubSeq(code, 1, m), code[Len(code)]) = code /\ SubSeq(code, 1, m) \in Seq(Nat)
  <2> HIDE DEF code
  <2> QED BY <1>1, SMTT(30)
<1>6. Len(code) \in 1..Len(code) /\ p + Len(code) \in 1..Len(bits) /\ (p + Len(code)) - 1 = p + m
  BY <1>0, <1>1 DEF Spelt
<1>7. s[p + Len(code)] = walk(s[p + m], bits[p + Len(code)])
  BY <1>0, <1>6 DEF Walks
<1>9. bits[p + Len(code)] = code[Len(code)] /\ code[Len(code)] \in Nat
  BY <1>1, <1>6, ElementOfSeq DEF Spelt
<1> HIDE DEF m
<1>8. walk(At(out, SubSeq(code, 1, m)), code[Len(code)]) = At(Append(out, c), <<>>)
  BY <1>0, <1>5, <1>9, WalkLeaf
<1> QED BY <1>4, <1>7, <1>8, <1>9

LEMMA Reassociate ==
  \A a, b, c \in Seq(Nat) : (a \o b) \o c = a \o (b \o c)
BY ConcatAssociative

\* The walk over the bits of a text finds the text, whatever follows.
LEMMA WalkText ==
  ASSUME NEW text \in Seq(Symbols), NEW r \in Seq(Nat), NEW s, Walks(s, bits_of(text) \o r)
  PROVE  s[Len(bits_of(text))] = At(text, <<>>)
<1> DEFINE N == Len(text)
           part(n) == SubSeq(text, 1, n)
           Finds(t) == \A q \in Seq(Nat) : \A v : Walks(v, bits_of(t) \o q) => v[Len(bits_of(t))] = At(t, <<>>)
           G == {n \in 0..N : Finds(part(n))}
<1>1. N \in Nat /\ part(N) = text /\ \A n \in 0..N : part(n) \in Seq(Symbols)
  OBVIOUS
<1>2. part(0) = <<>>
  OBVIOUS
<1>3. Finds(<<>>)
  <2>1. Len(bits_of(<<>>)) = 0
    BY BitsEmpty
  <2> QED BY <2>1 DEF Walks
<1>4. 0 \in G
  <2> HIDE DEF Finds, part, N
  <2> QED BY <1>1, <1>2, <1>3
<1>5. ASSUME NEW t \in Seq(Symbols), NEW c \in Symbols, Finds(t) PROVE Finds(Append(t, c))
  <2> SUFFICES ASSUME NEW q \in Seq(Nat), NEW v, Walks(v, bits_of(Append(t, c)) \o q)
               PROVE  v[Len(bits_of(Append(t, c)))] = At(Append(t, c), <<>>)
    OBVIOUS
  <2> DEFINE a == bits_of(t)
             b == HUFFMAN_CODES[c]
             u == b \o q
             bits == a \o u
  <2>1. a \in Seq(Nat) /\ b \in Seq(Nat)
    BY BitsTyped, CodeIs
  <2>2. bits_of(Append(t, c)) = a \o b
    BY BitsAppend
  <2>3. Walks(v, (a \o b) \o q)
    BY <2>2
  <2>4. \A z \in Seq(Nat) : Walks(v, a \o z) => v[Len(a)] = At(t, <<>>)
    BY <1>5
  <2> HIDE DEF a, b, Finds
  <2>5. (a \o b) \o q = bits
    <3>1. (a \o b) \o q = a \o (b \o q)
      BY <2>1, Reassociate
    <3> QED BY <3>1 DEF u
  <2>6. /\ u \in Seq(Nat) /\ Len(u) = Len(b) + Len(q)
        /\ \A i \in 1..Len(b) + Len(q) : u[i] = IF i <= Len(b) THEN b[i] ELSE q[i - Len(b)]
    BY <2>1, ConcatProperties
  <2> HIDE DEF u
  <2>7. /\ bits \in Seq(Nat) /\ Len(bits) = Len(a) + Len(u)
        /\ \A i \in 1..Len(a) + Len(u) : bits[i] = IF i <= Len(a) THEN a[i] ELSE u[i - Len(a)]
    <3>1. a \in Seq(Nat) /\ u \in Seq(Nat)
      BY <2>1, <2>6
    <3> QED BY <3>1, ConcatProperties
  <2>8. v[Len(a)] = At(t, <<>>) /\ Walks(v, bits)
    BY <2>3, <2>4, <2>5, <2>6
  <2> HIDE DEF bits
  <2>9. Len(a) \in Nat /\ Len(b) \in Nat /\ Len(q) \in Nat /\ Len(a) + Len(b) <= Len(bits)
    <3>1. Len(a) \in Nat /\ Len(b) \in Nat /\ Len(q) \in Nat
      BY <2>1
    <3> QED BY <2>6, <2>7, <3>1
  <2>10. ASSUME NEW j \in 1..Len(b) PROVE bits[Len(a) + j] = b[j]
    <3>1. Len(a) + j \in 1..Len(a) + Len(u) /\ ~(Len(a) + j <= Len(a)) /\ (Len(a) + j) - Len(a) = j
      BY <2>6, <2>9
    <3>2. j \in 1..Len(b) + Len(q) /\ j <= Len(b)
      BY <2>9
    <3> QED BY <2>6, <2>7, <3>1, <3>2
  <2>11. v[Len(a) + Len(b)] = At(Append(t, c), <<>>)
    <3>1. Spelt(bits, Len(a), b, Len(b))
      BY <2>9, <2>10 DEF Spelt
    <3>2. Stands(v, bits, Len(a), t)
      BY <2>7, <2>8, <2>9 DEF Stands
    <3> QED BY <3>1, <3>2, WalkSymbol DEF b
  <2>12. Len(a \o b) = Len(a) + Len(b)
    BY <2>1, ConcatProperties
  <2> QED BY <2>2, <2>11, <2>12
<1>6. ASSUME NEW n \in 0..N, n + 1 \in 0..N, n \in G PROVE n + 1 \in G
  <2>1. part(n + 1) = Append(part(n), text[n + 1]) /\ text[n + 1] \in Symbols
    BY <1>1, <1>6
  <2> HIDE DEF Finds, part, N
  <2>2. Finds(part(n)) /\ part(n) \in Seq(Symbols)
    BY <1>1, <1>6
  <2>3. Finds(part(n + 1))
    BY <1>5, <2>1, <2>2
  <2> QED BY <1>6, <2>3
<1>7. \A n \in 0..N : n \in G
  <2> HIDE DEF G
  <2> QED BY <1>1, <1>4, <1>6, UpTo
<1>8. Finds(text)
  <2> HIDE DEF Finds, part
  <2> QED BY <1>1, <1>7
<1> QED BY <1>8

\* Less than an octet of ones may follow.
LEMMA PaddingIsRead ==
  ASSUME NEW text \in Seq(Symbols), NEW k \in Nat, k < OCTET_BITS
  PROVE  huffman_decode(bits_of(text) \o ones(k)) = text
<1> DEFINE a == bits_of(text)
           b == ones(k)
           bits == a \o b
           eos == HUFFMAN_EOS
<1>1. a \in Seq(Nat)
  BY BitsTyped
<1>2. b \in Seq(Nat) /\ Len(b) = k /\ \A j \in 1..k : b[j] = 1
  BY DEF ones
<1>3. eos \in Seq(Nat) /\ Len(eos) \in Nat /\ k < Len(eos) /\ \A j \in 1..Len(eos) : eos[j] = 1
  <2> DEFINE O == {1}
  <2>1. eos \in Seq(O) /\ Len(eos) >= OCTET_BITS
    BY HuffmanAssumption
  <2>2. O \subseteq Nat
    OBVIOUS
  <2>3. \A j \in 1..Len(eos) : eos[j] \in O
    BY <2>1
  <2>4. \A j \in 1..Len(eos) : eos[j] = 1
    BY <2>3
  <2> HIDE DEF O
  <2>5. eos \in Seq(Nat) /\ Len(eos) \in Nat
    <3>1. eos \in Seq(Nat)
      BY <2>1, <2>2, SeqMonotonic
    <3> QED BY <3>1
  <2> QED BY <2>1, <2>4, <2>5, Widths
<1> HIDE DEF a, b, eos
<1>4. /\ bits \in Seq(Nat) /\ Len(bits) = Len(a) + k
      /\ \A j \in 1..k : bits[Len(a) + j] = b[j]
  BY <1>1, <1>2, SMTT(30)
<1>5. PICK s : Decodes(s, bits)
  BY <1>4, DecodeIs
<1>6. Walks(s, a \o b)
  BY <1>5 DEF Decodes
<1>7. s[Len(a)] = At(text, <<>>)
  BY <1>2, <1>6, WalkText DEF a
<1> HIDE DEF bits
<1>8. s[Len(a) + k] = At(text, SubSeq(eos, 1, k))
  <2>1. Len(a) \in Nat /\ Len(a) + k <= Len(bits)
    BY <1>1, <1>4
  <2>2. Spelt(bits, Len(a), eos, k)
    BY <1>2, <1>3, <1>4, <2>1, SMTT(30) DEF Spelt
  <2>3. IsCode(eos)
    BY DEF eos, IsCode
  <2>4. Walks(s, bits)
    BY <1>5 DEF Decodes
  <2>5. eos \in Seq(Nat) /\ k < Len(eos)
    BY <1>3
  <2>6. Stands(s, bits, Len(a), text)
    BY <1>4, <1>7, <2>1, <2>4 DEF Stands
  <2> QED BY <2>2, <2>3, <2>5, <2>6, WalkAlong
<1>9. ~bad_padding(SubSeq(eos, 1, k))
  <2>1. Len(SubSeq(eos, 1, k)) = k /\ DOMAIN SubSeq(eos, 1, k) = 1..k /\ \A j \in 1..k : SubSeq(eos, 1, k)[j] = 1
    BY <1>3
  <2> QED BY <2>1, Widths DEF bad_padding
<1>10. huffman_decode(bits) = text
  <2>1. huffman_decode(bits) = IF s[Len(bits)].error \/ bad_padding(s[Len(bits)].partial) THEN Err ELSE s[Len(bits)].out
    BY <1>5 DEF Decodes
  <2>2. s[Len(bits)] = At(text, SubSeq(eos, 1, k))
    BY <1>4, <1>8
  <2>3. ~s[Len(bits)].error /\ s[Len(bits)].partial = SubSeq(eos, 1, k) /\ s[Len(bits)].out = text
    BY <2>2 DEF At
  <2> QED BY <1>9, <2>1, <2>3
<1> QED BY <1>10 DEF bits, a, b

\* A text that was Huffman-coded reads back (huffman_encode, huffman_decode).
LEMMA HuffmanReadBack ==
  ASSUME NEW text \in Seq(Symbols)
  PROVE  /\ huffman_decode(huffman_encode(text)) = text /\ huffman_encode(text) \in Seq(Nat)
         /\ encoded_octets(text) \in Nat /\ Len(huffman_encode(text)) = encoded_octets(text) * OCTET_BITS
<1> DEFINE L == Len(bits_of(text))
           o == OCTET_BITS
           q == (L + o - 1) \div o
           k == q * o - L
<1>1. bits_of(text) \in Seq(Nat) /\ L \in Nat /\ o \in Nat /\ o > 0
  BY BitsTyped, Widths
<1>2. encoded_octets(text) = q /\ huffman_encode(text) = bits_of(text) \o ones(k)
  BY DEF encoded_octets, huffman_encode
<1> HIDE DEF L, o
<1>3. q \in Nat /\ k \in Nat /\ k < o
  <2> DEFINE n == L + o - 1
             r == n % o
  <2>1. n \in Nat /\ n = L + o - 1
    BY <1>1
  <2> HIDE DEF n
  <2>2. n \div o \in Nat /\ r \in 0..o - 1 /\ n = o * (n \div o) + r
    BY <1>1, <2>1
  <2>3. q = n \div o
    BY DEF n
  <2> HIDE DEF q, r
  <2>4. q \in Nat /\ n = q * o + r
    BY <1>1, <2>2, <2>3
  <2>5. q * o \in Nat
    BY <1>1, <2>4
  <2> QED BY <1>1, <2>1, <2>2, <2>4, <2>5
<1> HIDE DEF k, q
<1>4. ones(k) \in Seq(Nat) /\ Len(ones(k)) = k
  BY <1>3 DEF ones
<1>5. huffman_encode(text) \in Seq(Nat) /\ Len(huffman_encode(text)) = L + k
  <2>1. /\ bits_of(text) \o ones(k) \in Seq(Nat)
        /\ Len(bits_of(text) \o ones(k)) = Len(bits_of(text)) + Len(ones(k))
    BY <1>1, <1>4, ConcatProperties
  <2> QED BY <1>2, <1>4, <2>1 DEF L
<1>6. L + k = q * o
  <2>1. q * o \in Nat
    BY <1>1, <1>3
  <2> QED BY <1>1, <2>1 DEF k
<1>7. huffman_decode(huffman_encode(text)) = text
  BY <1>2, <1>3, PaddingIsRead DEF o
<1> QED BY <1>2, <1>3, <1>5, <1>6, <1>7 DEF o

\* huffman_decode returns exactly the text that the bits mean, and fails if there is none.
THEOREM HuffmanExact ==
  ASSUME NEW bits \in Seq({0, 1})
  PROVE  IF huffman_decode(bits) = Err THEN Means(bits) = {} ELSE huffman_decode(bits) \in Means(bits)
<1> DEFINE B == {0, 1}
           N == Len(bits)
<1>1. bits \in Seq(B) /\ B \subseteq Nat /\ \A i \in 1..Len(bits) : bits[i] \in B
  OBVIOUS
<1>2. bits \in Seq(Nat) /\ N \in Nat
  <2> HIDE DEF B
  <2>1. bits \in Seq(Nat)
    BY <1>1, SeqMonotonic
  <2> QED BY <2>1
<1>3. PICK s : Decodes(s, bits)
  BY <1>2, DecodeIs
<1>4. CASE huffman_decode(bits) = Err
  <2> SUFFICES ASSUME NEW text \in Means(bits) PROVE FALSE
    BY <1>4
  <2> DEFINE k == N - Len(bits_of(text))
  <2>1. text \in Seq(Symbols)
    <3>1. text \in BoundedSeq(Symbols, N)
      BY Zenon DEF Means, Symbols
    <3>2. PICK m \in 0..N : text \in [1..m -> Symbols]
      BY <3>1, Zenon DEF BoundedSeq, SeqOf
    <3> HIDE DEF N
    <3>3. m \in Nat
      BY <1>2
    <3> QED BY <3>2, <3>3
  <2>2. Len(bits_of(text)) <= N /\ k < OCTET_BITS /\ bits = bits_of(text) \o ones(k)
    BY DEF Means
  <2>3. k \in Nat
    <3>1. bits_of(text) \in Seq(Nat)
      BY <2>1, BitsTyped
    <3>2. Len(bits_of(text)) \in Nat
      BY <3>1
    <3> HIDE DEF N
    <3> QED BY <1>2, <2>2, <3>2
  <2> HIDE DEF k
  <2>4. huffman_decode(bits) = text
    BY <2>1, <2>2, <2>3, PaddingIsRead
  <2>5. text \in Seq(Nat)
    <3>1. Symbols \subseteq Nat
      BY HuffmanAssumption DEF Symbols
    <3> QED BY <2>1, <3>1, SeqMonotonic
  <2> QED BY <1>4, <2>4, <2>5, CodingAssumption
<1>5. CASE huffman_decode(bits) # Err
  <2> DEFINE e == s[N]
             a == bits_of(e.out)
             p == e.partial
             k == Len(p)
  <2>1. N \in 0..N
    BY <1>2
  <2>2. e \in WalkStates /\ Walks(s, bits)
    BY <1>3, <2>1 DEF Decodes, Walks
  <2>3. ~e.error /\ ~bad_padding(p) /\ huffman_decode(bits) = e.out
    BY <1>3, <1>5 DEF Decodes
  <2>4. e.out \in Seq(Symbols) /\ p \in Seq(Nat) /\ a \in Seq(Nat)
    BY <2>2, BitsTyped DEF WalkStates
  <2>5. bits = a \o p
    <3>1. SubSeq(bits, 1, N) = bits
      BY <1>2, SubSeqFull
    <3>2. SubSeq(bits, 1, N) = a \o p
      BY <1>2, <2>1, <2>2, <2>3, WalkSound
    <3> QED BY <3>1, <3>2
  <2>6. Len(e.out) <= Len(a)
    BY <2>4, BitsLength
  <2> HIDE DEF e, N
  <2>7. Len(e.out) \in Nat /\ DOMAIN e.out = 1..Len(e.out) /\ \A i \in 1..Len(e.out) : e.out[i] \in Symbols
    BY <2>4
  <2> DEFINE out == e.out
  <2> HIDE DEF out, a, p
  <2>8. Len(a) \in Nat /\ k \in Nat /\ N = Len(a) + k /\ \A i \in 1..k : bits[Len(a) + i] = p[i] /\ Len(a) + i \in 1..N
    <3>1. Len(a) \in Nat /\ Len(p) \in Nat
      BY <2>4
    <3>2. /\ Len(a \o p) = Len(a) + Len(p)
          /\ \A i \in 1..Len(a) + Len(p) : (a \o p)[i] = IF i <= Len(a) THEN a[i] ELSE p[i - Len(a)]
      BY <2>4, ConcatProperties
    <3>3. N = Len(a) + Len(p)
      BY <2>5, <3>2 DEF N
    <3>4. ASSUME NEW i \in 1..k PROVE bits[Len(a) + i] = p[i] /\ Len(a) + i \in 1..N
      <4>1. Len(a) + i \in 1..Len(a) + Len(p) /\ ~(Len(a) + i <= Len(a)) /\ (Len(a) + i) - Len(a) = i
        BY <3>1
      <4> QED BY <2>5, <3>2, <3>3, <4>1
    <3> QED BY <3>1, <3>3, <3>4
  <2>9. k < OCTET_BITS /\ \A i \in 1..k : p[i] # 0
    <3>1. DOMAIN p = 1..k
      BY <2>4
    <3> QED BY <2>3, <2>8, <3>1, Widths DEF bad_padding
  <2>10. p = ones(k)
    <3>1. \A i \in 1..k : p[i] = 1
      BY <1>1, <2>8, <2>9 DEF N
    <3>2. ones(k) \in Seq(Nat) /\ Len(ones(k)) = k /\ \A i \in 1..k : ones(k)[i] = 1
      BY <2>8 DEF ones
    <3> QED BY <2>4, <3>1, <3>2, SeqEqual
  <2>11. out \in BoundedSeq(DOMAIN HUFFMAN_CODES, Len(bits))
    <3>1. Len(out) \in 0..N
      BY <2>6, <2>7, <2>8 DEF out
    <3>2. out \in [1..Len(out) -> Symbols]
      BY <2>4, LenProperties DEF out
    <3> QED BY <3>1, <3>2 DEF BoundedSeq, SeqOf, Symbols, N
  <2>12. Len(bits) - Len(a) = k /\ Len(a) <= Len(bits)
    BY <2>8 DEF N
  <2>13. a = bits_of(out)
    BY DEF a, out
  <2>14. out \in Means(bits)
    BY <2>5, <2>9, <2>10, <2>11, <2>12, <2>13 DEF Means
  <2> QED BY <1>5, <2>3, <2>14 DEF out
<1> QED BY <1>4, <1>5

\* A message that was coded is what its reader made of it.
StringRead ==
    message.kind = "string" =>
        \E bits \in Seq({0, 1}) : message.sent = bits /\ message.got = huffman_decode(bits)

\* Every Huffman-coded string that arrives, of any length, is read as what it means or refused
\* if it means nothing (huffman_decode).
THEOREM StringsExactHolds == Spec => []StringsExact
<1>1. Init => StringRead
  BY DEF Init, NoMessage, StringRead
<1>2. StringRead /\ [Next]_vars => StringRead'
  <2> SUFFICES ASSUME StringRead, [Next]_vars PROVE StringRead'
    OBVIOUS
  <2>1. CASE UNCHANGED message
    BY <2>1 DEF StringRead
  <2>2. ASSUME NEW bits \in HuffmanData, DecodeString(bits) PROVE StringRead'
    BY <2>2, HpackAssumption DEF DecodeString, StringRead
  <2>3. ASSUME NEW headers, EncodeRequest(headers) PROVE StringRead'
    BY <2>3 DEF EncodeRequest, StringRead
  <2>4. UNCHANGED message \/ (\E bits \in HuffmanData : DecodeString(bits)) \/ (\E headers : EncodeRequest(headers))
    BY DEF Next, Peer, PeerIndexed, PeerLiteral, PeerIncremental, PeerResize, PeerBad, PeerWide, Misuse, Emit,
           Building, complete_header_block, vars
  <2> QED BY <2>1, <2>2, <2>3, <2>4
<1>3. StringRead => StringsExact
  BY HuffmanExact DEF StringRead, StringsExact
<1> QED BY <1>1, <1>2, <1>3, PTL DEF Spec

-----------------------------------------------------------------------------
(* Strings *)

\* The pieces that decode_utf8 joins.
Pieces(text) == [i \in DOMAIN text |-> IF text[i] \in BAD_OCTETS THEN REPLACEMENT ELSE <<text[i]>>]

LEMMA PiecesTyped ==
  ASSUME NEW text \in Texts
  PROVE  /\ Pieces(text) \in Seq(Seq(Nat)) /\ Len(Pieces(text)) = Len(text)
         /\ decode_utf8(text) = FlattenSeq(Pieces(text))
<1>1. Len(text) \in Nat /\ DOMAIN text = 1..Len(text) /\ \A i \in 1..Len(text) : <<text[i]>> \in Seq(Nat)
  BY DEF Texts
<1>2. REPLACEMENT \in Seq(Nat)
  BY CodingAssumption
<1>3. \A i \in 1..Len(text) : Pieces(text)[i] \in Seq(Nat)
  BY <1>1, <1>2 DEF Pieces
<1>4. Pieces(text) = [i \in 1..Len(text) |-> Pieces(text)[i]]
  BY <1>1 DEF Pieces
<1>5. decode_utf8(text) = FlattenSeq(Pieces(text))
  BY DEF decode_utf8, Pieces
<1> DEFINE T == Seq(Nat)
           P == Pieces(text)
<1>6. \A i \in 1..Len(text) : P[i] \in T
  BY <1>3
<1> HIDE DEF T, P
<1>7. P = [i \in 1..Len(text) |-> P[i]]
  BY <1>4 DEF P
<1>8. P \in Seq(T) /\ Len(P) = Len(text)
  BY <1>1, <1>6, <1>7
<1> QED BY <1>5, <1>8 DEF P, T

LEMMA Utf8Typed ==
  ASSUME NEW text \in Texts
  PROVE  decode_utf8(text) \in Texts
BY PiecesTyped, FlattenTyped DEF Texts

\* Text without octets that are not UTF-8 is left as it is.
LEMMA Utf8Clean ==
  ASSUME NEW text \in Seq(Nat \ BAD_OCTETS)
  PROVE  decode_utf8(text) = text /\ text \in Texts
<1> DEFINE N == Len(text)
           P == Pieces(text)
<1>1. text \in Texts
  <2>1. Nat \ BAD_OCTETS \subseteq Nat
    OBVIOUS
  <2> HIDE DEF N, P
  <2>2. text \in Seq(Nat)
    BY <2>1, SeqMonotonic
  <2> QED BY <2>2 DEF Texts
<1>2. N \in Nat /\ DOMAIN text = 1..N /\ \A i \in 1..N : text[i] \in Nat /\ P[i] = <<text[i]>>
  BY DEF Pieces
<1>3. P \in Seq(Seq(Nat)) /\ Len(P) = N /\ decode_utf8(text) = FlattenSeq(P)
  BY <1>1, PiecesTyped
<1> HIDE DEF P
<1>4. PICK f : Flattens(f, Nat, P)
  BY <1>3, FlattenSum
<1>5. decode_utf8(text) = f[N] /\ f[0] = <<>> /\ \A n \in 1..N : f[n] = f[n - 1] \o <<text[n]>>
  BY <1>2, <1>3, <1>4 DEF Flattens
<1> DEFINE G == {n \in 0..N : f[n] = SubSeq(text, 1, n)}
<1>6. 0 \in G
  <2>1. text \in Seq(Nat)
    BY <1>1 DEF Texts
  <2>2. SubSeq(text, 1, 0) = <<>>
    <3> HIDE DEF N, G, P
    <3> QED BY <2>1
  <2>3. 0 \in 0..N /\ f[0] = <<>>
    BY <1>2, <1>5
  <2> QED BY <2>2, <2>3, Zenon
<1>7. ASSUME NEW n \in 0..N, n + 1 \in 0..N, n \in G PROVE n + 1 \in G
  <2>1. n + 1 \in 1..N /\ (n + 1) - 1 = n
    BY <1>2, <1>7
  <2>2. f[n + 1] = SubSeq(text, 1, n) \o <<text[n + 1]>>
    BY <1>5, <1>7, <2>1
  <2>3. SubSeq(text, 1, n + 1) = SubSeq(text, 1, n) \o <<text[n + 1]>>
    <3>1. text \in Seq(Nat) /\ n \in Nat
      BY <1>1, <1>2 DEF Texts
    <3> HIDE DEF N, G
    <3> DEFINE a == SubSeq(text, 1, n)
               b == SubSeq(text, 1, n + 1)
    <3>2. n + 1 <= Len(text)
      BY <2>1, <1>2 DEF N
    <3>3. a \in Seq(Nat) /\ Len(a) = n /\ \A i \in 1..n : a[i] = text[i]
      BY <3>1, <3>2
    <3>4. b \in Seq(Nat) /\ Len(b) = n + 1 /\ \A i \in 1..n + 1 : b[i] = text[i]
      BY <3>1, <3>2
    <3>5. text[n + 1] \in Nat
      BY <1>2, <2>1
    <3> HIDE DEF a, b
    <3> QED BY <3>1, <3>3, <3>4, <3>5 DEF a, b
  <2> QED BY <1>7, <2>2, <2>3
<1>8. N \in G
  <2>1. \A n \in 0..N : n \in G
    <3> HIDE DEF G, N
    <3> QED BY <1>2, <1>6, <1>7, UpTo
  <2> QED BY <1>2, <2>1
<1>9. SubSeq(text, 1, N) = text
  BY <1>1, SubSeqFull DEF Texts
<1> QED BY <1>1, <1>5, <1>8, <1>9

\* Integers and strings as they are on the wire: no integer is without octets.
Ints == {o \in Seq(Nat) : Len(o) > 0}
Wire == [huffman : BOOLEAN, length : Ints, octets : Seq(Nat)]

LEMMA ReadStringTyped ==
  ASSUME NEW w \in Wire
  PROVE  read_string(w) \in Texts \cup {Err}
<1>1. w.length \in Seq(Nat) /\ Len(w.length) > 0 /\ w.octets \in Seq(Nat)
  BY DEF Wire, Ints
<1>2. huffman_decode(w.octets) \in Seq(Nat) \cup {Err}
  BY <1>1, HuffmanTyped
<1> DEFINE text == IF w.huffman THEN huffman_decode(w.octets) ELSE w.octets
<1>3. text = Err \/ decode_utf8(text) \in Texts
  <2>1. text = Err \/ text \in Texts
    BY <1>1, <1>2 DEF Texts
  <2> QED BY <2>1, Utf8Typed
<1>4. read_string(w) = Err \/ (text # Err /\ read_string(w) = decode_utf8(text))
  BY Zenon DEF read_string
<1> QED BY <1>3, <1>4

\* A number that is readable is read back.
LEMMA NumberRead ==
  ASSUME NEW value \in Nat, NEW bits \in 1..WORD_BITS, Readable(value)
  PROVE  read_integer(write_integer(value, bits), bits) = value /\ write_integer(value, bits) \in Ints
<1>1. value < 2^WORD_BITS /\ value < Weight(MAX_GROUPS)
  BY DEF Readable, Weight
<1>2. lengthen(write_integer(value, bits), 0) = write_integer(value, bits)
  BY DEF lengthen
<1>3. read_integer(lengthen(write_integer(value, bits), 0), bits) = value
  BY <1>1, IntegersReadBack
<1>4. write_integer(value, bits) \in Seq(Nat) /\ Len(write_integer(value, bits)) > 0
  BY WriteTyped
<1> QED BY <1>2, <1>3, <1>4 DEF Ints

LEMMA PrefixTyped == STRING_PREFIX \in 1..WORD_BITS
BY Widths

LEMMA RawTyped ==
  ASSUME NEW text \in Texts
  PROVE  raw_string(text) \in Wire
<1>1. Len(text) \in Nat /\ text \in Seq(Nat)
  BY DEF Texts
<1>2. write_integer(Len(text), STRING_PREFIX) \in Ints
  BY <1>1, PrefixTyped, WriteTyped DEF Ints
<1> QED BY <1>1, <1>2 DEF raw_string, Wire

\* A string that is not Huffman-coded is read as its conversion.
LEMMA RawRead ==
  ASSUME NEW text \in Texts, Readable(Len(text))
  PROVE  read_string(raw_string(text)) = decode_utf8(text)
<1> DEFINE w == raw_string(text)
<1>1. Len(text) \in Nat /\ text \in Seq(Nat)
  BY DEF Texts
<1>2. w.huffman = FALSE /\ w.length = write_integer(Len(text), STRING_PREFIX) /\ w.octets = text
  BY DEF raw_string
<1> HIDE DEF w
<1>3. read_integer(w.length, STRING_PREFIX) = Len(text)
  BY <1>1, <1>2, PrefixTyped, NumberRead
<1>4. remaining(w) = Len(text)
  BY <1>2 DEF remaining
<1>5. Len(text) # Err /\ text # Err /\ ~(Len(text) > Len(text))
  BY <1>1, CodingAssumption
<1>6. read_string(w) = decode_utf8(text)
  BY <1>2, <1>3, <1>4, <1>5, Zenon DEF read_string
<1> QED BY <1>6 DEF w

\* What write_string writes of UTF-8 text is read back.
LEMMA StringReadBack ==
  ASSUME NEW text \in Seq(UTF8), Readable(Len(text))
  PROVE  read_string(write_string(text)) = text /\ write_string(text) \in Wire /\ text \in Texts
<1>1. text \in Seq(Symbols) /\ text \in Seq(Nat \ BAD_OCTETS)
  <2>1. UTF8 \subseteq Symbols /\ UTF8 \subseteq Nat \ BAD_OCTETS
    BY HuffmanAssumption DEF UTF8, Symbols
  <2> QED BY <2>1, SeqMonotonic
<1>2. decode_utf8(text) = text /\ text \in Texts
  BY <1>1, Utf8Clean
<1>3. CASE ~huffman_shorter(text)
  <2>1. write_string(text) = raw_string(text)
    BY <1>3 DEF write_string
  <2> QED BY <1>2, <2>1, RawRead, RawTyped
<1>4. CASE huffman_shorter(text)
  <2> DEFINE w == huffman_string(text)
             n == encoded_octets(text)
             o == huffman_encode(text)
  <2>1. huffman_decode(o) = text /\ o \in Seq(Nat) /\ n \in Nat /\ Len(o) = n * OCTET_BITS
    BY <1>1, HuffmanReadBack
  <2>2. w.huffman = TRUE /\ w.length = write_integer(n, STRING_PREFIX) /\ w.octets = o
        /\ w = [huffman |-> TRUE, length |-> write_integer(n, STRING_PREFIX), octets |-> o]
    BY DEF huffman_string
  <2>3. n < Len(text) /\ Len(text) \in Nat
    BY <1>2, <1>4 DEF huffman_shorter, Texts
  <2> HIDE DEF n, o, w
  <2>4. Readable(n)
    <3>1. 2^WORD_BITS \in Nat /\ 2^(GROUP_BITS * MAX_GROUPS) \in Nat
      <4>1. WORD_BITS \in Exponents /\ GROUP_BITS * MAX_GROUPS \in Exponents
        BY Widths DEF Exponents
      <4> QED BY <4>1, PowerIs
    <3> QED BY <2>1, <2>3, <3>1 DEF Readable
  <2>5. read_integer(w.length, STRING_PREFIX) = n /\ w.length \in Ints
    BY <2>1, <2>2, <2>4, PrefixTyped, NumberRead
  <2>6. remaining(w) = n
    <3>1. \A a, b \in Nat : b > 0 => (a * b) \div b = a
      OBVIOUS
    <3>2. OCTET_BITS \in Nat /\ OCTET_BITS > 0
      BY Widths
    <3>3. (n * OCTET_BITS) \div OCTET_BITS = n
      BY <2>1, <3>1, <3>2, Zenon
    <3> QED BY <2>1, <2>2, <3>3, Zenon DEF remaining
  <2>7. n # Err /\ text # Err /\ ~(n > n)
    BY <1>2, <2>1, CodingAssumption DEF Texts
  <2>8. read_string(w) = text
    BY <1>2, <2>1, <2>2, <2>5, <2>6, <2>7, Zenon DEF read_string
  <2>9. w \in Wire
    BY <2>1, <2>2, <2>5 DEF Wire
  <2> QED BY <1>2, <1>4, <2>8, <2>9 DEF write_string, w
<1> QED BY <1>3, <1>4

-----------------------------------------------------------------------------
(* The size of a table *)

Field == [name : Texts, value : Texts]

LEMMA EntrySized ==
  ASSUME NEW f \in Field
  PROVE  entry_size(f) \in Nat /\ entry_size(f) > 0
<1>1. Len(f.name) \in Nat /\ Len(f.value) \in Nat
  BY DEF Field, Texts
<1>2. ENTRY_OVERHEAD \in Nat /\ ENTRY_OVERHEAD > 0
  <2>1. ENTRY_OVERHEAD \in Nat \ {0}
    BY HpackAssumption, Zenon
  <2> QED BY <2>1
<1>3. \A a, b \in Nat : a + b + ENTRY_OVERHEAD \in Nat /\ a + b + ENTRY_OVERHEAD > 0
  BY <1>2
<1> QED BY <1>1, <1>3, Zenon DEF entry_size

LEMMA HeadersAre ==
  ASSUME NEW t \in Headers
  PROVE  /\ Len(t) \in Nat /\ DOMAIN t = 1..Len(t) /\ t \in Seq(Field)
         /\ \A i \in 1..Len(t) : t[i] \in Field /\ entry_size(t[i]) \in Nat /\ entry_size(t[i]) > 0
<1>1. t \in Seq(Field)
  BY DEF Headers, Field
<1>2. \A i \in 1..Len(t) : t[i] \in Field
  BY <1>1
<1> QED BY <1>1, <1>2, EntrySized

\* sum[n] is the size of the first n entries.
Sums(sum, t) ==
    /\ sum \in [0..Len(t) -> Nat] /\ sum[0] = 0
    /\ \A n \in 1..Len(t) : sum[n] = sum[n - 1] + entry_size(t[n])
    /\ table_size(t) = sum[Len(t)]

LEMMA SizeIs ==
  ASSUME NEW t \in Headers
  PROVE  \E sum : Sums(sum, t)
<1> DEFINE N == Len(t)
           add(p, n) == p + entry_size(t[n])
           step == [p \in Nat \X (1..N) |-> add(p[1], p[2])]
           Is(g) == g = [n \in 0..N |-> IF n = 0 THEN 0 ELSE add(g[n - 1], n)]
           sum == CHOOSE g : Is(g)
<1>1. N \in Nat /\ \A n \in 1..N : entry_size(t[n]) \in Nat
  BY HeadersAre
<1>2. \A p \in Nat, n \in 1..N : add(p, n) \in Nat
  BY <1>1
<1>3. PICK f : Iterates(f, Nat, N, 0, step)
  <2>1. step \in [Nat \X (1..N) -> Nat]
    <3> HIDE DEF add
    <3> QED BY <1>2
  <2> HIDE DEF step, N
  <2> QED BY <1>1, <2>1, IterateExists
<1>4. f \in [0..N -> Nat] /\ f[0] = 0 /\ \A n \in 1..N : f[n] = step[<<f[n - 1], n>>]
  BY <1>3 DEF Iterates
<1>5. \A n \in 1..N : f[n] = add(f[n - 1], n)
  <2> TAKE n \in 1..N
  <2>1. n - 1 \in 0..N
    BY <1>1
  <2>2. <<f[n - 1], n>> \in Nat \X (1..N)
    BY <1>4, <2>1
  <2> HIDE DEF add
  <2> QED BY <1>4, <2>2
<1> HIDE DEF add
<1>6. Is(f)
  BY <1>1, <1>4, <1>5, SMTT(30)
<1>7. Is(sum)
  BY <1>6
<1>8. table_size(t) = sum[N]
  BY Zenon DEF table_size, add
<1> HIDE DEF sum
<1>9. sum[0] = 0 /\ \A n \in 1..N : sum[n] = add(sum[n - 1], n)
  <2> HIDE DEF N
  <2>1. sum = [n \in 0..N |-> IF n = 0 THEN 0 ELSE add(sum[n - 1], n)]
    BY <1>7
  <2>2. sum[0] = 0
    BY <1>1, <2>1
  <2>3. \A n \in 1..N : sum[n] = add(sum[n - 1], n)
    BY <1>1, <2>1
  <2> QED BY <2>2, <2>3
<1> DEFINE G == {n \in 0..N : sum[n] = f[n]}
<1>10. 0 \in G
  BY <1>1, <1>4, <1>9
<1>11. ASSUME NEW n \in 0..N, n + 1 \in 0..N, n \in G PROVE n + 1 \in G
  <2>1. n + 1 \in 1..N /\ (n + 1) - 1 = n
    BY <1>1, <1>11
  <2>2. sum[n + 1] = f[n + 1]
    BY <1>5, <1>9, <1>11, <2>1
  <2> QED BY <1>11, <2>2
<1>12. \A n \in 0..N : sum[n] = f[n]
  <2>1. \A n \in 0..N : n \in G
    <3> HIDE DEF G, N
    <3> QED BY <1>1, <1>10, <1>11, UpTo
  <2> QED BY <2>1
<1>13. table_size(t) = f[N]
  BY <1>1, <1>8, <1>12
<1> QED BY <1>4, <1>5, <1>13 DEF Sums, add

LEMMA TableSized ==
  ASSUME NEW t \in Headers
  PROVE  table_size(t) \in Nat
<1>1. PICK sum : Sums(sum, t)
  BY SizeIs
<1>2. Len(t) \in 0..Len(t)
  BY HeadersAre
<1> QED BY <1>1, <1>2 DEF Sums

LEMMA EmptySized == table_size(<<>>) = 0 /\ <<>> \in Headers
<1>1. <<>> \in Headers
  BY DEF Headers
<1>2. PICK sum : Sums(sum, <<>>)
  BY <1>1, SizeIs
<1> QED BY <1>1, <1>2 DEF Sums

\* The size of two tables one after the other is the sum of their sizes.
LEMMA SizeOfBoth ==
  ASSUME NEW a \in Headers, NEW b \in Headers
  PROVE  table_size(a \o b) = table_size(a) + table_size(b) /\ a \o b \in Headers
<1> DEFINE t == a \o b
           A == Len(a)
           B == Len(b)
<1>1. A \in Nat /\ B \in Nat /\ a \in Seq(Field) /\ b \in Seq(Field)
  BY HeadersAre
<1>2. /\ t \in Seq(Field) /\ Len(t) = A + B
      /\ \A i \in 1..A + B : t[i] = IF i <= A THEN a[i] ELSE b[i - A]
  BY <1>1, ConcatProperties
<1>3. t \in Headers
  BY <1>2 DEF Headers, Field
<1> HIDE DEF t
<1>4. PICK sa : Sums(sa, a)
  BY SizeIs
<1>5. PICK sb : Sums(sb, b)
  BY SizeIs
<1>6. PICK st : Sums(st, t)
  BY <1>3, SizeIs
<1> DEFINE E(s, i) == entry_size(s[i])
           G == {n \in 0..A : st[n] = sa[n]}
           H == {n \in 0..B : st[A + n] = table_size(a) + sb[n]}
<1>7. /\ sa \in [0..A -> Nat] /\ sa[0] = 0 /\ \A n \in 1..A : sa[n] = sa[n - 1] + E(a, n)
      /\ sb \in [0..B -> Nat] /\ sb[0] = 0 /\ \A n \in 1..B : sb[n] = sb[n - 1] + E(b, n)
      /\ st[0] = 0 /\ \A n \in 1..A + B : st[n] = st[n - 1] + E(t, n)
      /\ table_size(a) = sa[A] /\ table_size(b) = sb[B] /\ table_size(t) = st[A + B]
  BY <1>2, <1>4, <1>5, <1>6 DEF Sums
<1>8. \A n \in 1..A : E(t, n) = E(a, n)
  BY <1>1, <1>2
<1>9. \A n \in 1..B : E(t, A + n) = E(b, n) /\ E(b, n) \in Nat
  <2> TAKE n \in 1..B
  <2>1. A + n \in 1..A + B /\ ~(A + n <= A) /\ (A + n) - A = n
    BY <1>1
  <2>2. t[A + n] = b[n]
    BY <1>2, <2>1
  <2> QED BY <2>2, HeadersAre
<1> HIDE DEF A, B, E
<1>10. 0 \in G
  BY <1>1, <1>7
<1>11. ASSUME NEW n \in 0..A, n + 1 \in 0..A, n \in G PROVE n + 1 \in G
  <2>1. n + 1 \in 1..A /\ n + 1 \in 1..A + B /\ (n + 1) - 1 = n
    BY <1>1, <1>11
  <2>2. st[n + 1] = st[n] + E(t, n + 1) /\ sa[n + 1] = sa[n] + E(a, n + 1)
    BY <1>7, <2>1
  <2>3. st[n + 1] = sa[n + 1]
    BY <1>8, <1>11, <2>1, <2>2
  <2> QED BY <1>11, <2>3
<1>12. st[A] = sa[A]
  <2>1. \A n \in 0..A : n \in G
    <3> HIDE DEF G
    <3> QED BY <1>1, <1>10, <1>11, UpTo
  <2> QED BY <1>1, <2>1
<1>13. sa[A] \in Nat
  BY <1>1, <1>7
<1>14. 0 \in H
  <2>1. A + 0 = A /\ sa[A] + 0 = sa[A] /\ 0 \in 0..B
    BY <1>1, <1>13
  <2> QED BY <1>7, <1>12, <2>1
<1>15. ASSUME NEW n \in 0..B, n + 1 \in 0..B, n \in H PROVE n + 1 \in H
  <2>1. n + 1 \in 1..B /\ A + (n + 1) \in 1..A + B /\ (n + 1) - 1 = n /\ (A + (n + 1)) - 1 = A + n
    BY <1>1, <1>15
  <2>2. st[A + (n + 1)] = st[A + n] + E(b, n + 1) /\ sb[n + 1] = sb[n] + E(b, n + 1)
    BY <1>7, <1>9, <2>1
  <2>3. st[A + n] = table_size(a) + sb[n] /\ sb[n] \in Nat /\ E(b, n + 1) \in Nat
    BY <1>7, <1>9, <1>15, <2>1
  <2>4. st[A + (n + 1)] = table_size(a) + sb[n + 1]
    BY <1>7, <1>13, <2>2, <2>3
  <2> QED BY <1>15, <2>4
<1>16. st[A + B] = table_size(a) + sb[B]
  <2>1. \A n \in 0..B : n \in H
    <3> HIDE DEF H
    <3> QED BY <1>1, <1>14, <1>15, UpTo
  <2> QED BY <1>1, <2>1
<1> QED BY <1>3, <1>7, <1>16 DEF t

\* The k newest entries, and their size.
Newest(t, k) == SubSeq(t, 1, k)
Held(t, k) == table_size(Newest(t, k))

LEMMA FrontIs ==
  ASSUME NEW t \in Headers, NEW k \in 0..Len(t)
  PROVE  /\ Newest(t, k) \in Headers /\ Len(Newest(t, k)) = k /\ \A i \in 1..k : Newest(t, k)[i] = t[i]
         /\ Held(t, k) \in Nat
<1>1. t \in Seq(Field) /\ k \in Nat /\ k <= Len(t) /\ Len(t) \in Nat
  BY HeadersAre
<1>2. Newest(t, k) \in Seq(Field) /\ Len(Newest(t, k)) = k /\ \A i \in 1..k : Newest(t, k)[i] = t[i]
  BY <1>1 DEF Newest
<1>3. Newest(t, k) \in Headers
  BY <1>2 DEF Headers, Field
<1> QED BY <1>2, <1>3, TableSized DEF Held

LEMMA FrontEnds ==
  ASSUME NEW t \in Headers
  PROVE  Newest(t, 0) = <<>> /\ Held(t, 0) = 0 /\ Newest(t, Len(t)) = t /\ Held(t, Len(t)) = table_size(t)
<1>1. t \in Seq(Field)
  BY HeadersAre
<1>2. Newest(t, 0) = <<>>
  BY <1>1 DEF Newest
<1>3. Newest(t, Len(t)) = t
  BY <1>1, SubSeqFull DEF Newest
<1> QED BY <1>2, <1>3, EmptySized DEF Held

\* Popping the n oldest entries leaves the newest, and their size.
LEMMA Popped ==
  ASSUME NEW t \in Headers, NEW n \in 0..Len(t)
  PROVE  /\ AllButOldest(t, n) = Newest(t, Len(t) - n) /\ Len(t) - n \in 0..Len(t)
         /\ table_size(t) - table_size(Oldest(t, n)) = Held(t, Len(t) - n)
<1> DEFINE L == Len(t)
           k == L - n
           a == SubSeq(t, 1, k)
           b == SubSeq(t, k + 1, L)
<1>1. t \in Seq(Field) /\ L \in Nat /\ k \in 0..L /\ k \in Nat
  BY HeadersAre
<1>2. a \in Seq(Field) /\ Len(a) = k /\ \A i \in 1..k : a[i] = t[i]
  BY <1>1
<1>3. b \in Seq(Field) /\ Len(b) = n /\ \A i \in 1..n : b[i] = t[k + i]
  <2> HIDE DEF a
  <2>1. k + 1 \in 1..L + 1 /\ L - (k + 1) + 1 = n /\ \A i \in 1..n : (k + 1) + i - 1 = k + i
    BY <1>1
  <2>2. SubSeq(t, k + 1, L) \in Seq(Field) /\ Len(SubSeq(t, k + 1, L)) = n
    BY <1>1
  <2>3. \A i \in 1..n : SubSeq(t, k + 1, L)[i] = t[k + i]
    BY <1>1
  <2> QED BY <2>2, <2>3
<1>4. t = a \o b
  <2> HIDE DEF a, b
  <2>1. a \o b \in Seq(Field) /\ Len(a \o b) = k + n
        /\ \A i \in 1..k + n : (a \o b)[i] = IF i <= k THEN a[i] ELSE b[i - k]
    <3>1. a \in Seq(Field) /\ b \in Seq(Field) /\ Len(a) = k /\ Len(b) = n
      BY <1>2, <1>3
    <3>2. a \o b \in Seq(Field) /\ Len(a \o b) = Len(a) + Len(b)
          /\ \A i \in 1..Len(a) + Len(b) : (a \o b)[i] = IF i <= Len(a) THEN a[i] ELSE b[i - Len(a)]
      BY <3>1, ConcatProperties, Zenon
    <3> HIDE DEF k
    <3> QED BY <3>1, <3>2
  <2>2. \A i \in 1..L : t[i] = (a \o b)[i]
    <3> TAKE i \in 1..L
    <3>1. i \in 1..k + n
      BY <1>1
    <3>2. CASE i <= k
      BY <1>1, <1>2, <2>1, <3>1, <3>2
    <3>3. CASE ~(i <= k)
      <4>1. i - k \in 1..n /\ k + (i - k) = i
        BY <1>1, <3>3
      <4>2. b[i - k] = t[i]
        BY <1>3, <4>1
      <4> QED BY <2>1, <3>1, <3>3, <4>2
    <3> QED BY <3>2, <3>3
  <2>3. Len(t) = Len(a \o b)
    BY <1>1, <2>1
  <2> HIDE DEF k
  <2> QED BY <1>1, <2>1, <2>2, <2>3, SeqEqual DEF L
<1>5. Oldest(t, n) = b /\ AllButOldest(t, n) = a /\ Newest(t, k) = a
  BY DEF Oldest, AllButOldest, Newest
<1>6. a \in Headers /\ b \in Headers
  BY <1>2, <1>3 DEF Headers, Field
<1> HIDE DEF a, b
<1>7. table_size(t) = table_size(a) + table_size(b) /\ table_size(a) \in Nat /\ table_size(b) \in Nat
  BY <1>4, <1>6, SizeOfBoth, TableSized
<1>8. table_size(t) - table_size(b) = table_size(a)
  BY <1>7
<1> QED BY <1>1, <1>5, <1>8 DEF Held

\* k is the number of entries that fit in n octets.
Most(t, n, k) ==
    /\ k \in 0..Len(t) /\ Held(t, k) <= n
    /\ \A j \in 0..Len(t) : Held(t, j) <= n => j <= k

LEMMA FitIs ==
  ASSUME NEW t \in Headers, NEW n \in Nat
  PROVE  \E k : Most(t, n, k) /\ fit(t, n) = Newest(t, k)
<1> DEFINE sizes == {k \in 0..Len(t) : table_size(SubSeq(t, 1, k)) <= n}
<1>1. Len(t) \in Nat
  BY HeadersAre
<1>2. 0 \in sizes
  BY <1>1, FrontEnds DEF Held, Newest
<1>3. \E k \in sizes : \A j \in sizes : j <= k
  <2>1. sizes \in SUBSET (0..Len(t))
    OBVIOUS
  <2> HIDE DEF sizes
  <2> QED BY <1>1, <1>2, <2>1, GreatestUpTo
<1> DEFINE k == CHOOSE k \in sizes : \A j \in sizes : j <= k
<1>4. k \in sizes /\ \A j \in sizes : j <= k
  <2> HIDE DEF sizes
  <2> QED BY <1>3
<1>5. fit(t, n) = Newest(t, k)
  BY DEF fit, Newest
<1> HIDE DEF k
<1>6. Most(t, n, k)
  BY <1>4 DEF Most, Held, Newest
<1> QED BY <1>5, <1>6

LEMMA FitMost ==
  ASSUME NEW t \in Headers, NEW n \in Nat, NEW k, Most(t, n, k)
  PROVE  fit(t, n) = Newest(t, k)
<1>1. PICK m : Most(t, n, m) /\ fit(t, n) = Newest(t, m)
  BY FitIs
<1>2. m = k
  <2>1. m \in 0..Len(t) /\ k \in 0..Len(t) /\ m <= k /\ k <= m
    BY <1>1 DEF Most
  <2> QED BY <2>1, HeadersAre
<1> QED BY <1>1, <1>2

LEMMA FitTyped ==
  ASSUME NEW t \in Headers, NEW n \in Nat
  PROVE  /\ fit(t, n) \in Headers /\ table_size(fit(t, n)) \in Nat /\ table_size(fit(t, n)) <= n
         /\ Len(fit(t, n)) <= Len(t)
<1>1. PICK k : Most(t, n, k) /\ fit(t, n) = Newest(t, k)
  BY FitIs
<1>2. k \in 0..Len(t) /\ Held(t, k) <= n
  BY <1>1 DEF Most
<1>3. Newest(t, k) \in Headers /\ Len(Newest(t, k)) = k /\ Held(t, k) \in Nat
  BY <1>2, FrontIs
<1> QED BY <1>1, <1>2, <1>3, HeadersAre DEF Held

Decoders == [dynamic : Headers, size : Nat, max_size : Nat, protocol_max : Nat]

\* The count of octets is that of the entries.
Counted(d) == d \in Decoders /\ d.size = table_size(d.dynamic)

\* A table, with its size.
WithTable(d, t) == [d EXCEPT !.dynamic = t, !.size = table_size(t)]

\* Evicting keeps the entries that fit.
LEMMA EvictFits ==
  ASSUME NEW d, Counted(d), NEW limit \in Nat
  PROVE  evict(d, limit) = WithTable(d, fit(d.dynamic, limit))
<1> DEFINE t == d.dynamic
           L == Len(t)
           left(n) == d.size - table_size(Oldest(t, n))
           Stops(n) == n = L \/ left(n) <= limit
           S == {n \in 0..L : Stops(n)}
<1>1. t \in Headers /\ d.size = table_size(t) /\ L \in Nat
  BY HeadersAre DEF Counted, Decoders
<1>2. \A n \in 0..L : left(n) = Held(t, L - n) /\ AllButOldest(t, n) = Newest(t, L - n) /\ L - n \in 0..L
  BY <1>1, Popped
<1> HIDE DEF t
<1> DEFINE Is(n) == Stops(n) /\ \A m \in 0..n - 1 : left(m) > limit
           n == CHOOSE n \in 0..L : Is(n)
<1>3. \E i \in 0..L : Is(i)
  <2>1. L \in S /\ S \in SUBSET Nat
    BY <1>1
  <2>2. PICK i \in S : \A j \in S : i <= j
    <3> HIDE DEF S
    <3> QED BY <2>1, LeastNat
  <2>3. i \in 0..L /\ Stops(i) /\ i \in Nat
    BY <1>1, <2>2
  <2>4. ASSUME NEW m \in 0..i - 1 PROVE left(m) > limit
    <3>1. m \in 0..L /\ ~(i <= m)
      BY <1>1, <2>3
    <3>2. m \notin S
      <4> HIDE DEF S
      <4> QED BY <2>2, <3>1
    <3>3. ~(left(m) <= limit)
      BY <3>1, <3>2
    <3>4. left(m) \in Nat
      BY <1>1, <1>2, <3>1, FrontIs
    <3> HIDE DEF left
    <3> QED BY <3>3, <3>4
  <2> HIDE DEF S, left, Stops
  <2> QED BY <2>3, <2>4
<1>4. n \in 0..L /\ Is(n)
  <2> HIDE DEF Is
  <2> QED BY <1>3
<1>5. evict(d, limit) = [d EXCEPT !.dynamic = AllButOldest(@, n), !.size = left(n)]
  BY Zenon DEF evict, t
<1> HIDE DEF n, left
<1>6. left(n) = Held(t, L - n) /\ AllButOldest(t, n) = Newest(t, L - n) /\ L - n \in 0..L
  BY <1>2, <1>4
<1>7. evict(d, limit) = WithTable(d, Newest(t, L - n))
  BY <1>5, <1>6, Zenon DEF WithTable, Held, t
<1>8. Most(t, limit, L - n)
  <2>1. Held(t, L - n) <= limit
    <3>1. CASE n = L
      <4>1. L - n = 0
        BY <1>1, <3>1
      <4> QED BY <1>1, <4>1, FrontEnds
    <3> QED BY <1>4, <1>6, <3>1
  <2>2. ASSUME NEW j \in 0..L, Held(t, j) <= limit PROVE j <= L - n
    <3> SUFFICES ASSUME ~(j <= L - n) PROVE FALSE
      OBVIOUS
    <3>1. L - j \in 0..L /\ L - j \in 0..n - 1 /\ L - (L - j) = j
      BY <1>1, <1>4
    <3>2. left(L - j) = Held(t, j)
      BY <1>2, <3>1
    <3>3. left(L - j) > limit
      BY <1>4, <3>1
    <3>4. Held(t, j) \in Nat
      BY <1>1, FrontIs
    <3> QED BY <2>2, <3>2, <3>3, <3>4
  <2> QED BY <1>6, <2>1, <2>2 DEF Most
<1> QED BY <1>1, <1>7, <1>8, FitMost DEF t

\* A new entry in front.
LEMMA FrontOfMore ==
  ASSUME NEW f \in Field, NEW t \in Headers
  PROVE  /\ <<f>> \o t \in Headers /\ Len(<<f>> \o t) = Len(t) + 1
         /\ table_size(<<f>> \o t) = entry_size(f) + table_size(t)
         /\ \A k \in 0..Len(t) : /\ Newest(<<f>> \o t, k + 1) = <<f>> \o Newest(t, k)
                                 /\ Held(<<f>> \o t, k + 1) = entry_size(f) + Held(t, k)
<1>1. <<f>> \in Seq(Field) /\ <<f>> \in Headers /\ Len(<<f>>) = 1 /\ <<f>>[1] = f
  BY DEF Headers, Field
<1>2. table_size(<<f>>) = entry_size(f)
  <2>1. PICK sum : Sums(sum, <<f>>)
    BY <1>1, SizeIs
  <2>2. sum[0] = 0 /\ table_size(<<f>>) = sum[1] /\ sum[1] = sum[1 - 1] + entry_size(f)
    BY <1>1, <2>1 DEF Sums
  <2>3. 1 - 1 = 0 /\ entry_size(f) \in Nat
    BY EntrySized
  <2> QED BY <2>2, <2>3
<1>3. \A a \in Headers : <<f>> \o a \in Headers /\ table_size(<<f>> \o a) = entry_size(f) + table_size(a)
  BY <1>1, <1>2, SizeOfBoth
<1>4. t \in Seq(Field) /\ Len(t) \in Nat
  BY HeadersAre
<1> DEFINE u == <<f>> \o t
<1>5. u \in Headers /\ u \in Seq(Field) /\ Len(u) = Len(t) + 1
      /\ \A i \in 1..Len(t) + 1 : u[i] = IF i = 1 THEN f ELSE t[i - 1]
  BY <1>1, <1>3, <1>4
<1> HIDE DEF u
<1>6. ASSUME NEW k \in 0..Len(t) PROVE Newest(u, k + 1) = <<f>> \o Newest(t, k)
  <2> DEFINE a == Newest(u, k + 1)
             c == Newest(t, k)
             b == <<f>> \o c
  <2>1. k + 1 \in 0..Len(u) /\ k \in Nat
    BY <1>4, <1>5
  <2>2. a \in Headers /\ Len(a) = k + 1 /\ \A i \in 1..k + 1 : a[i] = u[i]
    BY <1>5, <2>1, FrontIs
  <2>3. c \in Headers /\ Len(c) = k /\ \A i \in 1..k : c[i] = t[i]
    BY FrontIs
  <2> HIDE DEF a, c
  <2>4. a \in Seq(Field) /\ c \in Seq(Field)
    BY <2>2, <2>3, HeadersAre
  <2>5. b \in Seq(Field) /\ Len(b) = k + 1 /\ \A i \in 1..k + 1 : b[i] = IF i = 1 THEN f ELSE c[i - 1]
    BY <2>3, <2>4
  <2> HIDE DEF b
  <2>6. \A i \in 1..k + 1 : a[i] = b[i]
    <3> TAKE i \in 1..k + 1
    <3>1. i \in 1..Len(t) + 1 /\ (i # 1 => i - 1 \in 1..k)
      BY <1>4, <2>1
    <3> QED BY <1>5, <2>2, <2>3, <2>5, <3>1
  <2>7. a = b
    BY <2>2, <2>4, <2>5, <2>6, SeqEqual
  <2> QED BY <2>7 DEF a, b, c
<1>7. \A k \in 0..Len(t) : Held(u, k + 1) = entry_size(f) + Held(t, k)
  BY <1>3, <1>6, FrontIs DEF Held
<1> QED BY <1>3, <1>5, <1>6, <1>7 DEF u

\* What the peer chose is within what was announced, and the entries fit in it.
Sound(d) == Counted(d) /\ d.size <= d.max_size /\ d.max_size <= d.protocol_max

LEMMA SizesAre == TableSizes \subseteq Nat
BY HpackAssumption, Zenon

LEMMA TableKept ==
  ASSUME NEW d \in Decoders, NEW n \in Nat, NEW t \in Headers, table_size(t) <= n, n <= d.protocol_max
  PROVE  Sound([WithTable(d, t) EXCEPT !.max_size = n])
<1>1. table_size(t) \in Nat
  BY TableSized
<1> QED BY <1>1 DEF Sound, Counted, Decoders, WithTable

\* Inserting keeps the entries that fit, the new one among them.
LEMMA InsertFits ==
  ASSUME NEW d, Sound(d), NEW f \in Field
  PROVE  /\ insert(d, f) = WithTable(d, fit(<<f>> \o d.dynamic, d.max_size))
         /\ Sound(insert(d, f))
<1> DEFINE t == d.dynamic
           u == <<f>> \o t
           max == d.max_size
           e == entry_size(f)
<1>1. d \in Decoders /\ t \in Headers /\ max \in Nat /\ Len(t) \in Nat /\ Counted(d) /\ max <= d.protocol_max
  BY HeadersAre DEF Sound, Counted, Decoders
<1>2. e \in Nat /\ e > 0
  BY EntrySized
<1>3. /\ u \in Headers /\ Len(u) = Len(t) + 1
      /\ \A x \in Headers : table_size(<<f>> \o x) = e + table_size(x)
      /\ \A k \in 0..Len(t) : Newest(u, k + 1) = <<f>> \o Newest(t, k) /\ Held(u, k + 1) = e + Held(t, k)
  BY <1>1, FrontOfMore
<1> HIDE DEF u, e
<1>4. ASSUME NEW j \in 0..Len(u), j # 0 PROVE j - 1 \in 0..Len(t) /\ Held(u, j) = e + Held(t, j - 1) /\ Held(t, j - 1) \in Nat
  <2>1. j - 1 \in 0..Len(t) /\ (j - 1) + 1 = j
    BY <1>1, <1>3, <1>4
  <2> QED BY <1>1, <1>3, <2>1, FrontIs
<1>5. Sound(WithTable(d, fit(u, max)))
  <2>1. fit(u, max) \in Headers /\ table_size(fit(u, max)) <= max
    BY <1>1, <1>3, FitTyped
  <2>2. Sound([WithTable(d, fit(u, max)) EXCEPT !.max_size = max])
    BY <1>1, <2>1, TableKept
  <2>3. [WithTable(d, fit(u, max)) EXCEPT !.max_size = max] = WithTable(d, fit(u, max))
    BY <1>1 DEF WithTable, Decoders
  <2> QED BY <2>2, <2>3
<1>6. CASE e <= max
  <2>1. max - e \in Nat
    BY <1>1, <1>2, <1>6
  <2>2. evict(d, max - e) = WithTable(d, fit(t, max - e))
    BY <1>1, <2>1, EvictFits
  <2>3. PICK k : Most(t, max - e, k) /\ fit(t, max - e) = Newest(t, k)
    BY <1>1, <2>1, FitIs
  <2>4. k \in 0..Len(t) /\ Held(t, k) <= max - e /\ \A j \in 0..Len(t) : Held(t, j) <= max - e => j <= k
    BY <2>3 DEF Most
  <2>5. Newest(t, k) \in Headers /\ Held(t, k) \in Nat
    BY <1>1, <2>4, FrontIs
  <2>6. insert(d, f) = WithTable(d, <<f>> \o Newest(t, k))
    <3> DEFINE x == Newest(t, k)
               v == WithTable(d, x)
    <3>1. insert(d, f) = [v EXCEPT !.dynamic = <<f>> \o @, !.size = @ + e]
      <4>1. evict(d, d.max_size - entry_size(f)) = v
        BY <2>2, <2>3 DEF e
      <4>2. entry_size(f) <= d.max_size
        BY <1>6 DEF e
      <4> HIDE DEF v
      <4> QED BY <4>1, <4>2, Zenon DEF insert, e
    <3>2. table_size(<<f>> \o x) = table_size(x) + e
      <4>1. table_size(x) \in Nat
        BY <2>5, TableSized
      <4> QED BY <1>2, <1>3, <2>5, <4>1
    <3>3. v.dynamic = x /\ v.size = table_size(x)
      BY <1>1 DEF WithTable, Decoders
    <3> HIDE DEF x
    <3> QED BY <1>1, <3>1, <3>2, <3>3 DEF WithTable, Decoders, x
  <2>7. Most(u, max, k + 1)
    <3>1. k + 1 \in 0..Len(u) /\ Held(u, k + 1) <= max
      <4>1. Held(u, k + 1) = e + Held(t, k)
        BY <1>3, <2>4
      <4> QED BY <1>1, <1>2, <1>3, <2>4, <2>5, <4>1
    <3>2. ASSUME NEW j \in 0..Len(u), Held(u, j) <= max PROVE j <= k + 1
      <4>1. CASE j = 0
        BY <1>1, <2>4, <4>1
      <4>2. CASE j # 0
        <5>1. j - 1 \in 0..Len(t) /\ Held(u, j) = e + Held(t, j - 1) /\ Held(t, j - 1) \in Nat
          BY <1>4, <4>2
        <5>2. Held(t, j - 1) <= max - e
          BY <1>1, <1>2, <3>2, <5>1
        <5>3. j - 1 <= k
          BY <2>4, <5>1, <5>2
        <5> QED BY <1>1, <1>3, <2>4, <5>3
      <4> QED BY <4>1, <4>2
    <3> QED BY <3>1, <3>2 DEF Most
  <2>8. fit(u, max) = Newest(u, k + 1)
    BY <1>1, <1>3, <2>7, FitMost
  <2>9. insert(d, f) = WithTable(d, fit(u, max))
    BY <1>3, <2>4, <2>6, <2>8
  <2> QED BY <1>5, <2>9 DEF u
<1>7. CASE ~(e <= max)
  <2>1. Most(u, max, 0)
    <3>1. 0 \in 0..Len(u) /\ Held(u, 0) <= max
      BY <1>1, <1>3, FrontEnds
    <3>2. ASSUME NEW j \in 0..Len(u), Held(u, j) <= max PROVE j <= 0
      <4> SUFFICES ASSUME j # 0 PROVE FALSE
        BY <1>1, <1>3
      <4>1. Held(u, j) = e + Held(t, j - 1) /\ Held(t, j - 1) \in Nat
        BY <1>4
      <4> QED BY <1>1, <1>2, <1>7, <3>2, <4>1
    <3> QED BY <3>1, <3>2 DEF Most
  <2>2. fit(u, max) = <<>>
    BY <1>1, <1>3, <2>1, FitMost, FrontEnds
  <2>3. insert(d, f) = WithTable(d, <<>>)
    <3>1. insert(d, f) = [evict(d, d.max_size - entry_size(f)) EXCEPT !.dynamic = <<>>, !.size = 0]
      BY <1>7, Zenon DEF insert, e
    <3>2. PICK x, y : evict(d, d.max_size - entry_size(f)) = [d EXCEPT !.dynamic = x, !.size = y]
      BY Zenon DEF evict
    <3>3. WithTable(d, <<>>) = [d EXCEPT !.dynamic = <<>>, !.size = 0]
      BY EmptySized DEF WithTable
    <3> QED BY <1>1, <3>1, <3>2, <3>3 DEF Decoders
  <2> QED BY <1>5, <2>2, <2>3 DEF u
<1> QED BY <1>6, <1>7

\* A size update keeps the entries that fit in the new size.
LEMMA ResizeFits ==
  ASSUME NEW d, Sound(d), NEW n \in Nat, n <= d.protocol_max
  PROVE  /\ apply_max_size(d, n) = [WithTable(d, fit(d.dynamic, n)) EXCEPT !.max_size = n]
         /\ Sound(apply_max_size(d, n))
<1> DEFINE v == [d EXCEPT !.max_size = n]
           t == fit(d.dynamic, n)
<1>1. d \in Decoders /\ d.dynamic \in Headers /\ d.size = table_size(d.dynamic)
  BY DEF Sound, Counted, Decoders
<1>2. Counted(v) /\ v.dynamic = d.dynamic
  BY <1>1 DEF Counted, Decoders
<1>3. apply_max_size(d, n) = WithTable(v, t)
  <2>1. evict(v, n) = WithTable(v, fit(v.dynamic, n))
    <3> HIDE DEF v
    <3> QED BY <1>2, EvictFits
  <2> QED BY <1>2, <2>1 DEF apply_max_size
<1>4. t \in Headers /\ table_size(t) <= n
  BY <1>1, FitTyped
<1> HIDE DEF t
<1>5. WithTable(v, t) = [WithTable(d, t) EXCEPT !.max_size = n]
  BY <1>1 DEF WithTable, Decoders
<1>6. Sound([WithTable(d, t) EXCEPT !.max_size = n])
  BY <1>1, <1>4, TableKept
<1> QED BY <1>3, <1>5, <1>6 DEF t

-----------------------------------------------------------------------------
(* The loop of decode *)

Reps == [kind : Kinds, int : Ints, name : Wire, value : Wire]

\* What decode has: a decoder that is sound, the headers, and whether it failed.
Reading == {s \in [d : Decoders, headers : Headers, error : BOOLEAN] : Sound(s.d)}
Start(d) == [d |-> d, headers |-> <<>>, error |-> FALSE]
Fail(s) == [s EXCEPT !.error = TRUE]
Number(r) == read_integer(r.int, PrefixBits[r.kind])

LEMMA PrefixOf ==
  ASSUME NEW kind \in Kinds
  PROVE  PrefixBits[kind] \in 1..WORD_BITS
BY HpackAssumption

LEMMA NumberTyped ==
  ASSUME NEW r \in Reps
  PROVE  Number(r) \in Nat \cup {Err}
<1>1. r.kind \in Kinds /\ r.int \in Seq(Nat) /\ Len(r.int) > 0
  BY DEF Reps, Ints
<1> QED BY <1>1, PrefixOf, ReadTyped DEF Number

LEMMA EntryTyped ==
  ASSUME NEW t \in Headers, NEW i \in indices(t)
  PROVE  entry_at(t, i) \in Field /\ i \in Nat /\ i > 0 /\ i <= Len(STATIC_TABLE) + Len(t)
<1>1. STATIC_TABLE \in Headers
  BY HpackAssumption, Zenon
<1> DEFINE L == Len(STATIC_TABLE)
<1>2. L \in Nat /\ (\A j \in 1..L : STATIC_TABLE[j] \in Field) /\ Len(t) \in Nat /\ \A j \in 1..Len(t) : t[j] \in Field
  BY <1>1, HeadersAre
<1> HIDE DEF L
<1>3. i \in 1..(L + Len(t))
  BY DEF indices, L
<1>4. CASE i <= L
  <2>1. i \in 1..L
    BY <1>2, <1>3, <1>4
  <2> QED BY <1>2, <1>3, <1>4, <2>1 DEF entry_at, L
<1>5. CASE ~(i <= L)
  <2>1. i - L \in 1..Len(t)
    BY <1>2, <1>3, <1>5
  <2> QED BY <1>2, <1>3, <1>5, <2>1 DEF entry_at, L
<1> QED BY <1>4, <1>5

LEMMA LiteralTyped ==
  ASSUME NEW t \in Headers, NEW r \in Reps, NEW i \in Nat
  PROVE  literal_field(t, r, i) \in Field \cup {Err}
<1>1. read_string(r.name) \in Texts \cup {Err} /\ read_string(r.value) \in Texts \cup {Err}
  BY ReadStringTyped DEF Reps
<1> DEFINE name == IF i = 0 THEN read_string(r.name)
                   ELSE IF i \in indices(t) THEN entry_at(t, i).name ELSE Err
           value == read_string(r.value)
<1>2. name \in Texts \cup {Err}
  <2>1. i \in indices(t) => entry_at(t, i).name \in Texts
    BY EntryTyped DEF Field
  <2> QED BY <1>1, <2>1
<1>3. literal_field(t, r, i) = IF name = Err \/ value = Err THEN Err ELSE [name |-> name, value |-> value]
  BY Zenon DEF literal_field
<1> HIDE DEF name, value
<1> QED BY <1>1, <1>2, <1>3 DEF Field, value

\* One turn, by the kind of the representation.
LEMMA TurnOver ==
  ASSUME NEW s, s.error, NEW r
  PROVE  decode_one(s, r) = s
BY Zenon DEF decode_one

LEMMA TurnFails ==
  ASSUME NEW s, ~s.error, NEW r, Number(r) = Err
  PROVE  decode_one(s, r) = Fail(s)
BY Zenon DEF decode_one, Number, Fail

Turn(s, r, i) ==
    CASE r.kind = "indexed" ->
            IF i \in indices(s.d.dynamic)
            THEN [s EXCEPT !.headers = Append(@, entry_at(s.d.dynamic, i))] ELSE Fail(s)
      [] r.kind = "resize" ->
            IF i <= s.d.protocol_max THEN [s EXCEPT !.d = apply_max_size(@, i)] ELSE Fail(s)
      [] OTHER ->
            IF literal_field(s.d.dynamic, r, i) = Err THEN Fail(s)
            ELSE [s EXCEPT !.headers = Append(@, literal_field(s.d.dynamic, r, i)),
                           !.d = IF r.kind = "incremental"
                                 THEN insert(@, literal_field(s.d.dynamic, r, i)) ELSE @]

LEMMA TurnIs ==
  ASSUME NEW s, ~s.error, NEW r, Number(r) # Err
  PROVE  decode_one(s, r) = Turn(s, r, Number(r))
BY Zenon DEF decode_one, Turn, Number, Fail

LEMMA TurnIndexed ==
  ASSUME NEW s, ~s.error, NEW r, Number(r) # Err, r.kind = "indexed"
  PROVE  decode_one(s, r) = IF Number(r) \in indices(s.d.dynamic)
                            THEN [s EXCEPT !.headers = Append(@, entry_at(s.d.dynamic, Number(r)))]
                            ELSE Fail(s)
BY TurnIs DEF Turn

LEMMA TurnResize ==
  ASSUME NEW s, ~s.error, NEW r, Number(r) # Err, r.kind = "resize"
  PROVE  decode_one(s, r) = IF Number(r) <= s.d.protocol_max
                            THEN [s EXCEPT !.d = apply_max_size(@, Number(r))] ELSE Fail(s)
BY TurnIs DEF Turn

LEMMA TurnLiteral ==
  ASSUME NEW s, ~s.error, NEW r, Number(r) # Err, r.kind \in {"literal", "incremental"}
  PROVE  decode_one(s, r) =
            IF literal_field(s.d.dynamic, r, Number(r)) = Err THEN Fail(s)
            ELSE [s EXCEPT !.headers = Append(@, literal_field(s.d.dynamic, r, Number(r))),
                           !.d = IF r.kind = "incremental"
                                 THEN insert(@, literal_field(s.d.dynamic, r, Number(r))) ELSE @]
<1>2. r.kind # "indexed" /\ r.kind # "resize"
  OBVIOUS
<1> QED BY <1>2, TurnIs DEF Turn

LEMMA HeadersGrow ==
  ASSUME NEW h \in Headers, NEW f \in Field
  PROVE  Append(h, f) \in Headers
BY DEF Headers, Field

\* What one turn may change.
Grows(s, u, r) ==
    /\ u \in Reading /\ u.d.protocol_max = s.d.protocol_max
    /\ s.error => u = s
    /\ Len(u.d.dynamic) <= Len(s.d.dynamic) + 1
    /\ (r.kind # "incremental" \/ u.error) => Len(u.d.dynamic) <= Len(s.d.dynamic)

LEMMA TurnTyped ==
  ASSUME NEW s \in Reading, NEW r \in Reps
  PROVE  Grows(s, decode_one(s, r), r)
<1>1. s \in [d : Decoders, headers : Headers, error : BOOLEAN] /\ Sound(s.d) /\ s.d \in Decoders
      /\ s.headers \in Headers /\ s.d.dynamic \in Headers /\ s.d.max_size \in Nat
  BY DEF Reading, Decoders
<1>2. Len(s.d.dynamic) \in Nat
  BY <1>1, HeadersAre
<1>3. Number(r) \in Nat \cup {Err} /\ r.kind \in Kinds
  BY NumberTyped DEF Reps
<1>4. CASE s.error
  BY <1>2, <1>4, TurnOver DEF Grows
<1>5. Grows(s, Fail(s), r) \/ s.error
  <2> DEFINE u == Fail(s)
  <2>1. u \in [d : Decoders, headers : Headers, error : BOOLEAN] /\ u.d = s.d
    BY <1>1 DEF Fail
  <2> HIDE DEF u
  <2>2. u \in Reading
    BY <1>1, <2>1 DEF Reading
  <2>3. Grows(s, u, r) \/ s.error
    BY <1>2, <2>1, <2>2 DEF Grows
  <2> QED BY <2>3 DEF u
<1>6. CASE ~s.error /\ Number(r) = Err
  BY <1>5, <1>6, TurnFails
<1>7. CASE ~s.error /\ Number(r) # Err /\ r.kind = "indexed"
  <2> DEFINE f == entry_at(s.d.dynamic, Number(r))
  <2>1. Number(r) \in indices(s.d.dynamic) => f \in Field
    BY <1>1, EntryTyped
  <2> HIDE DEF f
  <2>2. Number(r) \in indices(s.d.dynamic) => Grows(s, [s EXCEPT !.headers = Append(@, f)], r)
    <3> SUFFICES ASSUME f \in Field PROVE Grows(s, [s EXCEPT !.headers = Append(@, f)], r)
      BY <2>1
    <3>1. Append(s.headers, f) \in Headers
      BY <1>1, HeadersGrow
    <3> DEFINE u == [s EXCEPT !.headers = Append(@, f)]
    <3>2. u \in [d : Decoders, headers : Headers, error : BOOLEAN] /\ u.d = s.d
      BY <1>1, <3>1
    <3> HIDE DEF u
    <3>3. u \in Reading
      BY <1>1, <3>2 DEF Reading
    <3>4. Grows(s, u, r)
      BY <1>2, <1>7, <3>2, <3>3 DEF Grows
    <3> QED BY <3>4 DEF u
  <2>3. decode_one(s, r) = IF Number(r) \in indices(s.d.dynamic)
                           THEN [s EXCEPT !.headers = Append(@, f)] ELSE Fail(s)
    BY <1>7, TurnIndexed DEF f
  <2> QED BY <1>5, <1>7, <2>2, <2>3
<1>8. CASE ~s.error /\ Number(r) # Err /\ r.kind = "resize"
  <2> DEFINE n == Number(r)
             u == apply_max_size(s.d, n)
             t == fit(s.d.dynamic, n)
  <2>1. n \in Nat
    BY <1>3, <1>8
  <2> HIDE DEF n
  <2>2. n <= s.d.protocol_max => Grows(s, [s EXCEPT !.d = u], r)
    <3> SUFFICES ASSUME n <= s.d.protocol_max PROVE Grows(s, [s EXCEPT !.d = u], r)
      OBVIOUS
    <3>1. u = [WithTable(s.d, t) EXCEPT !.max_size = n] /\ Sound(u)
      BY <1>1, <2>1, ResizeFits
    <3>2. t \in Headers /\ Len(t) <= Len(s.d.dynamic)
      BY <1>1, <2>1, FitTyped
    <3>3. Len(t) \in Nat
      BY <3>2, HeadersAre
    <3> HIDE DEF u, t
    <3>4. u.dynamic = t /\ u.protocol_max = s.d.protocol_max /\ u \in Decoders
      BY <1>1, <3>1 DEF WithTable, Decoders, Sound, Counted
    <3> DEFINE v == [s EXCEPT !.d = u]
    <3>5. v \in [d : Decoders, headers : Headers, error : BOOLEAN] /\ v.d = u
      BY <1>1, <3>4
    <3> HIDE DEF v
    <3>6. v \in Reading
      BY <3>1, <3>5 DEF Reading
    <3>7. Grows(s, v, r)
      BY <1>2, <1>8, <3>2, <3>3, <3>4, <3>5, <3>6 DEF Grows
    <3> QED BY <3>7 DEF v
  <2>3. decode_one(s, r) = IF n <= s.d.protocol_max THEN [s EXCEPT !.d = u] ELSE Fail(s)
    BY <1>8, TurnResize DEF n
  <2> QED BY <1>5, <1>8, <2>2, <2>3
<1>9. CASE ~s.error /\ Number(r) # Err /\ r.kind \in {"literal", "incremental"}
  <2> DEFINE f == literal_field(s.d.dynamic, r, Number(r))
             d == IF r.kind = "incremental" THEN insert(s.d, f) ELSE s.d
             u == [s EXCEPT !.headers = Append(@, f), !.d = d]
  <2>1. f \in Field \cup {Err}
    BY <1>1, <1>3, <1>9, LiteralTyped
  <2>2. decode_one(s, r) = IF f = Err THEN Fail(s) ELSE u
    BY <1>9, TurnLiteral
  <2> HIDE DEF f
  <2>3. f # Err => Grows(s, u, r)
    <3> SUFFICES ASSUME f \in Field PROVE Grows(s, u, r)
      BY <2>1
    <3>1. Append(s.headers, f) \in Headers
      BY <1>1, HeadersGrow
    <3> DEFINE t == fit(<<f>> \o s.d.dynamic, s.d.max_size)
    <3>2. insert(s.d, f) = WithTable(s.d, t) /\ Sound(insert(s.d, f))
      BY <1>1, InsertFits
    <3>3. <<f>> \o s.d.dynamic \in Headers /\ Len(<<f>> \o s.d.dynamic) = Len(s.d.dynamic) + 1
      BY <1>1, FrontOfMore
    <3>4. t \in Headers /\ Len(t) <= Len(s.d.dynamic) + 1
      BY <1>1, <3>3, FitTyped
    <3>5. Len(t) \in Nat
      BY <3>4, HeadersAre
    <3> HIDE DEF t
    <3>6. WithTable(s.d, t).dynamic = t /\ WithTable(s.d, t).protocol_max = s.d.protocol_max
      BY <1>1 DEF WithTable, Decoders
    <3>7. d \in Decoders /\ Sound(d) /\ d.protocol_max = s.d.protocol_max /\ Len(d.dynamic) <= Len(s.d.dynamic) + 1
          /\ (r.kind # "incremental" => Len(d.dynamic) <= Len(s.d.dynamic))
      BY <1>1, <1>2, <3>2, <3>4, <3>5, <3>6 DEF Sound, Counted
    <3> HIDE DEF d
    <3>8. u.d = d /\ u.error = s.error /\ u \in Reading
      BY <1>1, <3>1, <3>7 DEF Reading
    <3> QED BY <1>9, <3>7, <3>8 DEF Grows
  <2> QED BY <1>5, <1>9, <2>2, <2>3
<1> QED BY <1>3, <1>4, <1>6, <1>7, <1>8, <1>9 DEF Kinds

-----------------------------------------------------------------------------
(* Integers that no encoder may send *)

LEMMA RaisedTyped ==
  ASSUME NEW o \in Ints
  PROVE  Raised(o) \in Ints
<1>1. o \in Seq(Nat) /\ Len(o) > 0
  BY DEF Ints
<1> QED BY <1>1, RaisedIs DEF Ints

LEMMA LengthenTyped ==
  ASSUME NEW o \in Ints, NEW k \in Nat
  PROVE  lengthen(o, k) \in Ints
<1>1. Raised(o) \in Seq(Nat) /\ Len(Raised(o)) > 0
  BY RaisedTyped DEF Ints
<1>2. Zeros(k) \in Seq(Nat) /\ Len(Zeros(k)) \in Nat
  BY GroupIs DEF Zeros
<1>3. Raised(o) \o Zeros(k) \in Ints
  <2> DEFINE a == Raised(o)
             b == Zeros(k)
  <2> HIDE DEF a, b
  <2>1. a \o b \in Seq(Nat) /\ Len(a \o b) = Len(a) + Len(b) /\ Len(a) \in Nat
    BY <1>1, <1>2, ConcatProperties DEF a, b
  <2>2. Len(a \o b) > 0
    BY <1>1, <1>2, <2>1 DEF a, b
  <2> QED BY <2>1, <2>2 DEF Ints, a, b
<1>4. lengthen(o, k) \in {o, Raised(o) \o Zeros(k)}
  BY DEF lengthen, Raised, Zeros
<1> QED BY <1>3, <1>4

\* The octets of a readable number.
LEMMA WriteSplits ==
  ASSUME NEW value \in Nat, NEW bits \in 1..WORD_BITS, Readable(value)
  PROVE  \/ write_integer(value, bits) = <<value>>
         \/ \E g : write_integer(value, bits) = <<2^bits - 1>> \o g /\ Terminated(g) /\ Len(g) <= MAX_GROUPS
<1> DEFINE max == 2^bits - 1
           rest == value - max
<1>1. max \in Nat
  BY PrefixIs
<1>2. write_integer(value, bits) = IF value < max THEN <<value>> ELSE <<max>> \o groups(rest)
  BY DEF write_integer
<1>3. CASE ~(value < max)
  <2>1. rest \in Nat /\ rest < Weight(MAX_GROUPS)
    <3>1. Weight(MAX_GROUPS) \in Nat /\ value < Weight(MAX_GROUPS)
      BY WeightIs, Widths DEF Readable, Weight
    <3> HIDE DEF max
    <3> QED BY <1>1, <1>3, <3>1
  <2>2. Terminated(groups(rest)) /\ Len(groups(rest)) <= MAX_GROUPS
    BY <2>1, GroupsTerminated, FewGroups
  <2> HIDE DEF rest
  <2> QED BY <1>2, <1>3, <2>2
<1> QED BY <1>2, <1>3

LEMMA NeverEnds ==
  ASSUME NEW x \in Nat, NEW u \in Seq(Nat), \A i \in 1..Len(u) : u[i] >= GROUP, NEW bits \in 1..WORD_BITS
  PROVE  read_integer(<<x>> \o u, bits) = IF x < 2^bits - 1 THEN x ELSE Err
<1> DEFINE c == <<x>> \o u
<1>1. c \in Seq(Nat) /\ Len(c) > 0 /\ c[1] = x /\ Tail(c) = u
  OBVIOUS
<1>2. {k \in DOMAIN u : u[k] < GROUP} = {}
  <2>1. DOMAIN u = 1..Len(u) /\ \A i \in 1..Len(u) : u[i] \in Nat
    OBVIOUS
  <2> QED BY <2>1, GroupIs
<1> HIDE DEF c
<1>3. PICK v : Reads(v, c, bits)
  BY <1>1, ReadIs
<1>4. read_integer(c, bits) = IF x < 2^bits - 1 THEN x ELSE Err
  BY <1>1, <1>2, <1>3, Zenon DEF Reads
<1> QED BY <1>4 DEF c

\* An integer whose last octet is missing is refused, if it has continuation octets.
LEMMA CutRefused ==
  ASSUME NEW value \in Nat, NEW bits \in 1..WORD_BITS, Readable(value), Len(write_integer(value, bits)) > 1
  PROVE  /\ Front(write_integer(value, bits)) \in Ints
         /\ read_integer(Front(write_integer(value, bits)), bits) = Err
<1> DEFINE max == 2^bits - 1
           o == write_integer(value, bits)
           c == Front(o)
<1>1. max \in Nat /\ GROUP \in Nat
  BY PrefixIs, GroupIs
<1>2. o # <<value>>
  <2> SUFFICES ASSUME o = <<value>> PROVE FALSE
    OBVIOUS
  <2>1. Len(o) = 1 /\ Len(o) > 1
    OBVIOUS
  <2> HIDE DEF o
  <2> QED BY <2>1
<1>3. PICK g : o = <<max>> \o g /\ Terminated(g)
  BY <1>2, WriteSplits
<1> DEFINE N == Len(g)
           u == Front(g)
<1>4. g \in Seq(Nat) /\ N > 0 /\ N \in Nat /\ \A i \in 1..N - 1 : g[i] >= GROUP
  BY <1>3 DEF Terminated
<1>5. o \in Seq(Nat) /\ Len(o) = N + 1 /\ o[1] = max /\ \A i \in 2..N + 1 : o[i] = g[i - 1]
  BY <1>1, <1>3, <1>4, Prepended
<1> HIDE DEF o, max, N
<1>6. u \in Seq(Nat) /\ Len(u) = N - 1 /\ \A i \in 1..N - 1 : u[i] = g[i]
  <2>1. N - 1 \in Nat /\ N - 1 <= Len(g) /\ g \in Seq(Nat)
    BY <1>4 DEF N
  <2>2. SubSeq(g, 1, N - 1) \in Seq(Nat) /\ Len(SubSeq(g, 1, N - 1)) = N - 1
        /\ \A i \in 1..N - 1 : SubSeq(g, 1, N - 1)[i] = g[i]
    BY <2>1
  <2> QED BY <2>2 DEF Front, N
<1>7. c \in Seq(Nat) /\ Len(c) = N /\ \A i \in 1..N : c[i] = o[i]
  <2>1. N \in 0..Len(o) /\ Len(o) - 1 = N
    BY <1>4, <1>5
  <2> QED BY <1>5, <2>1 DEF Front
<1> HIDE DEF c, u
<1> DEFINE v == <<max>> \o u
<1>8. v \in Seq(Nat) /\ Len(v) = Len(u) + 1 /\ v[1] = max /\ \A i \in 2..Len(u) + 1 : v[i] = u[i - 1]
  BY <1>1, <1>6, Prepended
<1> HIDE DEF v
<1>9. \A i \in 1..N : c[i] = v[i]
  <2> TAKE i \in 1..N
  <2>1. CASE i = 1
    BY <1>4, <1>5, <1>7, <1>8, <2>1
  <2>2. CASE i # 1
    <3>1. i \in 2..N + 1 /\ i \in 2..Len(u) + 1 /\ i - 1 \in 1..N - 1
      BY <1>4, <1>6, <2>2
    <3> QED BY <1>5, <1>6, <1>7, <1>8, <3>1
  <2> QED BY <2>1, <2>2
<1>10. c = v
  <2>1. Len(c) = Len(v)
    BY <1>4, <1>6, <1>7, <1>8
  <2> QED BY <1>7, <1>8, <1>9, <2>1, SeqEqual
<1>11. \A i \in 1..Len(u) : u[i] >= GROUP
  BY <1>4, <1>6
<1>12. read_integer(v, bits) = Err
  <2>1. read_integer(v, bits) = IF max < 2^bits - 1 THEN max ELSE Err
    BY <1>1, <1>6, <1>11, NeverEnds DEF v
  <2>2. ~(max < max)
    BY <1>1
  <2> QED BY <2>1, <2>2 DEF max
<1>13. c \in Ints
  BY <1>4, <1>7 DEF Ints
<1> QED BY <1>10, <1>12, <1>13 DEF c, o

\* An integer with more octets than read_integer accepts is refused.
LEMMA LongRefused ==
  ASSUME NEW value \in Nat, NEW bits \in 1..WORD_BITS, Readable(value)
  PROVE  /\ MAX_GROUPS + 2 - Len(write_integer(value, bits)) \in Nat
         /\ Len(write_integer(value, bits)) > 1 =>
               read_integer(lengthen(write_integer(value, bits), MAX_GROUPS + 2 - Len(write_integer(value, bits))), bits) = Err
<1> DEFINE max == 2^bits - 1
           o == write_integer(value, bits)
           k == MAX_GROUPS + 2 - Len(o)
<1>1. max \in Nat /\ MAX_GROUPS \in Nat /\ MAX_GROUPS > 0
  BY PrefixIs, Widths
<1>3. CASE o = <<value>>
  <2>1. Len(o) = 1
    BY <1>3
  <2> HIDE DEF o
  <2> QED BY <1>1, <2>1 DEF o
<1>4. ASSUME NEW g, o = <<max>> \o g, Terminated(g), Len(g) <= MAX_GROUPS
      PROVE  k \in Nat /\ read_integer(lengthen(o, k), bits) = Err
  <2>1. g \in Seq(Nat) /\ Len(g) > 0 /\ Len(g) \in Nat
    BY <1>4 DEF Terminated
  <2>2. Len(o) = Len(g) + 1
    BY <1>1, <1>4, <2>1, Prepended
  <2> HIDE DEF o, max
  <2>3. k \in Nat /\ k > 0 /\ Len(g) + k = MAX_GROUPS + 1 /\ Len(o) # 1
    BY <1>1, <1>4, <2>1, <2>2
  <2> HIDE DEF k
  <2> DEFINE r == Raised(g) \o Zeros(k)
  <2>4. lengthen(o, k) = Raised(o) \o Zeros(k)
    BY <2>3 DEF lengthen, Raised, Zeros
  <2>5. Raised(o) = <<max>> \o Raised(g)
    BY <1>1, <1>4, <2>1, RaisedCons
  <2>6. Raised(g) \in Seq(Nat) /\ Zeros(k) \in Seq(Nat) /\ <<max>> \in Seq(Nat)
    BY <1>1, <2>1, <2>3, RaisedIs, GroupIs DEF Zeros
  <2>7. lengthen(o, k) = <<max>> \o r
    BY <2>4, <2>5, <2>6, ConcatAssociative
  <2>8. Terminated(r) /\ Len(r) = Len(g) + k
    BY <1>4, <2>3, Lengthened, Zenon
  <2> HIDE DEF r
  <2>9. Len(r) > MAX_GROUPS
    BY <1>1, <2>3, <2>8
  <2>10. PICK v : read_integer(<<2^bits - 1>> \o r, bits) = IF Len(r) > MAX_GROUPS THEN Err ELSE v[Len(r)]
    BY <2>8, ReadTerminated
  <2> QED BY <2>3, <2>7, <2>9, <2>10 DEF max
<1> QED BY <1>3, <1>4, WriteSplits

-----------------------------------------------------------------------------
(* Header blocks *)

\* q[n] is what decode has after n representations.
Turns(q, d, reps) ==
    /\ q \in [0..Len(reps) -> Reading] /\ q[0] = Start(d)
    /\ \A n \in 1..Len(reps) : q[n] = decode_one(q[n - 1], reps[n])
    /\ decode(d, reps) = q[Len(reps)]

LEMMA StartTyped ==
  ASSUME NEW d, Sound(d)
  PROVE  Start(d) \in Reading
<1>1. d \in Decoders /\ <<>> \in Headers
  BY EmptySized DEF Sound, Counted
<1>2. Start(d) \in [d : Decoders, headers : Headers, error : BOOLEAN] /\ Start(d).d = d
  BY <1>1 DEF Start
<1> QED BY <1>2 DEF Reading

LEMMA DecodeTurns ==
  ASSUME NEW d, Sound(d), NEW reps \in Seq(Reps)
  PROVE  \E q : Turns(q, d, reps)
<1> DEFINE N == Len(reps)
           S == Reading
           base == Start(d)
           next(s, n) == decode_one(s, reps[n])
           step == [p \in S \X (1..N) |-> next(p[1], p[2])]
           Is(f) == f = [n \in 0..N |-> IF n = 0 THEN base ELSE next(f[n - 1], n)]
           q == CHOOSE f : Is(f)
<1>1. N \in Nat /\ \A n \in 1..N : reps[n] \in Reps
  OBVIOUS
<1>2. base \in S
  BY StartTyped
<1>3. \A s \in S, n \in 1..N : next(s, n) \in S
  BY <1>1, TurnTyped DEF Grows
<1>4. decode(d, reps) = q[N]
  BY Zenon DEF decode, Start
<1> HIDE DEF next, S, base
<1>5. PICK f : Iterates(f, S, N, base, step)
  <2>1. step \in [S \X (1..N) -> S]
    BY <1>3
  <2> HIDE DEF step, N
  <2> QED BY <1>1, <1>2, <2>1, IterateExists
<1>6. f \in [0..N -> S] /\ f[0] = base
  BY <1>5 DEF Iterates
<1>7. \A n \in 1..N : f[n] = next(f[n - 1], n)
  <2> HIDE DEF N
  <2> TAKE n \in 1..N
  <2>1. n - 1 \in 0..N
    BY <1>1
  <2>2. <<f[n - 1], n>> \in S \X (1..N)
    BY <1>6, <2>1
  <2>3. f[n] = step[<<f[n - 1], n>>]
    BY <1>5 DEF Iterates
  <2> QED BY <2>2, <2>3
<1>8. Is(f)
  <2> HIDE DEF step, N
  <2> QED BY <1>1, <1>6, <1>7
<1>9. Is(q)
  BY <1>8
<1> HIDE DEF q, N
<1>10. q[0] = base /\ q = [n \in 0..N |-> q[n]] /\ \A n \in 1..N : q[n] = next(q[n - 1], n)
  <2>1. q = [n \in 0..N |-> IF n = 0 THEN base ELSE next(q[n - 1], n)]
    BY <1>9
  <2>2. q[0] = base
    BY <1>1, <2>1
  <2>3. \A n \in 1..N : q[n] = next(q[n - 1], n)
    BY <1>1, <2>1
  <2>4. q = [n \in 0..N |-> q[n]]
    BY <2>1
  <2> QED BY <2>2, <2>3, <2>4
<1> DEFINE G == {n \in 0..N : q[n] \in S}
<1>11. \A n \in 0..N : q[n] \in S
  <2>1. 0 \in G
    BY <1>1, <1>2, <1>10
  <2>2. ASSUME NEW n \in 0..N, n + 1 \in 0..N, n \in G PROVE n + 1 \in G
    <3>1. n + 1 \in 1..N /\ (n + 1) - 1 = n
      BY <1>1, <2>2
    <3> QED BY <1>3, <1>10, <2>2, <3>1
  <2>3. \A n \in 0..N : n \in G
    <3> HIDE DEF G
    <3> QED BY <1>1, <2>1, <2>2, UpTo
  <2> QED BY <2>3
<1>12. q \in [0..N -> S]
  BY <1>10, <1>11
<1>13. Turns(q, d, reps)
  BY <1>4, <1>10, <1>12 DEF Turns, N, S, base, next
<1> QED BY <1>13

LEMMA DecodeTyped ==
  ASSUME NEW d, Sound(d), NEW reps \in Seq(Reps)
  PROVE  decode(d, reps) \in Reading
<1>1. PICK q : Turns(q, d, reps)
  BY DecodeTurns
<1>2. Len(reps) \in 0..Len(reps)
  OBVIOUS
<1> QED BY <1>1, <1>2 DEF Turns

\* The limit is never changed.
LEMMA DecodeKeeps ==
  ASSUME NEW d, Sound(d), NEW reps \in Seq(Reps)
  PROVE  decode(d, reps).d.protocol_max = d.protocol_max
<1> DEFINE N == Len(reps)
<1>1. N \in Nat /\ \A n \in 1..N : reps[n] \in Reps
  OBVIOUS
<1>2. PICK q : Turns(q, d, reps)
  BY DecodeTurns
<1> DEFINE G == {n \in 0..N : q[n].d.protocol_max = d.protocol_max}
<1>3. q \in [0..N -> Reading] /\ q[0] = Start(d) /\ decode(d, reps) = q[N]
  BY <1>2 DEF Turns
<1>4. \A n \in 1..N : q[n] = decode_one(q[n - 1], reps[n])
  BY <1>2 DEF Turns
<1> HIDE DEF N
<1>5. 0 \in G
  BY <1>1, <1>3 DEF Start
<1>6. ASSUME NEW n \in 0..N, n + 1 \in 0..N, n \in G PROVE n + 1 \in G
  <2>1. n + 1 \in 1..N /\ (n + 1) - 1 = n
    BY <1>1, <1>6
  <2>2. q[n + 1] = decode_one(q[n], reps[n + 1]) /\ q[n] \in Reading /\ reps[n + 1] \in Reps
    BY <1>1, <1>3, <1>4, <2>1
  <2>3. q[n + 1].d.protocol_max = q[n].d.protocol_max
    BY <2>2, TurnTyped DEF Grows
  <2> QED BY <1>6, <2>3
<1>7. N \in G
  <2>1. \A n \in 0..N : n \in G
    <3> HIDE DEF G
    <3> QED BY <1>1, <1>5, <1>6, UpTo
  <2> QED BY <1>1, <2>1
<1> QED BY <1>3, <1>7

LEMMA DecodeNothing ==
  ASSUME NEW d, Sound(d)
  PROVE  decode(d, <<>>) = Start(d)
<1>1. <<>> \in Seq(Reps) /\ Len(<<>>) = 0
  OBVIOUS
<1>2. PICK q : Turns(q, d, <<>>)
  BY <1>1, DecodeTurns
<1> QED BY <1>1, <1>2 DEF Turns

\* One more representation is one more turn.
LEMMA DecodeOneMore ==
  ASSUME NEW d, Sound(d), NEW reps \in Seq(Reps), NEW r \in Reps
  PROVE  decode(d, Append(reps, r)) = decode_one(decode(d, reps), r)
<1> DEFINE N == Len(reps)
           more == Append(reps, r)
<1>1. N \in Nat /\ more \in Seq(Reps) /\ Len(more) = N + 1 /\ more[N + 1] = r /\ \A n \in 1..N : more[n] = reps[n]
  OBVIOUS
<1> HIDE DEF more
<1>2. PICK q : Turns(q, d, reps)
  BY DecodeTurns
<1>3. PICK p : Turns(p, d, more)
  BY <1>1, DecodeTurns
<1> DEFINE next(s, x) == decode_one(s, x)
           G == {n \in 0..N : p[n] = q[n]}
<1>4. q[0] = Start(d) /\ p[0] = Start(d) /\ decode(d, reps) = q[N] /\ decode(d, more) = p[N + 1]
  BY <1>1, <1>2, <1>3 DEF Turns
<1>5. \A n \in 1..N : q[n] = next(q[n - 1], reps[n])
  BY <1>2 DEF Turns
<1>6. \A n \in 1..N + 1 : p[n] = next(p[n - 1], more[n])
  BY <1>1, <1>3 DEF Turns
<1> HIDE DEF N, next
<1>7. 0 \in G
  BY <1>1, <1>4
<1>8. ASSUME NEW n \in 0..N, n + 1 \in 0..N, n \in G PROVE n + 1 \in G
  <2>1. n + 1 \in 1..N /\ n + 1 \in 1..N + 1 /\ (n + 1) - 1 = n
    BY <1>1, <1>8
  <2>2. q[n + 1] = next(q[n], reps[n + 1])
    BY <1>5, <2>1
  <2>3. p[n + 1] = next(p[n], reps[n + 1])
    BY <1>1, <1>6, <2>1
  <2> QED BY <1>8, <2>2, <2>3
<1>9. \A n \in 0..N : n \in G
  <2> HIDE DEF G
  <2> QED BY <1>1, <1>7, <1>8, UpTo
<1>10. p[N] = q[N] /\ N + 1 \in 1..N + 1 /\ (N + 1) - 1 = N
  BY <1>1, <1>9
<1>11. p[N + 1] = next(p[N], r)
  BY <1>1, <1>6, <1>10
<1> QED BY <1>4, <1>10, <1>11 DEF next, more

\* Representations as they are written.
LEMMA RepTyped ==
  ASSUME NEW kind \in Kinds, NEW i \in Nat
  PROVE  /\ Rep(kind, i) \in Reps /\ Rep(kind, i).kind = kind
         /\ Rep(kind, i).int = write_integer(i, PrefixBits[kind])
         /\ Rep(kind, i).name = NoString /\ Rep(kind, i).value = NoString
         /\ NoString \in Wire
<1>1. NoString \in Wire
  <2>1. <<>> \in Texts
    BY DEF Texts
  <2> QED BY <2>1, RawTyped DEF NoString
<1>2. write_integer(i, PrefixBits[kind]) \in Ints
  BY PrefixOf, WriteTyped DEF Ints
<1> QED BY <1>1, <1>2 DEF Rep, Reps

LEMMA IntReplaced ==
  ASSUME NEW r \in Reps, NEW o \in Ints
  PROVE  /\ [r EXCEPT !.int = o] \in Reps /\ [r EXCEPT !.int = o].kind = r.kind
         /\ [r EXCEPT !.int = o].int = o
BY DEF Reps

LEMMA LiteralRepTyped ==
  ASSUME NEW kind \in Kinds, NEW f \in Field, NEW i \in Nat
  PROVE  /\ LiteralRep(kind, f, i) \in Reps /\ LiteralRep(kind, f, i).kind = kind
         /\ LiteralRep(kind, f, i).int = write_integer(i, PrefixBits[kind])
         /\ LiteralRep(kind, f, i).value = raw_string(f.value)
         /\ i = 0 => LiteralRep(kind, f, i).name = raw_string(f.name)
<1>1. raw_string(f.value) \in Wire /\ raw_string(f.name) \in Wire
  BY RawTyped DEF Field
<1>2. Rep(kind, i) \in Reps /\ Rep(kind, i).kind = kind /\ Rep(kind, i).int = write_integer(i, PrefixBits[kind])
      /\ NoString \in Wire
  BY RepTyped
<1> QED BY <1>1, <1>2 DEF LiteralRep, Reps

\* The constants.
LEMMA Bounds ==
  /\ Len(STATIC_TABLE) \in Nat /\ STATIC_TABLE \in Headers /\ MaxInserts \in Nat
  /\ Readable(Len(STATIC_TABLE) + MaxInserts + 1)
  /\ Fields \subseteq Field /\ DEFAULT_TABLE_SIZE \in Nat
<1>1. STATIC_TABLE \in Headers /\ MaxInserts \in Nat /\ DEFAULT_TABLE_SIZE \in Nat
      /\ Fields \subseteq [name : Texts, value : Texts]
  BY HpackAssumption, Zenon
<1>2. Readable(Len(STATIC_TABLE) + MaxInserts + 1)
  BY RangeAssumption, Zenon
<1> QED BY <1>1, <1>2, HeadersAre DEF Field

\* An index behind both tables.
Beyond == Len(STATIC_TABLE) + MaxInserts + 1

LEMMA BeyondIs == Beyond \in Nat /\ Readable(Beyond) /\ Beyond > 0
BY Bounds DEF Beyond

\* Smaller numbers are readable too.
LEMMA ReadableBelow ==
  ASSUME NEW m \in Nat, Readable(m), NEW n \in Nat, n <= m
  PROVE  Readable(n)
<1>1. 2^WORD_BITS \in Nat /\ 2^(GROUP_BITS * MAX_GROUPS) \in Nat
  <2>1. WORD_BITS \in Exponents /\ GROUP_BITS * MAX_GROUPS \in Exponents
    BY Widths DEF Exponents
  <2> QED BY <2>1, PowerIs
<1> DEFINE a == 2^WORD_BITS
           b == 2^(GROUP_BITS * MAX_GROUPS)
<1>2. a \in Nat /\ b \in Nat /\ m < a /\ m < b
  BY <1>1 DEF Readable
<1> HIDE DEF a, b
<1>3. n < a /\ n < b
  BY <1>2
<1> QED BY <1>3 DEF Readable, a, b

\* How far a bad integer is beyond.
LEMMA ExcessIs ==
  ASSUME NEW e \in Excess
  PROVE  /\ e \in Nat /\ Readable(Beyond + e) /\ Readable(1 + e) /\ 1 + e \in Nat /\ 1 + e > 0
         /\ \A n \in TableSizes : Readable(n + 1 + e)
<1>1. e \in Nat
  BY HpackAssumption
<1>2. Readable(Beyond + e) /\ \A n \in TableSizes : Readable(n + 1 + e)
  BY RangeAssumption DEF Beyond
<1>3. Beyond + e \in Nat /\ 1 + e \in Nat /\ 1 + e <= Beyond + e /\ 1 + e > 0
  BY <1>1, BeyondIs
<1> QED BY <1>1, <1>2, <1>3, ReadableBelow

LEMMA SizeReadable ==
  ASSUME NEW n \in TableSizes
  PROVE  n \in Nat /\ Readable(n)
<1>1. n \in Nat
  BY SizesAre
<1>2. Readable(n + 1) /\ n + 1 \in Nat /\ n <= n + 1
  BY <1>1, RangeAssumption
<1> QED BY <1>1, <1>2, ReadableBelow

LEMMA HeldTyped ==
  ASSUME NEW s \in Reading
  PROVE  Len(s.d.dynamic) \in Nat
<1>1. s.d.dynamic \in Headers
  BY DEF Reading, Decoders
<1> QED BY <1>1, HeadersAre

\* The bad strings.
LEMMA BadStringIs ==
  ASSUME NEW w \in BadStrings
  PROVE  w \in Wire /\ read_string(w) = Err
<1>1. ASSUME NEW e \in Excess, w = [NoString EXCEPT !.length = write_integer(1 + e, STRING_PREFIX)]
      PROVE  w \in Wire /\ read_string(w) = Err
  <2>1. e \in Nat /\ Readable(1 + e) /\ 1 + e \in Nat /\ 1 + e > 0
    BY ExcessIs
  <2> DEFINE n == 1 + e
  <2>2. write_integer(n, STRING_PREFIX) \in Ints /\ read_integer(write_integer(n, STRING_PREFIX), STRING_PREFIX) = n
    BY <2>1, PrefixTyped, NumberRead
  <2>3. w.huffman = FALSE /\ w.length = write_integer(n, STRING_PREFIX) /\ w.octets = <<>>
        /\ w = [huffman |-> FALSE, length |-> write_integer(n, STRING_PREFIX), octets |-> <<>>]
    BY <1>1 DEF NoString, raw_string
  <2> HIDE DEF n
  <2>4. w \in Wire
    BY <2>2, <2>3 DEF Wire
  <2>5. remaining(w) = 0 /\ n > 0
    BY <2>1, <2>3 DEF remaining, n
  <2>6. read_string(w) = Err
    BY <2>2, <2>3, <2>5, Zenon DEF read_string
  <2> QED BY <2>4, <2>6
<1>2. ASSUME NEW bits \in BadData,
             w = [huffman |-> TRUE, length |-> write_integer(Len(bits) \div OCTET_BITS, STRING_PREFIX), octets |-> bits]
      PROVE  w \in Wire /\ read_string(w) = Err
  <2>1. bits \in Seq({0, 1}) /\ Means(bits) = {}
    BY BadDataAssumption
  <2>2. huffman_decode(bits) = Err
    BY <2>1, HuffmanExact
  <2>3. bits \in Seq(Nat) /\ Len(bits) \in Nat
    BY <2>1
  <2> DEFINE n == Len(bits) \div OCTET_BITS
  <2>4. n \in Nat
    <3>1. OCTET_BITS \in Nat /\ OCTET_BITS > 0
      BY Widths
    <3> QED BY <2>3, <3>1
  <2> HIDE DEF n
  <2>5. write_integer(n, STRING_PREFIX) \in Ints
    BY <2>4, PrefixTyped, WriteTyped DEF Ints
  <2>6. w \in Wire /\ w.huffman /\ w.octets = bits
    BY <1>2, <2>3, <2>5 DEF Wire, n
  <2>7. read_string(w) = Err
    BY <2>2, <2>6, Zenon DEF read_string
  <2> QED BY <2>6, <2>7
<1> QED BY <1>1, <1>2, Zenon DEF BadStrings

\* The ways to break the rules.
LEMMA BadIs ==
  ASSUME NEW r \in BadReps
  PROVE  \/ r = Rep("indexed", 0)
         \/ \E kind \in Kinds \ {"resize"}, e \in Excess :
                r = Rep(kind, Len(STATIC_TABLE) + Len(decode(decoder, block).d.dynamic) + 1 + e)
         \/ \E e \in Excess : r = Rep("resize", decoder.protocol_max + 1 + e)
         \/ \E c \in Continued : r = [c EXCEPT !.int = Front(@)]
         \/ \E c \in Continued : r = [c EXCEPT !.int = lengthen(@, MAX_GROUPS + 2 - Len(@))]
         \/ \E kind \in {"incremental", "literal"}, w \in BadStrings : r = [Rep(kind, 0) EXCEPT !.name = w]
         \/ \E kind \in {"incremental", "literal"}, w \in BadStrings : r = [Rep(kind, 0) EXCEPT !.value = w]
<1> DEFINE held == decode(decoder, block).d.dynamic
           A == {Rep("indexed", 0)}
           B == {Rep(kind, Len(STATIC_TABLE) + Len(held) + 1 + e) : kind \in Kinds \ {"resize"}, e \in Excess}
           C == {Rep("resize", decoder.protocol_max + 1 + e) : e \in Excess}
           D == {[c EXCEPT !.int = Front(@)] : c \in Continued}
           E == {[c EXCEPT !.int = lengthen(@, MAX_GROUPS + 2 - Len(@))] : c \in Continued}
           F == {[Rep(kind, 0) EXCEPT !.name = w] : kind \in {"incremental", "literal"}, w \in BadStrings}
           G == {[Rep(kind, 0) EXCEPT !.value = w] : kind \in {"incremental", "literal"}, w \in BadStrings}
<1>1. BadReps = A \cup B \cup C \cup D \cup E \cup F \cup G
  BY DEF BadReps
<1>2. r \in A \/ r \in B \/ r \in C \/ r \in D \/ r \in E \/ r \in F \/ r \in G
  <2> HIDE DEF A, B, C, D, E, F, G
  <2> QED BY <1>1
<1>3. CASE r \in A
  BY <1>3
<1>4. CASE r \in B
  BY <1>4
<1>5. CASE r \in C
  BY <1>5
<1>6. CASE r \in D
  BY <1>6
<1>7. CASE r \in E
  BY <1>7
<1>8. CASE r \in F
  BY <1>8
<1>9. CASE r \in G
  BY <1>9
<1> HIDE DEF A, B, C, D, E, F, G
<1> QED BY <1>2, <1>3, <1>4, <1>5, <1>6, <1>7, <1>8, <1>9

LEMMA ContinuedIs ==
  ASSUME decoder.protocol_max \in TableSizes, NEW c \in Continued
  PROVE  \E kind \in Kinds, i \in Nat : Readable(i) /\ c = Rep(kind, i) /\ Len(write_integer(i, PrefixBits[kind])) > 1
<1>1. Len(c.int) > 1
  BY Zenon DEF Continued
<1>2. (\E kind \in Kinds \ {"resize"} : c = Rep(kind, Len(STATIC_TABLE))) \/ c = Rep("resize", decoder.protocol_max)
  BY Zenon DEF Continued
<1>3. ASSUME NEW kind \in Kinds, NEW i \in Nat, Readable(i), c = Rep(kind, i)
      PROVE  Len(write_integer(i, PrefixBits[kind])) > 1
  <2>1. c.int = write_integer(i, PrefixBits[kind])
    BY <1>3, RepTyped
  <2> QED BY <1>1, <2>1
<1>4. Len(STATIC_TABLE) \in Nat /\ Readable(Len(STATIC_TABLE))
  <2>1. Len(STATIC_TABLE) <= Beyond /\ Len(STATIC_TABLE) \in Nat
    BY Bounds DEF Beyond
  <2> QED BY <2>1, BeyondIs, ReadableBelow
<1>5. decoder.protocol_max \in Nat /\ Readable(decoder.protocol_max) /\ "resize" \in Kinds
  BY SizeReadable DEF Kinds
<1>6. CASE \E kind \in Kinds \ {"resize"} : c = Rep(kind, Len(STATIC_TABLE))
  BY <1>3, <1>4, <1>6
<1>7. CASE c = Rep("resize", decoder.protocol_max)
  BY <1>3, <1>5, <1>7
<1> QED BY <1>2, <1>6, <1>7

\* Their integers with an octet less, or with too many.
LEMMA ContinuedBad ==
  ASSUME decoder.protocol_max \in TableSizes, NEW c \in Continued,
         NEW r, r \in {[c EXCEPT !.int = Front(@)], [c EXCEPT !.int = lengthen(@, MAX_GROUPS + 2 - Len(@))]}
  PROVE  r \in Reps /\ Number(r) = Err
<1>1. PICK kind \in Kinds, i \in Nat : Readable(i) /\ c = Rep(kind, i) /\ Len(write_integer(i, PrefixBits[kind])) > 1
  BY ContinuedIs
<1> DEFINE bits == PrefixBits[kind]
           o == write_integer(i, bits)
           k == MAX_GROUPS + 2 - Len(o)
<1>2. c \in Reps /\ c.kind = kind /\ c.int = o /\ o \in Ints /\ bits \in 1..WORD_BITS
  BY <1>1, RepTyped, PrefixOf DEF Reps
<1>3. Front(o) \in Ints /\ read_integer(Front(o), bits) = Err
  BY <1>1, <1>2, CutRefused
<1>4. k \in Nat /\ read_integer(lengthen(o, k), bits) = Err
  BY <1>1, <1>2, LongRefused
<1> HIDE DEF o, k
<1>5. lengthen(o, k) \in Ints
  BY <1>2, <1>4, LengthenTyped
<1> DEFINE x == IF r = [c EXCEPT !.int = Front(@)] THEN Front(o) ELSE lengthen(o, k)
<1>6. r = [c EXCEPT !.int = x] /\ x \in Ints /\ read_integer(x, bits) = Err
  BY <1>2, <1>3, <1>4, <1>5 DEF k
<1> HIDE DEF x, bits
<1>7. r \in Reps /\ r.kind = kind /\ r.int = x
  BY <1>2, <1>6, IntReplaced
<1> QED BY <1>6, <1>7 DEF Number, bits

\* A literal with a bad string.
LEMMA LiteralBad ==
  ASSUME NEW kind \in {"incremental", "literal"}, NEW w \in BadStrings,
         NEW r, r \in {[Rep(kind, 0) EXCEPT !.name = w], [Rep(kind, 0) EXCEPT !.value = w]}
  PROVE  /\ r \in Reps /\ r.kind = kind /\ Number(r) = 0
         /\ read_string(r.name) = Err \/ read_string(r.value) = Err
<1> DEFINE z == Rep(kind, 0)
<1>1. kind \in Kinds /\ 0 \in Nat
  BY DEF Kinds
<1>2. z \in Reps /\ z.kind = kind /\ z.int = write_integer(0, PrefixBits[kind])
  BY <1>1, RepTyped
<1>3. read_integer(write_integer(0, PrefixBits[kind]), PrefixBits[kind]) = 0
  BY <1>1, PrefixOf, BeyondIs, ReadableBelow, NumberRead
<1>4. w \in Wire /\ read_string(w) = Err
  BY BadStringIs
<1> HIDE DEF z
<1>5. r \in Reps /\ r.kind = z.kind /\ r.int = z.int /\ (r.name = w \/ r.value = w)
  BY <1>2, <1>4 DEF Reps, z
<1>6. Number(r) = 0
  BY <1>2, <1>3, <1>5 DEF Number
<1> QED BY <1>2, <1>4, <1>5, <1>6

LEMMA BadTyped ==
  ASSUME Sound(decoder), decoder.protocol_max \in TableSizes, block \in Seq(Reps), NEW r \in BadReps
  PROVE  r \in Reps
<1>1. "indexed" \in Kinds /\ "resize" \in Kinds /\ 0 \in Nat
  BY DEF Kinds
<1>2. ASSUME NEW e \in Excess
      PROVE  /\ decoder.protocol_max + 1 + e \in Nat
             /\ Len(STATIC_TABLE) + Len(decode(decoder, block).d.dynamic) + 1 + e \in Nat
  <2>1. decoder.protocol_max \in Nat /\ e \in Nat
    BY SizesAre, ExcessIs
  <2>2. Len(decode(decoder, block).d.dynamic) \in Nat
    BY DecodeTyped, HeldTyped
  <2> QED BY <2>1, <2>2, Bounds
<1>3. \A kind \in Kinds, i \in Nat : Rep(kind, i) \in Reps
  BY RepTyped
<1> QED BY <1>1, <1>2, <1>3, BadIs, ContinuedBad, LiteralBad

\* Integers wider than a word are representations too.
LEMMA WideTyped ==
  ASSUME NEW r \in WideReps
  PROVE  r \in Reps
<1>1. PICK kind \in Kinds, i \in {n \in {2^WORD_BITS + e : e \in Excess} : n < 2^(GROUP_BITS * MAX_GROUPS)} : r = Rep(kind, i)
  BY DEF WideReps
<1>2. PICK e \in Excess : i = 2^WORD_BITS + e
  OBVIOUS
<1>3. i \in Nat
  BY <1>2, WordIs, ExcessIs
<1> QED BY <1>1, <1>3, RepTyped

-----------------------------------------------------------------------------
(* The tables are bounded *)

Peers == [dynamic : Headers, max_size : Nat, owes : BOOLEAN, remiss : BOOLEAN, lossy : BOOLEAN, wraps : BOOLEAN]

\* The types, no integer of a block without octets, the decoder's table within its
\* size, and the peer's no longer than its insertions.
TableInv ==
    /\ peer \in Peers /\ Len(peer.dynamic) <= inserts
    /\ Sound(decoder) /\ decoder.protocol_max \in TableSizes
    /\ block \in Seq(Reps)
    /\ sent \in Headers /\ got \in Headers \cup {Err}
    /\ inserts \in 0..MaxInserts
    /\ valid \in BOOLEAN /\ failed \in BOOLEAN

LEMMA TableInvInit == Init => TableInv
<1> SUFFICES ASSUME Init PROVE TableInv
  OBVIOUS
<1>1. PICK n \in TableSizes :
        /\ decoder = new_decoder(n)
        /\ peer = [dynamic |-> <<>>, max_size |-> DEFAULT_TABLE_SIZE,
                   owes |-> n < DEFAULT_TABLE_SIZE, remiss |-> FALSE, lossy |-> FALSE, wraps |-> FALSE]
  BY Zenon DEF Init
<1>2. n \in Nat /\ DEFAULT_TABLE_SIZE \in Nat /\ MaxInserts \in Nat
  BY SizesAre, Bounds
<1>3. table_size(<<>>) = 0 /\ <<>> \in Headers
  BY EmptySized
<1>4. Sound(decoder) /\ decoder.protocol_max \in TableSizes
  BY <1>1, <1>2, <1>3 DEF new_decoder, Sound, Counted, Decoders
<1>5. peer \in Peers /\ peer.dynamic = <<>>
  BY <1>1, <1>2, <1>3 DEF Peers
<1>6. block = <<>> /\ sent = <<>> /\ got = Err /\ inserts = 0 /\ valid \in BOOLEAN /\ failed \in BOOLEAN
  BY Zenon DEF Init
<1> QED BY <1>2, <1>3, <1>4, <1>5, <1>6 DEF TableInv

\* A block grows by one representation, and nothing changes on the client's side.
LEMMA EmitTyped ==
  ASSUME TableInv, NEW r \in Reps, NEW f \in Field, Emit(r, f)
  PROVE  /\ Sound(decoder)' /\ block' \in Seq(Reps) /\ sent' \in Headers /\ got' \in Headers \cup {Err}
         /\ failed' \in BOOLEAN /\ decoder'.protocol_max \in TableSizes
<1>1. block' = Append(block, r) /\ sent' = Append(sent, f) /\ got' = Err /\ decoder' = decoder /\ failed' = failed
  BY DEF Emit, Building
<1>2. Sound(decoder)'
  BY <1>1 DEF TableInv, Sound, Counted
<1>3. sent' \in Headers
  BY <1>1, HeadersGrow DEF TableInv
<1> QED BY <1>1, <1>2, <1>3 DEF TableInv

\* The representation of an index, lengthened or not.
LEMMA IndexedTyped ==
  ASSUME NEW i \in Nat, NEW k \in Nat
  PROVE  /\ [Rep("indexed", i) EXCEPT !.int = lengthen(@, k)] \in Reps
         /\ [Rep("indexed", i) EXCEPT !.int = lengthen(@, k)].kind = "indexed"
         /\ [Rep("indexed", i) EXCEPT !.int = lengthen(@, k)].int = lengthen(write_integer(i, PrefixBits["indexed"]), k)
<1> DEFINE r == Rep("indexed", i)
           o == write_integer(i, PrefixBits["indexed"])
<1>1. "indexed" \in Kinds
  BY DEF Kinds
<1>2. r \in Reps /\ r.int = o /\ r.kind = "indexed" /\ o \in Ints
  BY <1>1, RepTyped DEF Reps
<1> HIDE DEF r, o
<1>3. lengthen(o, k) \in Ints
  BY <1>2, LengthenTyped
<1>4. [r EXCEPT !.int = lengthen(@, k)] = [r EXCEPT !.int = lengthen(o, k)]
  BY <1>2
<1> QED BY <1>2, <1>3, <1>4, IntReplaced DEF r, o

LEMMA TableInvNext == TableInv /\ [Next]_vars => TableInv'
<1> SUFFICES ASSUME TableInv, [Next]_vars PROVE TableInv'
  OBVIOUS
<1>1. peer.dynamic \in Headers /\ peer.max_size \in Nat /\ Len(peer.dynamic) \in Nat /\ inserts \in Nat /\ inserts <= MaxInserts
  BY Bounds, HeadersAre DEF TableInv, Peers
<1>2. ASSUME NEW i \in indices(peer.dynamic), PeerIndexed(i) PROVE TableInv'
  <2>1. PICK k \in Slack(Rep("indexed", i).int) :
          /\ Emit([Rep("indexed", i) EXCEPT !.int = lengthen(@, k)], entry_at(peer.dynamic, i))
          /\ peer' = [peer EXCEPT !.remiss = @ \/ peer.owes] /\ UNCHANGED <<inserts, valid>>
    BY <1>2 DEF PeerIndexed
  <2>2. k \in Nat
    BY DEF Slack
  <2>3. entry_at(peer.dynamic, i) \in Field /\ i \in Nat
    BY <1>1, EntryTyped
  <2> DEFINE r == [Rep("indexed", i) EXCEPT !.int = lengthen(@, k)]
  <2>4. r \in Reps
    BY <2>2, <2>3, IndexedTyped
  <2> HIDE DEF r
  <2>5. Emit(r, entry_at(peer.dynamic, i)) /\ inserts' = inserts /\ valid' = valid
    BY <2>1 DEF r
  <2>7. peer' \in Peers /\ peer'.dynamic = peer.dynamic
    BY <2>1 DEF TableInv, Peers
  <2>6. /\ Sound(decoder)' /\ block' \in Seq(Reps) /\ sent' \in Headers /\ got' \in Headers \cup {Err}
        /\ failed' \in BOOLEAN /\ decoder'.protocol_max \in TableSizes
    BY <2>3, <2>4, <2>5, EmitTyped
  <2> QED BY <2>5, <2>6, <2>7 DEF TableInv
<1>3. ASSUME NEW f \in Fields, NEW i \in {0} \cup indices(peer.dynamic), PeerLiteral(f, i) PROVE TableInv'
  <2>1. f \in Field /\ i \in Nat /\ "literal" \in Kinds
    BY <1>1, Bounds, EntryTyped DEF Kinds
  <2>2. LiteralRep("literal", f, i) \in Reps
    BY <2>1, LiteralRepTyped
  <2>3. Emit(LiteralRep("literal", f, i), f) /\ inserts' = inserts /\ valid' = valid
    BY <1>3 DEF PeerLiteral
  <2>5. peer' \in Peers /\ peer'.dynamic = peer.dynamic
    BY <1>3 DEF PeerLiteral, TableInv, Peers
  <2>4. /\ Sound(decoder)' /\ block' \in Seq(Reps) /\ sent' \in Headers /\ got' \in Headers \cup {Err}
        /\ failed' \in BOOLEAN /\ decoder'.protocol_max \in TableSizes
    BY <2>1, <2>2, <2>3, EmitTyped
  <2> QED BY <2>3, <2>4, <2>5 DEF TableInv
<1>4. ASSUME NEW f \in Fields, NEW i \in {0} \cup indices(peer.dynamic), PeerIncremental(f, i) PROVE TableInv'
  <2>1. f \in Field /\ i \in Nat /\ "incremental" \in Kinds
    BY <1>1, Bounds, EntryTyped DEF Kinds
  <2>2. LiteralRep("incremental", f, i) \in Reps
    BY <2>1, LiteralRepTyped
  <2> DEFINE t == fit(<<f>> \o peer.dynamic, peer.max_size)
             m == peer.remiss \/ peer.owes
             l == peer.lossy \/ converted(f) # f
  <2>3. /\ Emit(LiteralRep("incremental", f, i), f) /\ inserts' = inserts + 1 /\ valid' = valid /\ inserts < MaxInserts
        /\ peer' = [peer EXCEPT !.dynamic = t, !.remiss = m, !.lossy = l]
    BY <1>4 DEF PeerIncremental
  <2>4. /\ Sound(decoder)' /\ block' \in Seq(Reps) /\ sent' \in Headers /\ got' \in Headers \cup {Err}
        /\ failed' \in BOOLEAN /\ decoder'.protocol_max \in TableSizes
    BY <2>1, <2>2, <2>3, EmitTyped
  <2>5. <<f>> \o peer.dynamic \in Headers /\ Len(<<f>> \o peer.dynamic) = Len(peer.dynamic) + 1
    BY <1>1, <2>1, FrontOfMore
  <2>6. t \in Headers /\ Len(t) <= Len(peer.dynamic) + 1
    BY <1>1, <2>5, FitTyped
  <2>7. Len(t) \in Nat /\ l \in BOOLEAN /\ m \in BOOLEAN
    BY <2>6, HeadersAre
  <2> HIDE DEF t, l, m
  <2>8. peer' \in Peers /\ peer'.dynamic = t
    BY <2>3, <2>6, <2>7 DEF TableInv, Peers
  <2>9. Len(peer.dynamic) <= inserts /\ MaxInserts \in Nat
    BY Bounds DEF TableInv
  <2>10. inserts' \in 0..MaxInserts /\ Len(t) <= inserts'
    BY <1>1, <2>3, <2>6, <2>7, <2>9
  <2>11. valid' \in BOOLEAN
    BY <2>3 DEF TableInv
  <2> QED BY <2>4, <2>8, <2>10, <2>11 DEF TableInv
<1>5. ASSUME NEW n \in TableSizes, PeerResize(n) PROVE TableInv'
  <2> DEFINE t == fit(peer.dynamic, n)
  <2>1. /\ block' = Append(block, Rep("resize", n)) /\ sent' = sent /\ inserts' = inserts /\ valid' = valid
        /\ peer' = [peer EXCEPT !.dynamic = t, !.max_size = n, !.owes = FALSE]
        /\ got' = Err /\ decoder' = decoder /\ failed' = failed
    BY <1>5 DEF PeerResize, Building
  <2>2. n \in Nat /\ "resize" \in Kinds
    BY SizesAre DEF Kinds
  <2>3. t \in Headers /\ Len(t) <= Len(peer.dynamic)
    BY <1>1, <2>2, FitTyped
  <2>4. Len(t) \in Nat
    BY <2>3, HeadersAre
  <2> HIDE DEF t
  <2>5. peer' \in Peers /\ peer'.dynamic = t
    BY <2>1, <2>2, <2>3 DEF TableInv, Peers
  <2>6. Rep("resize", n) \in Reps
    BY <2>2, RepTyped
  <2>7. block' \in Seq(Reps)
    BY <2>1, <2>6 DEF TableInv
  <2>8. Sound(decoder)'
    BY <2>1 DEF TableInv, Sound, Counted
  <2>9. Len(t) <= inserts
    <3>1. Len(peer.dynamic) <= inserts
      BY DEF TableInv
    <3> QED BY <1>1, <2>3, <2>4, <3>1
  <2> QED BY <2>1, <2>5, <2>7, <2>8, <2>9 DEF TableInv
<1>6. ASSUME NEW r \in BadReps, PeerBad(r) PROVE TableInv'
  <2>1. /\ block' = Append(block, r) /\ valid' = FALSE /\ peer' = peer /\ sent' = sent /\ inserts' = inserts
        /\ got' = Err /\ decoder' = decoder /\ failed' = failed
    BY <1>6 DEF PeerBad, Misuse, Building
  <2>2. r \in Reps
    BY BadTyped DEF TableInv
  <2>3. block' \in Seq(Reps)
    BY <2>1, <2>2 DEF TableInv
  <2>4. Sound(decoder)'
    BY <2>1 DEF TableInv, Sound, Counted
  <2> QED BY <2>1, <2>3, <2>4 DEF TableInv
<1>6a. ASSUME NEW r \in WideReps, PeerWide(r) PROVE TableInv'
  <2>1. /\ block' = Append(block, r) /\ valid' = FALSE /\ sent' = sent /\ inserts' = inserts
        /\ got' = Err /\ decoder' = decoder /\ failed' = failed
    BY <1>6a DEF PeerWide, Misuse, Building
  <2>2. r \in Reps
    BY WideTyped
  <2>3. block' \in Seq(Reps)
    BY <2>1, <2>2 DEF TableInv
  <2>4. Sound(decoder)'
    BY <2>1 DEF TableInv, Sound, Counted
  <2>5. peer' \in Peers /\ peer'.dynamic = peer.dynamic
    BY <1>6a DEF PeerWide, TableInv, Peers
  <2> QED BY <2>1, <2>3, <2>4, <2>5 DEF TableInv
<1>7. ASSUME NEW known \in BOOLEAN, complete_header_block(known) PROVE TableInv'
  <2> DEFINE s == decode(decoder, block)
  <2>1. /\ decoder' = s.d /\ failed' = s.error /\ (got' = s.headers \/ got' = Err)
        /\ block' = <<>> /\ sent' = <<>> /\ peer' = peer /\ inserts' = inserts /\ valid' = valid
    BY <1>7, Zenon DEF complete_header_block
  <2>2. s \in Reading /\ s.d.protocol_max = decoder.protocol_max
    BY DecodeTyped, DecodeKeeps DEF TableInv
  <2> HIDE DEF s
  <2>3. Sound(s.d) /\ s.error \in BOOLEAN /\ s.headers \in Headers
    BY <2>2 DEF Reading
  <2>4. Sound(decoder)'
    BY <2>1, <2>3 DEF Sound, Counted
  <2>5. <<>> \in Headers /\ <<>> \in Seq(Reps)
    BY EmptySized
  <2> QED BY <2>1, <2>2, <2>3, <2>4, <2>5 DEF TableInv
<1>8. CASE UNCHANGED <<peer, decoder, block, sent, got, inserts, valid, failed>>
  <2>1. Sound(decoder)'
    BY <1>8 DEF TableInv, Sound, Counted
  <2> QED BY <1>8, <2>1 DEF TableInv
<1>9. ASSUME NEW bits \in HuffmanData, DecodeString(bits) PROVE TableInv'
  BY <1>8, <1>9 DEF DecodeString
<1>10. ASSUME NEW headers, EncodeRequest(headers) PROVE TableInv'
  BY <1>8, <1>10 DEF EncodeRequest
<1>11. CASE UNCHANGED vars
  BY <1>8, <1>11 DEF vars
<1>12. CASE Next
  BY <1>2, <1>3, <1>4, <1>5, <1>6, <1>6a, <1>7, <1>9, <1>10, <1>12, Zenon DEF Next, Peer
<1> QED BY <1>11, <1>12

LEMMA TableInvHolds == Spec => []TableInv
BY TableInvInit, TableInvNext, PTL DEF Spec

\* The decoder counts the octets of its table exactly, and they stay within the size the
\* peer chose and that within the size announced, for every sequence of insertions, size
\* updates, bad blocks and aborted decoding (insert, evict, apply_max_size, decode).
THEOREM TableBoundedHolds == Spec => []TableBounded
<1>1. TableInv => TableBounded
  <2> SUFFICES ASSUME TableInv PROVE TableBounded
    OBVIOUS
  <2>1. Ints \subseteq Seq(Nat) /\ Wire \subseteq Strings
    BY DEF Ints, Wire, Strings
  <2>2. Reps \subseteq [kind : Kinds, int : Seq(Nat), name : Strings, value : Strings]
    BY <2>1 DEF Reps
  <2>3. block \in Seq([kind : Kinds, int : Seq(Nat), name : Strings, value : Strings])
    BY <2>2, SeqMonotonic DEF TableInv
  <2>4. TypeOK
    BY <2>3 DEF TypeOK, TableInv, Peers, Sound, Counted, Decoders
  <2> QED BY <2>4 DEF TableBounded, TableInv, Sound, Counted
<1> QED BY <1>1, TableInvHolds, PTL

-----------------------------------------------------------------------------
(* Two tables in step *)

\* Every entry of p is in the same place in q.
Begins(p, q) == Len(p) <= Len(q) /\ \A i \in 1..Len(p) : p[i] = q[i]

\* Conversion leaves the entries as they are.
Clean(t) == \A i \in 1..Len(t) : converted(t[i]) = t[i]

LEMMA BeginsFront ==
  ASSUME NEW p \in Headers, NEW q \in Headers, Begins(p, q), NEW k \in 0..Len(p)
  PROVE  Newest(p, k) = Newest(q, k) /\ k \in 0..Len(q)
<1>1. Len(p) \in Nat /\ Len(q) \in Nat /\ Len(p) <= Len(q) /\ \A i \in 1..Len(p) : p[i] = q[i]
  BY HeadersAre DEF Begins
<1>2. k \in 0..Len(q)
  BY <1>1
<1> DEFINE a == Newest(p, k)
           b == Newest(q, k)
<1>3. a \in Headers /\ Len(a) = k /\ \A i \in 1..k : a[i] = p[i]
  BY FrontIs
<1>4. b \in Headers /\ Len(b) = k /\ \A i \in 1..k : b[i] = q[i]
  BY <1>2, FrontIs
<1> HIDE DEF a, b
<1>5. a \in Seq(Field) /\ b \in Seq(Field)
  BY <1>3, <1>4, HeadersAre
<1>6. \A i \in 1..k : a[i] = b[i]
  <2> TAKE i \in 1..k
  <2>1. i \in 1..Len(p)
    BY <1>1
  <2> QED BY <1>1, <1>3, <1>4, <2>1
<1>7. a = b
  BY <1>3, <1>4, <1>5, <1>6, SeqEqual
<1> QED BY <1>2, <1>7 DEF a, b

\* Tables in step stay so when both are cut to their sizes, the decoder's not smaller.
LEMMA FitBegins ==
  ASSUME NEW p \in Headers, NEW q \in Headers, Begins(p, q), NEW n \in Nat, NEW m \in Nat, n <= m
  PROVE  Begins(fit(p, n), fit(q, m))
<1>1. PICK k : Most(p, n, k) /\ fit(p, n) = Newest(p, k)
  BY FitIs
<1>2. PICK j : Most(q, m, j) /\ fit(q, m) = Newest(q, j)
  BY FitIs
<1>3. k \in 0..Len(p) /\ Held(p, k) <= n
  BY <1>1 DEF Most
<1>4. j \in 0..Len(q) /\ \A i \in 0..Len(q) : Held(q, i) <= m => i <= j
  BY <1>2 DEF Most
<1>5. Newest(p, k) = Newest(q, k) /\ k \in 0..Len(q)
  BY <1>3, BeginsFront
<1>6. Held(q, k) <= m
  <2>1. Held(q, k) = Held(p, k) /\ Held(p, k) \in Nat
    BY <1>3, <1>5, FrontIs DEF Held
  <2> QED BY <1>3, <2>1
<1>7. k <= j /\ k \in Nat /\ j \in Nat
  BY <1>4, <1>5, <1>6, HeadersAre
<1> DEFINE a == Newest(q, k)
           b == Newest(q, j)
<1>8. Len(a) = k /\ \A i \in 1..k : a[i] = q[i]
  BY <1>5, FrontIs
<1>9. Len(b) = j /\ \A i \in 1..j : b[i] = q[i]
  BY <1>4, FrontIs
<1> HIDE DEF a, b
<1>10. Begins(a, b)
  BY <1>7, <1>8, <1>9 DEF Begins
<1> QED BY <1>1, <1>2, <1>5, <1>10 DEF a, b

LEMMA MoreBegins ==
  ASSUME NEW p \in Headers, NEW q \in Headers, Begins(p, q), NEW f \in Field
  PROVE  Begins(<<f>> \o p, <<f>> \o q)
<1>1. p \in Seq(Field) /\ q \in Seq(Field) /\ Len(p) \in Nat /\ Len(q) \in Nat /\ Len(p) <= Len(q)
      /\ \A i \in 1..Len(p) : p[i] = q[i]
  BY HeadersAre DEF Begins
<1> DEFINE a == <<f>> \o p
           b == <<f>> \o q
<1>2. Len(a) = Len(p) + 1 /\ a[1] = f /\ \A i \in 2..Len(p) + 1 : a[i] = p[i - 1]
  BY <1>1, Prepended
<1>3. Len(b) = Len(q) + 1 /\ b[1] = f /\ \A i \in 2..Len(q) + 1 : b[i] = q[i - 1]
  BY <1>1, Prepended
<1> HIDE DEF a, b
<1>4. ASSUME NEW i \in 1..Len(a) PROVE a[i] = b[i]
  <2>1. CASE i = 1
    BY <1>2, <1>3, <2>1
  <2>2. CASE i # 1
    <3>1. i \in 2..Len(p) + 1 /\ i \in 2..Len(q) + 1 /\ i - 1 \in 1..Len(p)
      BY <1>1, <1>2, <2>2
    <3> QED BY <1>1, <1>2, <1>3, <3>1
  <2> QED BY <2>1, <2>2
<1>5. Begins(a, b)
  BY <1>1, <1>2, <1>3, <1>4 DEF Begins
<1> QED BY <1>5 DEF a, b

LEMMA BeginsIsPrefix ==
  ASSUME NEW p \in Headers, NEW q \in Headers, Begins(p, q)
  PROVE  IsPrefix(p, q)
<1>1. Len(p) \in 0..Len(p) /\ Len(p) <= Len(q)
  BY HeadersAre DEF Begins
<1>2. Newest(p, Len(p)) = Newest(q, Len(p))
  BY <1>1, BeginsFront
<1> QED BY <1>1, <1>2 DEF IsPrefix, Newest

LEMMA CleanFit ==
  ASSUME NEW t \in Headers, Clean(t), NEW n \in Nat
  PROVE  Clean(fit(t, n))
<1>1. PICK k : Most(t, n, k) /\ fit(t, n) = Newest(t, k)
  BY FitIs
<1>2. k \in 0..Len(t)
  BY <1>1 DEF Most
<1> DEFINE a == Newest(t, k)
<1>3. Len(a) = k /\ \A i \in 1..k : a[i] = t[i]
  BY <1>2, FrontIs
<1> HIDE DEF a
<1>4. \A i \in 1..k : i \in 1..Len(t)
  BY <1>2, HeadersAre
<1>5. Clean(a)
  BY <1>3, <1>4 DEF Clean
<1> QED BY <1>1, <1>5 DEF a

LEMMA CleanMore ==
  ASSUME NEW t \in Headers, Clean(t), NEW f \in Field, converted(f) = f
  PROVE  Clean(<<f>> \o t)
<1> DEFINE a == <<f>> \o t
<1>1. t \in Seq(Field) /\ Len(t) \in Nat
  BY HeadersAre
<1>2. Len(a) = Len(t) + 1 /\ a[1] = f /\ \A i \in 2..Len(t) + 1 : a[i] = t[i - 1]
  BY <1>1, Prepended
<1> HIDE DEF a
<1>3. ASSUME NEW i \in 1..Len(a) PROVE converted(a[i]) = a[i]
  <2>1. CASE i = 1
    BY <1>2, <2>1
  <2>2. CASE i # 1
    <3>1. i \in 2..Len(t) + 1 /\ i - 1 \in 1..Len(t)
      BY <1>1, <1>2, <2>2
    <3> QED BY <1>2, <3>1 DEF Clean
  <2> QED BY <2>1, <2>2
<1> QED BY <1>3 DEF Clean, a

LEMMA StaticClean ==
  ASSUME NEW i \in 1..Len(STATIC_TABLE)
  PROVE  converted(STATIC_TABLE[i]) = STATIC_TABLE[i]
<1>1. STATIC_TABLE[i] \in Field /\ i \in DOMAIN STATIC_TABLE
  BY Bounds, HeadersAre
<1>2. STATIC_TABLE[i].name \in Seq(Nat \ BAD_OCTETS) /\ STATIC_TABLE[i].value \in Seq(Nat \ BAD_OCTETS)
  BY <1>1, TextAssumption, Zenon
<1>3. decode_utf8(STATIC_TABLE[i].name) = STATIC_TABLE[i].name /\ decode_utf8(STATIC_TABLE[i].value) = STATIC_TABLE[i].value
  BY <1>2, Utf8Clean
<1> QED BY <1>1, <1>3 DEF converted, Field

\* The entries that both tables have are the same.
Agree(p, q) == \A i \in 1..Len(p) : i \in 1..Len(q) => p[i] = q[i]

LEMMA BeginsAgree ==
  ASSUME NEW p \in Headers, NEW q \in Headers, Begins(p, q) \/ Begins(q, p)
  PROVE  Agree(p, q)
<1>1. Len(p) \in Nat /\ Len(q) \in Nat
  BY HeadersAre
<1> QED BY <1>1 DEF Begins, Agree

\* An index means the same to both, or nothing to the one with fewer entries.
LEMMA EntrySame ==
  ASSUME NEW p \in Headers, NEW q \in Headers, Agree(p, q), Clean(p), NEW i \in indices(p)
  PROVE  /\ Begins(p, q) => i \in indices(q)
         /\ i \in indices(q) => entry_at(p, i) = entry_at(q, i)
         /\ converted(entry_at(p, i)) = entry_at(p, i)
<1> DEFINE L == Len(STATIC_TABLE)
<1>1. L \in Nat /\ Len(p) \in Nat /\ Len(q) \in Nat
  BY Bounds, HeadersAre
<1>2. i \in 1..(L + Len(p)) /\ indices(q) = 1..(L + Len(q))
  BY DEF indices
<1>3. entry_at(p, i) = (IF i <= L THEN STATIC_TABLE[i] ELSE p[i - L])
      /\ entry_at(q, i) = (IF i <= L THEN STATIC_TABLE[i] ELSE q[i - L])
  BY DEF entry_at
<1>4. i \in 1..L => converted(STATIC_TABLE[i]) = STATIC_TABLE[i]
  BY StaticClean
<1> HIDE DEF L
<1>5. Begins(p, q) => i \in indices(q)
  BY <1>1, <1>2 DEF Begins
<1>6. CASE i <= L
  <2>1. i \in 1..L
    BY <1>1, <1>2, <1>6
  <2> QED BY <1>3, <1>4, <1>5, <1>6, <2>1
<1>7. CASE ~(i <= L)
  <2>1. i - L \in 1..Len(p) /\ (i \in indices(q) => i - L \in 1..Len(q))
    BY <1>1, <1>2, <1>7
  <2>2. i \in indices(q) => p[i - L] = q[i - L]
    BY <2>1 DEF Agree
  <2>3. converted(p[i - L]) = p[i - L]
    BY <2>1 DEF Clean
  <2> QED BY <1>3, <1>5, <1>7, <2>2, <2>3
<1> QED BY <1>6, <1>7

\* What a literal of the peer is read as; it is refused only if the peer has entries
\* that the decoder has not.
LEMMA LiteralRead ==
  ASSUME NEW p \in Headers, NEW q \in Headers, Agree(p, q), Clean(p), NEW kind \in Kinds,
         NEW f \in Field, Readable(Len(f.name)), Readable(Len(f.value)),
         NEW i \in Nat, i = 0 \/ (i \in indices(p) /\ entry_at(p, i).name = f.name)
  PROVE  /\ literal_field(q, LiteralRep(kind, f, i), i) \in {converted(f), Err}
         /\ Begins(p, q) => literal_field(q, LiteralRep(kind, f, i), i) = converted(f)
         /\ converted(f) \in Field /\ converted(f) # Err
<1> DEFINE r == LiteralRep(kind, f, i)
           name == IF i = 0 THEN read_string(r.name)
                   ELSE IF i \in indices(q) THEN entry_at(q, i).name ELSE Err
<1>1. f.name \in Texts /\ f.value \in Texts
  BY DEF Field
<1>2. decode_utf8(f.name) \in Texts /\ decode_utf8(f.value) \in Texts
  BY <1>1, Utf8Typed
<1>3. decode_utf8(f.name) # Err /\ decode_utf8(f.value) # Err
  BY <1>2, CodingAssumption DEF Texts
<1>4. read_string(r.value) = decode_utf8(f.value)
  BY <1>1, LiteralRepTyped, RawRead
<1>5. name \in {decode_utf8(f.name), Err} /\ (Begins(p, q) => name = decode_utf8(f.name))
  <2>1. CASE i = 0
    <3>1. r.name = raw_string(f.name)
      BY <2>1, LiteralRepTyped
    <3> HIDE DEF r
    <3>2. name = decode_utf8(f.name)
      BY <1>1, <2>1, <3>1, RawRead
    <3> QED BY <3>2
  <2>2. CASE i # 0
    <3> DEFINE e == entry_at(p, i)
    <3>1. /\ Begins(p, q) => i \in indices(q)
          /\ i \in indices(q) => e = entry_at(q, i)
          /\ converted(e) = e /\ e.name = f.name
      BY <2>2, EntrySame
    <3>2. name = IF i \in indices(q) THEN entry_at(q, i).name ELSE Err
      BY <2>2
    <3> HIDE DEF e, name
    <3>3. converted(e).name = decode_utf8(e.name)
      BY DEF converted
    <3> QED BY <3>1, <3>2, <3>3
  <2> QED BY <2>1, <2>2
<1>6. literal_field(q, r, i) = IF name = Err \/ read_string(r.value) = Err THEN Err
                               ELSE [name |-> name, value |-> read_string(r.value)]
  BY Zenon DEF literal_field
<1> HIDE DEF r, name
<1>7. literal_field(q, r, i) \in {converted(f), Err} /\ (Begins(p, q) => literal_field(q, r, i) = converted(f))
  BY <1>3, <1>4, <1>5, <1>6 DEF converted
<1>8. converted(f) \in Field
  BY <1>2 DEF converted, Field
<1>9. Err \notin Field
  BY HpackAssumption, Zenon DEF Field
<1> QED BY <1>7, <1>8, <1>9 DEF r

\* The fields a block stands for, as the client's strings.
Converted(h) == [i \in DOMAIN h |-> converted(h[i])]

LEMMA ConvertedTyped ==
  ASSUME NEW f \in Field
  PROVE  converted(f) \in Field
<1>1. decode_utf8(f.name) \in Texts /\ decode_utf8(f.value) \in Texts
  BY Utf8Typed DEF Field
<1> QED BY <1>1 DEF converted, Field

LEMMA ConvertedMore ==
  ASSUME NEW h \in Headers, NEW f \in Field
  PROVE  Converted(Append(h, f)) = Append(Converted(h), converted(f))
<1> DEFINE N == Len(h)
           more == Append(h, f)
           a == Converted(more)
           c == Converted(h)
           b == Append(c, converted(f))
<1>1. N \in Nat /\ h \in Seq(Field) /\ DOMAIN h = 1..N /\ \A i \in 1..N : h[i] \in Field
  BY HeadersAre
<1>2. Len(more) = N + 1 /\ DOMAIN more = 1..N + 1 /\ \A i \in 1..N + 1 : more[i] = IF i = N + 1 THEN f ELSE h[i]
  BY <1>1
<1>3. converted(f) \in Field /\ \A i \in 1..N : converted(h[i]) \in Field
  BY <1>1, ConvertedTyped
<1> HIDE DEF N
<1>4. c = [i \in 1..N |-> converted(h[i])]
  BY <1>1 DEF Converted
<1>5. c \in Seq(Field) /\ Len(c) = N /\ \A i \in 1..N : c[i] = converted(h[i])
  BY <1>1, <1>3, <1>4
<1> HIDE DEF c
<1>6. b \in Seq(Field) /\ Len(b) = N + 1 /\ \A i \in 1..N + 1 : b[i] = IF i = N + 1 THEN converted(f) ELSE c[i]
  BY <1>1, <1>3, <1>5
<1> HIDE DEF b, more
<1>7. a = [i \in 1..N + 1 |-> converted(more[i])]
  BY <1>2 DEF Converted
<1>8. \A i \in 1..N + 1 : i # N + 1 => i \in 1..N
  BY <1>1
<1>9. \A i \in 1..N + 1 : converted(more[i]) = b[i] /\ b[i] \in Field
  BY <1>2, <1>3, <1>5, <1>6, <1>8
<1>10. a \in Seq(Field) /\ Len(a) = N + 1 /\ \A i \in 1..N + 1 : a[i] = b[i]
  BY <1>1, <1>7, <1>9
<1> HIDE DEF a
<1>11. a = b
  BY <1>6, <1>10, SeqEqual
<1> QED BY <1>11 DEF a, b, c, more

LEMMA ConvertedNothing == Converted(<<>>) = <<>>
BY DEF Converted

LEMMA ReadingIs ==
  ASSUME NEW s \in Reading
  PROVE  /\ s.d \in Decoders /\ Sound(s.d) /\ s.d.dynamic \in Headers /\ s.d.max_size \in Nat
         /\ s.headers \in Headers /\ s.error \in BOOLEAN /\ Len(s.d.dynamic) \in Nat
         /\ s = [d |-> s.d, headers |-> s.headers, error |-> s.error]
<1>1. s \in [d : Decoders, headers : Headers, error : BOOLEAN] /\ Sound(s.d)
  BY DEF Reading
<1>2. s.d \in Decoders /\ s.headers \in Headers /\ s.error \in BOOLEAN
      /\ s = [d |-> s.d, headers |-> s.headers, error |-> s.error]
  BY <1>1
<1>3. s.d.dynamic \in Headers /\ s.d.max_size \in Nat
  BY <1>2 DEF Decoders
<1> QED BY <1>1, <1>2, <1>3, HeadersAre

\* The peer has not shrunk its table to what was announced, or did so too late.
Ahead(p) == p.owes \/ p.remiss

\* The tables of reading s and of the peer p: the decoder's may have more entries, or
\* that of a peer that is ahead; such a peer has none before it neglects the update.
InStep(s, p) ==
    IF Ahead(p)
    THEN Begins(s.d.dynamic, p.dynamic) /\ s.d.max_size <= p.max_size /\ (p.remiss \/ p.dynamic = <<>>)
    ELSE Begins(p.dynamic, s.d.dynamic) /\ p.max_size <= s.d.max_size

\* Reading s is in step with the peer p that has sent the fields h, or has refused what
\* a peer sent that is ahead.
Follows(s, p, h) ==
    \/ s.error /\ p.remiss
    \/ ~s.error /\ InStep(s, p) /\ Clean(p.dynamic) /\ s.headers = Converted(h)

\* What sending a field makes of the peer, besides its table.
Emitted(p, q) == q.max_size = p.max_size /\ q.owes = p.owes /\ q.remiss = (p.remiss \/ p.owes)

LEMMA EmittedAhead ==
  ASSUME NEW p \in Peers, NEW q, Emitted(p, q)
  PROVE  (Ahead(q) <=> Ahead(p)) /\ (Ahead(p) => q.remiss) /\ (p.remiss => q.remiss)
BY DEF Emitted, Ahead, Peers

LEMMA InStepAgrees ==
  ASSUME NEW s \in Reading, NEW p \in Peers, InStep(s, p)
  PROVE  /\ Agree(p.dynamic, s.d.dynamic)
         /\ ~Ahead(p) \/ ~p.remiss => Begins(p.dynamic, s.d.dynamic)
         /\ p.remiss => Begins(s.d.dynamic, p.dynamic)
<1>1. p.dynamic \in Headers /\ s.d.dynamic \in Headers /\ Len(s.d.dynamic) \in Nat
  BY ReadingIs DEF Peers
<1>2. Begins(<<>>, s.d.dynamic)
  BY <1>1 DEF Begins
<1>3. Begins(p.dynamic, s.d.dynamic) \/ Begins(s.d.dynamic, p.dynamic)
  BY DEF InStep
<1>4. Agree(p.dynamic, s.d.dynamic)
  BY <1>1, <1>3, BeginsAgree
<1>5. p.remiss => Ahead(p)
  BY DEF Ahead
<1> QED BY <1>2, <1>4, <1>5 DEF InStep

\* A field that leaves the tables alone.
LEMMA StepKept ==
  ASSUME NEW s, NEW u, NEW p \in Peers, NEW q, InStep(s, p), u.d = s.d, q.dynamic = p.dynamic, Emitted(p, q)
  PROVE  InStep(u, q)
<1>1. (Ahead(q) <=> Ahead(p)) /\ (Ahead(p) => q.remiss) /\ q.max_size = p.max_size
  BY EmittedAhead DEF Emitted
<1> QED BY <1>1 DEF InStep

\* A reading that has failed goes on to follow.
LEMMA FailedFollows ==
  ASSUME NEW s \in Reading, NEW p \in Peers, NEW h, NEW g, NEW r, NEW q, p.remiss => q.remiss, s.error, Follows(s, p, h)
  PROVE  Follows(decode_one(s, r), q, g)
<1>1. decode_one(s, r) = s
  BY TurnOver
<1> QED BY <1>1 DEF Follows

LEMMA FailFollows ==
  ASSUME NEW s \in Reading, NEW q, NEW h, q.remiss
  PROVE  Follows(Fail(s), q, h)
<1>1. Fail(s).error
  BY ReadingIs DEF Fail
<1> QED BY <1>1 DEF Follows

LEMMA NumberIsNot ==
  ASSUME NEW i \in Nat
  PROVE  i # Err
BY CodingAssumption

LEMMA IndexedFollows ==
  ASSUME NEW s \in Reading, NEW p \in Peers, NEW h \in Headers, Follows(s, p, h),
         NEW q, q.dynamic = p.dynamic, Emitted(p, q),
         NEW i \in indices(p.dynamic), NEW r \in Reps, r.kind = "indexed", Number(r) = i
  PROVE  Follows(decode_one(s, r), q, Append(h, entry_at(p.dynamic, i)))
<1> DEFINE e == entry_at(p.dynamic, i)
           u == [s EXCEPT !.headers = Append(@, e)]
<1>1. p.dynamic \in Headers /\ s.d.dynamic \in Headers
  BY ReadingIs DEF Peers
<1>2. e \in Field /\ i \in Nat
  BY <1>1, EntryTyped
<1>3. (Ahead(p) => q.remiss) /\ (p.remiss => q.remiss)
  BY EmittedAhead
<1>4. CASE s.error
  BY <1>3, <1>4, FailedFollows
<1>5. CASE ~s.error
  <2>1. InStep(s, p) /\ Clean(p.dynamic) /\ s.headers = Converted(h)
    BY <1>5 DEF Follows
  <2>2. Agree(p.dynamic, s.d.dynamic) /\ (~Ahead(p) => Begins(p.dynamic, s.d.dynamic))
    BY <2>1, InStepAgrees
  <2>3. /\ Begins(p.dynamic, s.d.dynamic) => i \in indices(s.d.dynamic)
        /\ i \in indices(s.d.dynamic) => entry_at(s.d.dynamic, i) = e
        /\ converted(e) = e
    BY <1>1, <2>1, <2>2, EntrySame
  <2>4. i # Err
    BY <1>2, NumberIsNot
  <2> HIDE DEF e
  <2>5. decode_one(s, r) = IF i \in indices(s.d.dynamic)
                           THEN [s EXCEPT !.headers = Append(@, entry_at(s.d.dynamic, i))] ELSE Fail(s)
    BY <1>5, <2>4, TurnIndexed
  <2>6. CASE i \in indices(s.d.dynamic)
    <3>1. decode_one(s, r) = u
      BY <2>3, <2>5, <2>6
    <3>2. u.d = s.d /\ u.error = s.error /\ u.headers = Append(s.headers, e)
      BY ReadingIs
    <3> HIDE DEF u
    <3>3. Converted(Append(h, e)) = Append(Converted(h), e)
      BY <1>2, <2>3, ConvertedMore
    <3>4. InStep(u, q)
      BY <2>1, <3>2, StepKept
    <3>5. Follows(u, q, Append(h, e))
      BY <1>5, <2>1, <3>2, <3>3, <3>4 DEF Follows
    <3> QED BY <3>1, <3>5 DEF e
  <2>7. CASE i \notin indices(s.d.dynamic)
    <3>1. q.remiss
      BY <1>3, <2>2, <2>3, <2>7
    <3>2. decode_one(s, r) = Fail(s)
      BY <2>5, <2>7
    <3> QED BY <3>1, <3>2, FailFollows
  <2> QED BY <2>6, <2>7
<1> QED BY <1>4, <1>5

\* The number of a literal is the place of its name.
LEMMA LiteralNumber ==
  ASSUME NEW kind \in Kinds, NEW f \in Field, NEW i \in Nat, Readable(i)
  PROVE  Number(LiteralRep(kind, f, i)) = i
<1>1. LiteralRep(kind, f, i).kind = kind /\ LiteralRep(kind, f, i).int = write_integer(i, PrefixBits[kind])
  BY LiteralRepTyped
<1> QED BY <1>1, PrefixOf, NumberRead DEF Number

\* The name of a literal is spelt out or that of an entry.
Names(p, f, i) == i = 0 \/ (i \in indices(p.dynamic) /\ entry_at(p.dynamic, i).name = f.name)

LEMMA LiteralFollows ==
  ASSUME NEW s \in Reading, NEW p \in Peers, NEW h \in Headers, Follows(s, p, h),
         NEW q, q.dynamic = p.dynamic, Emitted(p, q),
         NEW f \in Field, Readable(Len(f.name)), Readable(Len(f.value)),
         NEW i \in Nat, Readable(i), Names(p, f, i)
  PROVE  Follows(decode_one(s, LiteralRep("literal", f, i)), q, Append(h, f))
<1> DEFINE r == LiteralRep("literal", f, i)
           c == converted(f)
           u == [s EXCEPT !.headers = Append(@, c), !.d = s.d]
           x == literal_field(s.d.dynamic, r, i)
<1>1. p.dynamic \in Headers /\ s.d.dynamic \in Headers
  BY ReadingIs DEF Peers
<1>2. "literal" \in Kinds
  BY DEF Kinds
<1>3. r.kind = "literal" /\ Number(r) = i /\ i # Err
  BY <1>2, LiteralRepTyped, LiteralNumber, NumberIsNot
<1>4. (Ahead(p) => q.remiss) /\ (p.remiss => q.remiss)
  BY EmittedAhead
<1>5. CASE s.error
  BY <1>4, <1>5, FailedFollows
<1>6. CASE ~s.error
  <2>1. InStep(s, p) /\ Clean(p.dynamic) /\ s.headers = Converted(h)
    BY <1>6 DEF Follows
  <2>2. Agree(p.dynamic, s.d.dynamic) /\ (~Ahead(p) => Begins(p.dynamic, s.d.dynamic))
    BY <2>1, InStepAgrees
  <2>3. x \in {c, Err} /\ (Begins(p.dynamic, s.d.dynamic) => x = c) /\ c # Err
    BY <1>1, <1>2, <2>1, <2>2, LiteralRead DEF Names
  <2> HIDE DEF r, c
  <2>4. decode_one(s, r) = IF x = Err THEN Fail(s) ELSE [s EXCEPT !.headers = Append(@, x), !.d = s.d]
    <3>1. r.kind # "incremental" /\ r.kind \in {"literal", "incremental"} /\ Number(r) # Err
      BY <1>3
    <3>2. decode_one(s, r) =
              IF literal_field(s.d.dynamic, r, Number(r)) = Err THEN Fail(s)
              ELSE [s EXCEPT !.headers = Append(@, literal_field(s.d.dynamic, r, Number(r))),
                             !.d = IF r.kind = "incremental"
                                   THEN insert(@, literal_field(s.d.dynamic, r, Number(r))) ELSE @]
      BY <1>6, <3>1, TurnLiteral
    <3> QED BY <1>3, <3>1, <3>2, Zenon
  <2> HIDE DEF x
  <2>5. CASE x = c
    <3>1. decode_one(s, r) = u
      BY <2>3, <2>4, <2>5
    <3>2. u.d = s.d /\ u.error = s.error /\ u.headers = Append(s.headers, c)
      BY ReadingIs
    <3> HIDE DEF u
    <3>3. Converted(Append(h, f)) = Append(Converted(h), c)
      BY ConvertedMore DEF c
    <3>4. InStep(u, q)
      BY <2>1, <3>2, StepKept
    <3>5. Follows(u, q, Append(h, f))
      BY <1>6, <2>1, <3>2, <3>3, <3>4 DEF Follows
    <3> QED BY <3>1, <3>5 DEF r
  <2>6. CASE x # c
    <3>1. q.remiss
      BY <1>4, <2>2, <2>3, <2>6
    <3>2. decode_one(s, r) = Fail(s)
      BY <2>3, <2>4, <2>6
    <3> QED BY <3>1, <3>2, FailFollows DEF r
  <2> QED BY <2>5, <2>6
<1> QED BY <1>5, <1>6

LEMMA IncrementalFollows ==
  ASSUME NEW s \in Reading, NEW p \in Peers, NEW h \in Headers, Follows(s, p, h),
         NEW f \in Field, Readable(Len(f.name)), Readable(Len(f.value)), converted(f) = f,
         NEW q, q.dynamic = fit(<<f>> \o p.dynamic, p.max_size), Emitted(p, q),
         NEW i \in Nat, Readable(i), Names(p, f, i)
  PROVE  Follows(decode_one(s, LiteralRep("incremental", f, i)), q, Append(h, f))
<1> DEFINE r == LiteralRep("incremental", f, i)
           v == insert(s.d, f)
           u == [s EXCEPT !.headers = Append(@, f), !.d = v]
           t == fit(<<f>> \o p.dynamic, p.max_size)
           y == fit(<<f>> \o s.d.dynamic, s.d.max_size)
           x == literal_field(s.d.dynamic, r, i)
<1>1. p.dynamic \in Headers /\ s.d.dynamic \in Headers /\ p.max_size \in Nat /\ s.d.max_size \in Nat
      /\ Sound(s.d) /\ s.d \in Decoders
  BY ReadingIs DEF Peers
<1>2. "incremental" \in Kinds
  BY DEF Kinds
<1>3. r.kind = "incremental" /\ Number(r) = i /\ i # Err
  BY <1>2, LiteralRepTyped, LiteralNumber, NumberIsNot
<1>4. (Ahead(q) <=> Ahead(p)) /\ (Ahead(p) => q.remiss) /\ (p.remiss => q.remiss) /\ q.max_size = p.max_size
  BY EmittedAhead DEF Emitted
<1>5. CASE s.error
  BY <1>4, <1>5, FailedFollows
<1>6. CASE ~s.error
  <2>1. InStep(s, p) /\ Clean(p.dynamic) /\ s.headers = Converted(h)
    BY <1>6 DEF Follows
  <2>2. Agree(p.dynamic, s.d.dynamic) /\ (~Ahead(p) => Begins(p.dynamic, s.d.dynamic))
    BY <2>1, InStepAgrees
  <2>3. x \in {f, Err} /\ (Begins(p.dynamic, s.d.dynamic) => x = f) /\ f # Err
    <3>1. x \in {converted(f), Err} /\ (Begins(p.dynamic, s.d.dynamic) => x = converted(f)) /\ converted(f) # Err
      BY <1>1, <1>2, <2>1, <2>2, LiteralRead DEF Names
    <3> QED BY <3>1
  <2> HIDE DEF r
  <2>4. decode_one(s, r) = IF x = Err THEN Fail(s) ELSE [s EXCEPT !.headers = Append(@, x), !.d = insert(s.d, x)]
    <3>1. r.kind \in {"literal", "incremental"} /\ Number(r) # Err
      BY <1>3
    <3>2. decode_one(s, r) =
              IF literal_field(s.d.dynamic, r, Number(r)) = Err THEN Fail(s)
              ELSE [s EXCEPT !.headers = Append(@, literal_field(s.d.dynamic, r, Number(r))),
                             !.d = IF r.kind = "incremental"
                                   THEN insert(@, literal_field(s.d.dynamic, r, Number(r))) ELSE @]
      BY <1>6, <3>1, TurnLiteral
    <3> QED BY <1>3, <3>2, Zenon
  <2> HIDE DEF x
  <2>5. CASE x = f
    <3>1. decode_one(s, r) = u
      BY <2>3, <2>4, <2>5
    <3>2. v = WithTable(s.d, y)
      BY <1>1, InsertFits
    <3>3. <<f>> \o p.dynamic \in Headers /\ <<f>> \o s.d.dynamic \in Headers
      BY <1>1, FrontOfMore
    <3>4. Clean(t)
      <4>1. Clean(<<f>> \o p.dynamic)
        BY <1>1, <2>1, CleanMore
      <4> QED BY <1>1, <3>3, <4>1, CleanFit
    <3>5. CASE Ahead(p)
      <4>1. Begins(s.d.dynamic, p.dynamic) /\ s.d.max_size <= p.max_size
        BY <2>1, <3>5 DEF InStep
      <4>2. Begins(<<f>> \o s.d.dynamic, <<f>> \o p.dynamic)
        BY <1>1, <4>1, MoreBegins
      <4>3. Begins(y, t)
        BY <1>1, <3>3, <4>1, <4>2, FitBegins
      <4> HIDE DEF y, t
      <4>4. v.dynamic = y /\ v.max_size = s.d.max_size
        BY <1>1, <3>2 DEF WithTable, Decoders
      <4> HIDE DEF v
      <4>5. u.d = v /\ u.error = s.error /\ u.headers = Append(s.headers, f)
        BY ReadingIs
      <4> HIDE DEF u
      <4>6. q.dynamic = t
        BY DEF t
      <4>7. InStep(u, q)
        BY <1>4, <3>5, <4>1, <4>3, <4>4, <4>5, <4>6 DEF InStep
      <4>8. Converted(Append(h, f)) = Append(Converted(h), f)
        BY ConvertedMore
      <4>9. Follows(u, q, Append(h, f))
        BY <1>6, <2>1, <3>4, <4>5, <4>6, <4>7, <4>8 DEF Follows
      <4> QED BY <3>1, <4>9 DEF r
    <3>6. CASE ~Ahead(p)
      <4>1. Begins(p.dynamic, s.d.dynamic) /\ p.max_size <= s.d.max_size
        BY <2>1, <3>6 DEF InStep
      <4>2. Begins(<<f>> \o p.dynamic, <<f>> \o s.d.dynamic)
        BY <1>1, <4>1, MoreBegins
      <4>3. Begins(t, y)
        BY <1>1, <3>3, <4>1, <4>2, FitBegins
      <4> HIDE DEF y, t
      <4>4. v.dynamic = y /\ v.max_size = s.d.max_size
        BY <1>1, <3>2 DEF WithTable, Decoders
      <4> HIDE DEF v
      <4>5. u.d = v /\ u.error = s.error /\ u.headers = Append(s.headers, f)
        BY ReadingIs
      <4> HIDE DEF u
      <4>6. q.dynamic = t
        BY DEF t
      <4>7. InStep(u, q)
        BY <1>4, <3>6, <4>1, <4>3, <4>4, <4>5, <4>6 DEF InStep
      <4>8. Converted(Append(h, f)) = Append(Converted(h), f)
        BY ConvertedMore
      <4>9. Follows(u, q, Append(h, f))
        BY <1>6, <2>1, <3>4, <4>5, <4>6, <4>7, <4>8 DEF Follows
      <4> QED BY <3>1, <4>9 DEF r
    <3> QED BY <3>5, <3>6
  <2>6. CASE x # f
    <3>1. q.remiss
      BY <1>4, <2>2, <2>3, <2>6
    <3>2. decode_one(s, r) = Fail(s)
      BY <2>3, <2>4, <2>6
    <3> QED BY <3>1, <3>2, FailFollows DEF r
  <2> QED BY <2>5, <2>6
<1> QED BY <1>5, <1>6

LEMMA ResizeFollows ==
  ASSUME NEW s \in Reading, NEW p \in Peers, NEW h, Follows(s, p, h),
         NEW n \in Nat, Readable(n), n <= s.d.protocol_max,
         NEW q, q.dynamic = fit(p.dynamic, n), q.max_size = n, q.owes = FALSE, q.remiss = p.remiss
  PROVE  Follows(decode_one(s, Rep("resize", n)), q, h)
<1> DEFINE r == Rep("resize", n)
           d == s.d
           v == apply_max_size(d, n)
           u == [s EXCEPT !.d = v]
           t == fit(p.dynamic, n)
           x == fit(d.dynamic, n)
<1>1. p.dynamic \in Headers /\ d.dynamic \in Headers /\ d \in Decoders /\ Sound(d)
  BY ReadingIs DEF Peers
<1>2. "resize" \in Kinds
  BY DEF Kinds
<1>3. r.kind = "resize" /\ Number(r) = n /\ n # Err
  BY <1>2, RepTyped, PrefixOf, NumberRead, NumberIsNot DEF Number
<1>4. CASE s.error
  BY <1>4, FailedFollows
<1>5. CASE ~s.error
  <2>1. InStep(s, p) /\ Clean(p.dynamic) /\ s.headers = Converted(h)
    BY <1>5 DEF Follows
  <2> HIDE DEF r
  <2>2. decode_one(s, r) = u
    <3>1. decode_one(s, r) = IF Number(r) <= s.d.protocol_max
                             THEN [s EXCEPT !.d = apply_max_size(@, Number(r))] ELSE Fail(s)
      BY <1>3, <1>5, TurnResize
    <3> QED BY <1>3, <3>1
  <2>3. v = [WithTable(d, x) EXCEPT !.max_size = n]
    BY <1>1, ResizeFits
  <2>4. Clean(t)
    BY <1>1, <2>1, CleanFit
  <2>5. IF p.remiss THEN Begins(x, t) ELSE Begins(t, x)
    <3>1. IF p.remiss THEN Begins(d.dynamic, p.dynamic) ELSE Begins(p.dynamic, d.dynamic)
      BY <2>1, InStepAgrees
    <3>2. n <= n
      OBVIOUS
    <3> QED BY <1>1, <3>1, <3>2, FitBegins
  <2> HIDE DEF x, t
  <2>6. v.dynamic = x /\ v.max_size = n
    BY <1>1, <2>3 DEF WithTable, Decoders
  <2> HIDE DEF v
  <2>7. u.d = v /\ u.error = s.error /\ u.headers = s.headers
    BY ReadingIs
  <2>8. q.dynamic = t /\ n <= n
    BY DEF t
  <2> HIDE DEF u
  <2>9. Ahead(q) <=> p.remiss
    BY DEF Ahead
  <2>10. InStep(u, q)
    BY <2>5, <2>6, <2>7, <2>8, <2>9 DEF InStep
  <2>11. Follows(u, q, h)
    BY <1>5, <2>1, <2>4, <2>7, <2>8, <2>10 DEF Follows
  <2> QED BY <2>2, <2>11 DEF r
<1> QED BY <1>4, <1>5

\* What no peer may send is refused, where the decoder is after the block so far.
LEMMA BadFails ==
  ASSUME decoder.protocol_max \in TableSizes, NEW s \in Reading, s = decode(decoder, block), ~s.error,
         Len(s.d.dynamic) <= MaxInserts, s.d.protocol_max = decoder.protocol_max, NEW r \in BadReps
  PROVE  decode_one(s, r) = Fail(s)
<1> DEFINE t == s.d.dynamic
           L == Len(STATIC_TABLE)
           max == decoder.protocol_max
<1>1. L \in Nat /\ MaxInserts \in Nat /\ Len(t) \in Nat /\ Beyond = L + MaxInserts + 1 /\ max \in Nat
  BY Bounds, ReadingIs, SizesAre DEF Beyond
<1>2. indices(t) = 1..(L + Len(t))
  BY DEF indices
<1>3. "indexed" \in Kinds /\ "resize" \in Kinds
  BY DEF Kinds
<1>4. ASSUME NEW kind \in Kinds, NEW i \in Nat, Readable(i)
      PROVE  Rep(kind, i).kind = kind /\ Number(Rep(kind, i)) = i /\ i # Err
  BY <1>4, RepTyped, PrefixOf, NumberRead, NumberIsNot DEF Number
<1>5. Readable(0)
  BY BeyondIs, ReadableBelow
<1>6. ASSUME r.kind = "indexed", Number(r) \notin indices(t), Number(r) # Err PROVE decode_one(s, r) = Fail(s)
  BY <1>6, TurnIndexed
<1>7. ASSUME r.kind \in {"literal", "incremental"}, Number(r) # Err, literal_field(t, r, Number(r)) = Err
      PROVE  decode_one(s, r) = Fail(s)
  BY <1>7, TurnLiteral
<1> HIDE DEF L
<1>8. CASE r = Rep("indexed", 0)
  <2>1. 0 \notin indices(t) /\ r.kind = "indexed" /\ Number(r) = 0 /\ 0 # Err
    BY <1>2, <1>3, <1>4, <1>5, <1>8
  <2> QED BY <1>6, <2>1
<1>9. ASSUME NEW kind \in Kinds \ {"resize"}, NEW e \in Excess, r = Rep(kind, L + Len(t) + 1 + e)
      PROVE  decode_one(s, r) = Fail(s)
  <2> DEFINE i == L + Len(t) + 1 + e
  <2>1. e \in Nat /\ Readable(Beyond + e)
    BY ExcessIs
  <2>2. i \in Nat /\ Beyond + e \in Nat /\ i <= Beyond + e /\ i # 0 /\ i \notin indices(t)
    <3> HIDE DEF t
    <3> QED BY <1>1, <1>2, <2>1 DEF t
  <2>3. Readable(i)
    BY <2>1, <2>2, ReadableBelow
  <2> HIDE DEF i
  <2>4. r.kind = kind /\ Number(r) = i /\ i # Err
    BY <1>4, <1>9, <2>2, <2>3 DEF i
  <2>5. literal_field(t, r, i) = Err
    BY <2>2, Zenon DEF literal_field
  <2>6. kind = "indexed" \/ kind \in {"literal", "incremental"}
    BY DEF Kinds
  <2> QED BY <1>6, <1>7, <2>2, <2>4, <2>5, <2>6
<1>10. ASSUME NEW e \in Excess, r = Rep("resize", max + 1 + e) PROVE decode_one(s, r) = Fail(s)
  <2>1. e \in Nat /\ Readable(max + 1 + e)
    BY ExcessIs
  <2> HIDE DEF max
  <2>2. max + 1 + e \in Nat /\ ~(max + 1 + e <= max)
    BY <1>1, <2>1
  <2>3. r.kind = "resize" /\ Number(r) = max + 1 + e /\ Number(r) # Err
    BY <1>3, <1>4, <1>10, <2>1, <2>2
  <2>4. decode_one(s, r) = IF Number(r) <= s.d.protocol_max
                           THEN [s EXCEPT !.d = apply_max_size(@, Number(r))] ELSE Fail(s)
    BY <2>3, TurnResize
  <2> QED BY <2>2, <2>3, <2>4 DEF max
<1>11. ASSUME NEW c \in Continued,
              r \in {[c EXCEPT !.int = Front(@)], [c EXCEPT !.int = lengthen(@, MAX_GROUPS + 2 - Len(@))]}
       PROVE  decode_one(s, r) = Fail(s)
  BY <1>11, ContinuedBad, TurnFails
<1>12. ASSUME NEW kind \in {"incremental", "literal"}, NEW w \in BadStrings,
              r \in {[Rep(kind, 0) EXCEPT !.name = w], [Rep(kind, 0) EXCEPT !.value = w]}
       PROVE  decode_one(s, r) = Fail(s)
  <2>1. r.kind = kind /\ Number(r) = 0 /\ (read_string(r.name) = Err \/ read_string(r.value) = Err)
    BY <1>12, LiteralBad
  <2>2. literal_field(t, r, 0) = Err
    BY <2>1, Zenon DEF literal_field
  <2>3. r.kind \in {"literal", "incremental"} /\ 0 # Err
    BY <2>1, NumberIsNot
  <2> QED BY <1>7, <2>1, <2>2, <2>3
<1>13. \/ r = Rep("indexed", 0)
       \/ \E kind \in Kinds \ {"resize"}, e \in Excess : r = Rep(kind, L + Len(t) + 1 + e)
       \/ \E e \in Excess : r = Rep("resize", max + 1 + e)
       \/ \E c \in Continued :
             r \in {[c EXCEPT !.int = Front(@)], [c EXCEPT !.int = lengthen(@, MAX_GROUPS + 2 - Len(@))]}
       \/ \E kind \in {"incremental", "literal"}, w \in BadStrings :
             r \in {[Rep(kind, 0) EXCEPT !.name = w], [Rep(kind, 0) EXCEPT !.value = w]}
  BY BadIs DEF L
<1> HIDE DEF t, max
<1> QED BY <1>8, <1>9, <1>10, <1>11, <1>12, <1>13

-----------------------------------------------------------------------------
(* The decoder keeps in step with the peer *)

\* What decoding would make of the block so far.
Read == decode(decoder, block)

\* The decoder has inserted no more than the peer; it would be in step once it had read
\* the block so far, unless a field was changed by its conversion or it has refused what
\* a peer sent that was ahead; and it would refuse a block with what no peer may send.
SyncInv ==
    /\ valid => Len(Read.d.dynamic) <= inserts
    /\ Read.d.protocol_max = decoder.protocol_max
    /\ valid /\ ~peer.lossy => (failed /\ peer.remiss) \/ Follows(Read, peer, sent)
    /\ ~valid /\ ~peer.wraps /\ block # <<>> => Read.error

LEMMA ReadStarts ==
  ASSUME Sound(decoder), block = <<>>
  PROVE  Read = Start(decoder) /\ Read.d = decoder /\ Read.error = FALSE /\ Read.headers = <<>>
<1>1. Read = Start(decoder)
  BY DecodeNothing DEF Read
<1> QED BY <1>1 DEF Start

LEMMA SyncInvInit == Init => SyncInv
<1> SUFFICES ASSUME Init PROVE SyncInv
  OBVIOUS
<1>1. PICK n \in TableSizes :
        /\ decoder = new_decoder(n)
        /\ peer = [dynamic |-> <<>>, max_size |-> DEFAULT_TABLE_SIZE,
                   owes |-> n < DEFAULT_TABLE_SIZE, remiss |-> FALSE, lossy |-> FALSE, wraps |-> FALSE]
  BY Zenon DEF Init
<1>2. n \in Nat /\ DEFAULT_TABLE_SIZE \in Nat
  BY SizesAre, Bounds
<1>3. Sound(decoder) /\ block = <<>> /\ sent = <<>> /\ inserts = 0 /\ valid = TRUE
  BY TableInvInit DEF TableInv, Init
<1>4. Read.d = decoder /\ Read.error = FALSE /\ Read.headers = <<>>
  BY <1>3, ReadStarts
<1>5. decoder.dynamic = <<>> /\ decoder.max_size = n
  BY <1>1 DEF new_decoder
<1>6. peer.dynamic = <<>> /\ peer.max_size = DEFAULT_TABLE_SIZE /\ (Ahead(peer) <=> n < DEFAULT_TABLE_SIZE)
  BY <1>1 DEF Ahead
<1>7. IF Ahead(peer) THEN Read.d.max_size <= peer.max_size ELSE peer.max_size <= Read.d.max_size
  BY <1>2, <1>4, <1>5, <1>6
<1>8. Begins(<<>>, <<>>) /\ Clean(peer.dynamic)
  BY <1>6 DEF Begins, Clean
<1>9. InStep(Read, peer)
  BY <1>4, <1>5, <1>6, <1>7, <1>8 DEF InStep
<1>10. Follows(Read, peer, sent)
  BY <1>3, <1>4, <1>8, <1>9, ConvertedNothing DEF Follows
<1> QED BY <1>3, <1>4, <1>5, <1>10 DEF SyncInv

\* One more representation in the block.
LEMMA ReadMore ==
  ASSUME TableInv, NEW r \in Reps, block' = Append(block, r), decoder' = decoder
  PROVE  Read' = decode_one(Read, r) /\ Grows(Read, Read', r) /\ Read \in Reading
<1>1. Read \in Reading
  BY DecodeTyped DEF Read, TableInv
<1>2. decode(decoder, Append(block, r)) = decode_one(decode(decoder, block), r)
  BY DecodeOneMore DEF TableInv
<1>3. Read' = decode_one(Read, r)
  BY <1>2 DEF Read
<1> QED BY <1>1, <1>3, TurnTyped

\* A representation that is not an insertion leaves the number of entries.
LEMMA EmitSync ==
  ASSUME TableInv, SyncInv, NEW r \in Reps, NEW f, Emit(r, f), valid' = valid,
         \/ r.kind # "incremental" /\ inserts' = inserts
         \/ inserts' = inserts + 1,
         ~peer'.lossy /\ ~peer.lossy /\ Follows(Read, peer, sent) => Follows(decode_one(Read, r), peer', Append(sent, f)),
         ~peer'.lossy => ~peer.lossy
  PROVE  SyncInv'
<1>1. block' = Append(block, r) /\ sent' = Append(sent, f) /\ decoder' = decoder /\ valid /\ ~failed
  BY DEF Emit, Building
<1>2. Read' = decode_one(Read, r) /\ Grows(Read, Read', r) /\ Read \in Reading
  BY <1>1, ReadMore
<1>3. Len(Read.d.dynamic) \in Nat /\ inserts \in Nat
  BY <1>2, ReadingIs, Bounds DEF TableInv
<1>4. Read' \in Reading /\ Read'.d.protocol_max = Read.d.protocol_max
      /\ Len(Read'.d.dynamic) <= Len(Read.d.dynamic) + 1
      /\ (r.kind # "incremental" => Len(Read'.d.dynamic) <= Len(Read.d.dynamic))
  BY <1>2 DEF Grows
<1>5. Len(Read'.d.dynamic) \in Nat
  BY <1>4, ReadingIs
<1>6. Len(Read.d.dynamic) <= inserts /\ Read.d.protocol_max = decoder.protocol_max
  BY <1>1 DEF SyncInv
<1>7. Len(Read'.d.dynamic) <= inserts'
  BY <1>3, <1>4, <1>5, <1>6
<1>8. ~peer'.lossy => Follows(Read', peer', sent')
  BY <1>1, <1>2 DEF SyncInv
<1> QED BY <1>1, <1>4, <1>6, <1>7, <1>8 DEF SyncInv

LEMMA IndexReadable ==
  ASSUME TableInv, NEW i \in {0} \cup indices(peer.dynamic)
  PROVE  i \in Nat /\ Readable(i)
<1>1. peer.dynamic \in Headers /\ Len(peer.dynamic) \in Nat /\ Len(peer.dynamic) <= inserts /\ inserts \in 0..MaxInserts
  BY HeadersAre DEF TableInv, Peers
<1>2. i = 0 \/ (i \in Nat /\ i <= Len(STATIC_TABLE) + Len(peer.dynamic))
  BY <1>1, EntryTyped
<1>3. i \in Nat /\ i <= Beyond
  BY <1>1, <1>2, Bounds DEF Beyond
<1> QED BY <1>3, BeyondIs, ReadableBelow

LEMMA FieldReadable ==
  ASSUME NEW f \in Fields
  PROVE  f \in Field /\ Readable(Len(f.name)) /\ Readable(Len(f.value))
<1>1. Readable(Len(f.name)) /\ Readable(Len(f.value))
  BY RangeAssumption, Zenon
<1> QED BY <1>1, Bounds

LEMMA SyncInvNext == TableInv /\ SyncInv /\ [Next]_vars => SyncInv'
<1> SUFFICES ASSUME TableInv, SyncInv, [Next]_vars PROVE SyncInv'
  OBVIOUS
<1>1. peer \in Peers /\ peer.dynamic \in Headers /\ sent \in Headers /\ Sound(decoder)
      /\ decoder.protocol_max \in TableSizes
  BY DEF TableInv, Peers
<1>2. Read \in Reading
  BY DecodeTyped DEF Read, TableInv
<1>3. ASSUME NEW i \in indices(peer.dynamic), PeerIndexed(i) PROVE SyncInv'
  <2>1. PICK k \in Slack(Rep("indexed", i).int) :
          /\ Emit([Rep("indexed", i) EXCEPT !.int = lengthen(@, k)], entry_at(peer.dynamic, i))
          /\ peer' = [peer EXCEPT !.remiss = @ \/ peer.owes] /\ UNCHANGED <<inserts, valid>>
    BY <1>3 DEF PeerIndexed
  <2>2. i \in Nat /\ Readable(i) /\ "indexed" \in Kinds
    BY IndexReadable DEF Kinds
  <2> DEFINE bits == PrefixBits["indexed"]
             o == write_integer(i, bits)
             r == [Rep("indexed", i) EXCEPT !.int = lengthen(@, k)]
             e == entry_at(peer.dynamic, i)
  <2>3. k \in Nat /\ (k > 0 => Len(o) + k <= MAX_GROUPS + 1)
    <3>1. Rep("indexed", i).int = o
      BY <2>2, RepTyped
    <3>2. k \in Nat /\ (k = 0 \/ k = MAX_GROUPS + 1 - Len(o))
      BY <3>1 DEF Slack
    <3>3. Len(o) \in Nat /\ MAX_GROUPS \in Nat
      BY <2>2, PrefixOf, WriteTyped, Widths
    <3> HIDE DEF o
    <3> QED BY <3>2, <3>3
  <2>4. r \in Reps /\ r.kind = "indexed" /\ r.int = lengthen(o, k)
    BY <2>2, <2>3, IndexedTyped
  <2>5. read_integer(lengthen(o, k), bits) = i
    <3>1. i < 2^WORD_BITS /\ i < Weight(MAX_GROUPS)
      BY <2>2 DEF Readable, Weight
    <3> QED BY <2>2, <2>3, <3>1, PrefixOf, IntegersReadBack
  <2>6. Number(r) = i
    <3> HIDE DEF r, o
    <3> QED BY <2>4, <2>5 DEF Number
  <2>7. Emit(r, e) /\ inserts' = inserts /\ valid' = valid
    BY <2>1
  <2>10. peer'.dynamic = peer.dynamic /\ peer'.lossy = peer.lossy /\ Emitted(peer, peer')
    BY <1>1, <2>1 DEF Peers, Emitted
  <2> HIDE DEF r
  <2>8. Follows(Read, peer, sent) => Follows(decode_one(Read, r), peer', Append(sent, e))
    BY <1>1, <1>2, <2>4, <2>6, <2>10, IndexedFollows
  <2>9. r.kind # "incremental"
    BY <2>4
  <2> QED BY <2>4, <2>7, <2>8, <2>9, <2>10, EmitSync
<1>4. ASSUME NEW f \in Fields, NEW i \in {0} \cup indices(peer.dynamic), PeerLiteral(f, i) PROVE SyncInv'
  <2> DEFINE r == LiteralRep("literal", f, i)
  <2>1. i \in Nat /\ Readable(i) /\ f \in Field /\ Readable(Len(f.name)) /\ Readable(Len(f.value)) /\ "literal" \in Kinds
    BY IndexReadable, FieldReadable DEF Kinds
  <2>2. r \in Reps /\ r.kind = "literal"
    BY <2>1, LiteralRepTyped
  <2>3. Emit(r, f) /\ inserts' = inserts /\ valid' = valid /\ NameIs(i, f)
    BY <1>4 DEF PeerLiteral
  <2>7. peer'.dynamic = peer.dynamic /\ peer'.lossy = peer.lossy /\ Emitted(peer, peer')
    BY <1>1, <1>4 DEF PeerLiteral, Peers, Emitted
  <2>4. Names(peer, f, i)
    BY <2>3 DEF NameIs, Names
  <2>5. Follows(Read, peer, sent) => Follows(decode_one(Read, r), peer', Append(sent, f))
    BY <1>1, <1>2, <2>1, <2>4, <2>7, LiteralFollows
  <2> HIDE DEF r
  <2>6. r.kind # "incremental"
    BY <2>2
  <2> QED BY <2>2, <2>3, <2>5, <2>6, <2>7, EmitSync
<1>5. ASSUME NEW f \in Fields, NEW i \in {0} \cup indices(peer.dynamic), PeerIncremental(f, i) PROVE SyncInv'
  <2> DEFINE r == LiteralRep("incremental", f, i)
             l == peer.lossy \/ converted(f) # f
             q == [peer EXCEPT !.dynamic = fit(<<f>> \o @, peer.max_size), !.remiss = @ \/ peer.owes, !.lossy = l]
  <2>1. i \in Nat /\ Readable(i) /\ f \in Field /\ Readable(Len(f.name)) /\ Readable(Len(f.value)) /\ "incremental" \in Kinds
    BY IndexReadable, FieldReadable DEF Kinds
  <2>2. r \in Reps
    BY <2>1, LiteralRepTyped
  <2>3. Emit(r, f) /\ peer' = q /\ inserts' = inserts + 1 /\ valid' = valid /\ NameIs(i, f)
    BY <1>5 DEF PeerIncremental
  <2>4. Names(peer, f, i)
    BY <2>3 DEF NameIs, Names
  <2>5. q.dynamic = fit(<<f>> \o peer.dynamic, peer.max_size) /\ Emitted(peer, q)
    BY <1>1 DEF Peers, Emitted
  <2>6. q.lossy = l
    BY <1>1 DEF Peers
  <2>7. ~peer'.lossy => ~peer.lossy /\ converted(f) = f
    BY <2>3, <2>6, Zenon
  <2>8. ASSUME converted(f) = f, Follows(Read, peer, sent) PROVE Follows(decode_one(Read, r), q, Append(sent, f))
    <3> HIDE DEF q
    <3> QED BY <1>1, <1>2, <2>1, <2>4, <2>5, <2>8, IncrementalFollows
  <2> HIDE DEF r, q
  <2> QED BY <2>2, <2>3, <2>7, <2>8, EmitSync
<1>6. ASSUME NEW n \in TableSizes, PeerResize(n) PROVE SyncInv'
  <2> DEFINE r == Rep("resize", n)
             q == [peer EXCEPT !.dynamic = fit(@, n), !.max_size = n, !.owes = FALSE]
  <2>1. /\ block' = Append(block, r) /\ sent' = sent /\ inserts' = inserts /\ valid' = valid
        /\ peer' = q /\ decoder' = decoder /\ n <= decoder.protocol_max /\ valid /\ ~failed
    BY <1>6 DEF PeerResize, Building
  <2>2. n \in Nat /\ "resize" \in Kinds
    BY SizesAre DEF Kinds
  <2>3. Readable(n)
    BY SizeReadable
  <2>4. r \in Reps /\ r.kind = "resize"
    BY <2>2, RepTyped
  <2>6. Read' = decode_one(Read, r) /\ Grows(Read, Read', r)
    BY <2>1, <2>4, ReadMore
  <2>8. q.lossy = peer.lossy /\ q.dynamic = fit(peer.dynamic, n) /\ q.max_size = n /\ q.owes = FALSE /\ q.remiss = peer.remiss
    BY <1>1 DEF Peers
  <2> HIDE DEF q
  <2>9. Follows(Read, peer, sent) => Follows(Read', q, sent)
    <3>1. n <= Read.d.protocol_max
      BY <2>1 DEF SyncInv
    <3> QED BY <1>1, <1>2, <2>2, <2>3, <2>6, <2>8, <3>1, ResizeFollows
  <2> HIDE DEF r
  <2>10. Len(Read'.d.dynamic) <= Len(Read.d.dynamic) /\ Read'.d.protocol_max = Read.d.protocol_max /\ Read' \in Reading
    BY <2>4, <2>6 DEF Grows
  <2>11. Len(Read.d.dynamic) \in Nat /\ Len(Read'.d.dynamic) \in Nat /\ inserts \in Nat
    BY <1>2, <2>10, ReadingIs, Bounds DEF TableInv
  <2>12. Len(Read'.d.dynamic) <= inserts' /\ Read'.d.protocol_max = decoder'.protocol_max
    BY <2>1, <2>10, <2>11 DEF SyncInv
  <2>13. ~peer'.lossy => Follows(Read', peer', sent')
    BY <2>1, <2>8, <2>9 DEF SyncInv
  <2> QED BY <2>1, <2>12, <2>13 DEF SyncInv
<1>7. ASSUME NEW r \in BadReps, PeerBad(r) PROVE SyncInv'
  <2>1. /\ block' = Append(block, r) /\ valid' = FALSE /\ inserts' = inserts /\ decoder' = decoder /\ valid
    BY <1>7 DEF PeerBad, Misuse, Building
  <2>2. r \in Reps
    BY <1>1, BadTyped DEF TableInv
  <2>3. Read' = decode_one(Read, r) /\ Grows(Read, Read', r)
    BY <2>1, <2>2, ReadMore
  <2>4. Len(Read.d.dynamic) <= inserts /\ Read.d.protocol_max = decoder.protocol_max
    BY <2>1 DEF SyncInv
  <2>5. Len(Read.d.dynamic) <= MaxInserts
    <3>1. Len(Read.d.dynamic) \in Nat /\ inserts \in 0..MaxInserts
      BY <1>2, ReadingIs DEF TableInv
    <3> QED BY <2>4, <3>1, Bounds
  <2>6. Read'.d = Read.d /\ Read'.error
    <3>1. CASE Read.error
      BY <2>3, <3>1, TurnOver
    <3>2. CASE ~Read.error
      <4>1. decode_one(Read, r) = Fail(Read)
        BY <1>1, <1>2, <2>4, <2>5, <3>2, BadFails DEF Read
      <4>2. Fail(Read).d = Read.d /\ Fail(Read).error
        BY <1>2, ReadingIs DEF Fail
      <4> QED BY <2>3, <4>1, <4>2
    <3> QED BY <3>1, <3>2
  <2> QED BY <2>1, <2>4, <2>6 DEF SyncInv
<1>7a. ASSUME NEW r \in WideReps, PeerWide(r) PROVE SyncInv'
  <2>1. block' = Append(block, r) /\ valid' = FALSE /\ decoder' = decoder
    BY <1>7a DEF PeerWide, Misuse, Building
  <2>2. r \in Reps
    BY WideTyped
  <2>3. Grows(Read, Read', r)
    BY <2>1, <2>2, ReadMore
  <2>4. Read'.d.protocol_max = decoder'.protocol_max
    BY <2>1, <2>3 DEF SyncInv, Grows
  <2>5. peer'.wraps
    BY <1>1, <1>7a DEF PeerWide, Peers
  <2> QED BY <2>1, <2>4, <2>5 DEF SyncInv
<1>8. ASSUME NEW known \in BOOLEAN, complete_header_block(known) PROVE SyncInv'
  <2>1. /\ decoder' = Read.d /\ block' = <<>> /\ sent' = <<>> /\ peer' = peer /\ inserts' = inserts /\ valid' = valid
        /\ ~failed /\ failed' = Read.error
    BY <1>8, Zenon DEF complete_header_block, Read
  <2>2. Sound(decoder)'
    <3>1. Sound(Read.d)
      BY <1>2, ReadingIs
    <3> QED BY <2>1, <3>1 DEF Sound, Counted
  <2>3. decode(decoder', <<>>) = Start(decoder')
    <3>1. Sound(decoder')
      BY <2>2 DEF Sound, Counted
    <3> QED BY <3>1, DecodeNothing
  <2>4. Read' = Start(decoder')
    BY <2>1, <2>3 DEF Read
  <2>5. Read'.d = Read.d /\ Read'.error = FALSE /\ Read'.headers = <<>>
    BY <2>1, <2>4 DEF Start
  <2>6. Follows(Read, peer, sent) => (failed' /\ peer'.remiss) \/ Follows(Read', peer', sent')
    BY <2>1, <2>5, ConvertedNothing DEF Follows, InStep
  <2> QED BY <2>1, <2>5, <2>6 DEF SyncInv
<1>9. CASE UNCHANGED <<peer, decoder, block, sent, inserts, valid, failed>>
  <2>1. Read' = Read
    BY <1>9 DEF Read
  <2> QED BY <1>9, <2>1 DEF SyncInv
<1>10. ASSUME NEW bits \in HuffmanData, DecodeString(bits) PROVE SyncInv'
  BY <1>9, <1>10 DEF DecodeString
<1>11. ASSUME NEW headers, EncodeRequest(headers) PROVE SyncInv'
  BY <1>9, <1>11 DEF EncodeRequest
<1>12. CASE UNCHANGED vars
  BY <1>9, <1>12 DEF vars
<1>13. CASE Next
  BY <1>3, <1>4, <1>5, <1>6, <1>7, <1>7a, <1>8, <1>10, <1>11, <1>13, Zenon DEF Next, Peer
<1> QED BY <1>12, <1>13

LEMMA SyncInvHolds == Spec => [](TableInv /\ SyncInv)
<1>1. Init => TableInv /\ SyncInv
  BY TableInvInit, SyncInvInit
<1>2. TableInv /\ SyncInv /\ [Next]_vars => (TableInv /\ SyncInv)'
  BY TableInvNext, SyncInvNext
<1> QED BY <1>1, <1>2, PTL DEF Spec

\* Between blocks every entry of the peer's table is in the same place in the decoder's,
\* or, of a peer that did not shrink its table as it must, every entry of the decoder's in
\* the peer's: over every sequence of insertions, references, evictions and size updates
\* before and after fields, and with the streams of the blocks there or gone, as long as
\* the fields that were inserted are UTF-8 (insert, apply_max_size, complete_header_block).
THEOREM InSyncHolds == Spec => []InSync
<1>1. TableInv /\ SyncInv => InSync
  <2> SUFFICES ASSUME TableInv, SyncInv, block = <<>>, valid, ~peer.lossy
               PROVE  IF peer.remiss THEN failed \/ IsPrefix(decoder.dynamic, peer.dynamic)
                      ELSE IsPrefix(peer.dynamic, decoder.dynamic)
    BY DEF InSync
  <2>1. Read.d = decoder /\ Read.error = FALSE
    BY ReadStarts DEF TableInv
  <2>2. peer \in Peers /\ Read \in Reading
    BY DecodeTyped DEF Read, TableInv
  <2>3. peer.dynamic \in Headers /\ decoder.dynamic \in Headers
    BY DEF TableInv, Peers, Sound, Counted, Decoders
  <2>4. (failed /\ peer.remiss) \/ InStep(Read, peer)
    BY <2>1 DEF SyncInv, Follows
  <2>5. IF peer.remiss THEN failed \/ Begins(decoder.dynamic, peer.dynamic) ELSE Begins(peer.dynamic, decoder.dynamic)
    BY <2>1, <2>2, <2>4, InStepAgrees
  <2> QED BY <2>3, <2>5, BeginsIsPrefix
<1> QED BY <1>1, SyncInvHolds, PTL

\* Every block of a peer that sends nothing of BadReps or WideReps is accepted and read as
\* the fields it stands for, or refused if the peer left out a size update it owed; a
\* block with one of BadReps is refused.  As long as the fields inserted are UTF-8; nothing
\* is said of a block with an integer wider than a word (decode, complete_header_block).
THEOREM DecodedAsSentHolds == Spec => DecodedAsSent
<1> DEFINE A == block # <<>> /\ block' = <<>> =>
                  \/ ~valid /\ (failed' \/ peer.wraps)
                  \/ valid /\ peer.lossy
                  \/ valid /\ failed' /\ peer.remiss
                  \/ valid /\ ~failed' /\ got' \in {Err, [i \in DOMAIN sent |-> converted(sent[i])]}
<1>1. TableInv /\ SyncInv /\ [Next]_vars => [A]_vars
  <2> SUFFICES ASSUME TableInv, SyncInv, Next, block # <<>>, block' = <<>>
               PROVE  \/ ~valid /\ (failed' \/ peer.wraps)
                      \/ valid /\ peer.lossy
                      \/ valid /\ failed' /\ peer.remiss
                      \/ valid /\ ~failed' /\ got' \in {Err, Converted(sent)}
    BY DEF Converted
  <2>1. \E known \in BOOLEAN : complete_header_block(known)
    <3>1. \A r : block' # Append(block, r)
      BY DEF TableInv
    <3> QED BY <3>1 DEF Next, Peer, PeerIndexed, PeerLiteral, PeerIncremental, PeerResize, PeerBad, PeerWide,
               Misuse, Emit, DecodeString, EncodeRequest
  <2>2. PICK known \in BOOLEAN : complete_header_block(known)
    BY <2>1
  <2>3. failed' = Read.error /\ got' \in {Err, Read.headers} /\ ~failed
    BY <2>2, Zenon DEF complete_header_block, Read
  <2>4. valid \in BOOLEAN
    BY DEF TableInv
  <2>5. CASE ~valid
    BY <2>3, <2>5 DEF SyncInv
  <2>6. CASE valid /\ ~peer.lossy
    <3>1. Follows(Read, peer, sent)
      BY <2>3, <2>6 DEF SyncInv
    <3> QED BY <2>3, <2>6, <3>1 DEF Follows
  <2> QED BY <2>4, <2>5, <2>6
<1> QED BY <1>1, SyncInvHolds, PTL DEF Spec, DecodedAsSent

-----------------------------------------------------------------------------
(* Requests *)

LEMMA RequestIs ==
  ASSUME NEW h \in RequestFields
  PROVE  /\ h \in [name : Seq(UTF8), value : Seq(UTF8)]
         /\ Readable(Len(h.name)) /\ Readable(Len(h.value))
<1>1. RequestFields \subseteq [name : Seq(UTF8), value : Seq(UTF8)]
  BY TextAssumption, Zenon
<1>2. Readable(Len(h.name)) /\ Readable(Len(h.value))
  BY RangeAssumption, Zenon
<1> QED BY <1>1, <1>2

\* A field in lower case is UTF-8 again, and of the same length.
LEMMA LowercaseIs ==
  ASSUME NEW h \in RequestFields
  PROVE  /\ lowercase(h).name \in Seq(UTF8) /\ lowercase(h).value \in Seq(UTF8)
         /\ Readable(Len(lowercase(h).name)) /\ Readable(Len(lowercase(h).value))
         /\ lowercase(h) = [name |-> lowercase(h).name, value |-> lowercase(h).value]
<1> DEFINE n == h.name
           m == [i \in DOMAIN n |-> LOWER[n[i]]]
<1>1. h \in [name : Seq(UTF8), value : Seq(UTF8)] /\ Readable(Len(n)) /\ Readable(Len(h.value))
  BY RequestIs
<1>2. n \in Seq(UTF8) /\ h.value \in Seq(UTF8)
  BY <1>1
<1>3. \A o \in UTF8 : LOWER[o] \in UTF8
  BY TextAssumption, Zenon
<1>4. lowercase(h).name = m /\ lowercase(h).value = h.value
      /\ lowercase(h) = [name |-> m, value |-> h.value]
  <2>1. lowercase(h) = [h EXCEPT !.name = m]
    BY Zenon DEF lowercase
  <2> HIDE DEF m, n
  <2> QED BY <1>1, <2>1
<1> HIDE DEF n
<1>5. Len(n) \in Nat /\ DOMAIN n = 1..Len(n) /\ \A i \in 1..Len(n) : n[i] \in UTF8
  BY <1>2
<1>6. m = [i \in 1..Len(n) |-> LOWER[n[i]]] /\ \A i \in 1..Len(n) : LOWER[n[i]] \in UTF8
  BY <1>3, <1>5
<1>7. m \in Seq(UTF8) /\ Len(m) = Len(n)
  BY <1>5, <1>6
<1> HIDE DEF m
<1> QED BY <1>1, <1>2, <1>4, <1>7

\* The places of the static table are readable, and found in an empty table.
LEMMA StaticPlace ==
  ASSUME NEW i \in DOMAIN STATIC_TABLE
  PROVE  /\ i \in Nat /\ i # 0 /\ Readable(i) /\ i \in indices(<<>>)
         /\ entry_at(<<>>, i) = STATIC_TABLE[i]
<1>1. i \in 1..Len(STATIC_TABLE) /\ Len(STATIC_TABLE) \in Nat
  BY Bounds, HeadersAre
<1>2. i \in Nat /\ i # 0 /\ i <= Beyond
  BY <1>1, Bounds DEF Beyond
<1>3. Readable(i)
  BY <1>2, BeyondIs, ReadableBelow
<1>4. i \in 1..(Len(STATIC_TABLE) + 0)
  BY <1>1
<1>5. i \in indices(<<>>)
  BY <1>4 DEF indices
<1>6. i <= Len(STATIC_TABLE)
  BY <1>1
<1> QED BY <1>2, <1>3, <1>5, <1>6 DEF entry_at

\* What is written of a field is read as that field, in lower case.
LEMMA FieldReadBack ==
  ASSUME NEW s \in Reading, ~s.error, s.d.dynamic = <<>>, NEW h \in RequestFields
  PROVE  /\ encode_field(h) \in Reps
         /\ decode_one(s, encode_field(h)) = [s EXCEPT !.headers = Append(@, lowercase(h))]
<1> DEFINE f == lowercase(h)
           u == [s EXCEPT !.headers = Append(@, f)]
<1>1. /\ f.name \in Seq(UTF8) /\ f.value \in Seq(UTF8) /\ Readable(Len(f.name)) /\ Readable(Len(f.value))
      /\ f = [name |-> f.name, value |-> f.value]
  BY LowercaseIs
<1> HIDE DEF f
<1>2. read_string(write_string(f.name)) = f.name /\ write_string(f.name) \in Wire /\ f.name \in Texts
  BY <1>1, StringReadBack
<1>3. read_string(write_string(f.value)) = f.value /\ write_string(f.value) \in Wire /\ f.value \in Texts
  BY <1>1, StringReadBack
<1>4. f.name # Err /\ f.value # Err
  BY <1>2, <1>3, CodingAssumption DEF Texts
<1>5. f \in Field
  BY <1>1, <1>2, <1>3 DEF Field
<1>6. f # Err
  <2>1. Err \notin Field
    BY HpackAssumption, Zenon DEF Field
  <2> QED BY <1>5, <2>1
<1>7. "indexed" \in Kinds /\ "literal" \in Kinds
  BY DEF Kinds
<1>8. ASSUME NEW kind \in Kinds, NEW i \in Nat, Readable(i)
      PROVE  Rep(kind, i) \in Reps /\ Rep(kind, i).kind = kind /\ i # Err
             /\ Rep(kind, i).int = write_integer(i, PrefixBits[kind])
             /\ read_integer(write_integer(i, PrefixBits[kind]), PrefixBits[kind]) = i
  BY <1>8, RepTyped, PrefixOf, NumberRead, NumberIsNot
<1>9. ASSUME NEW r \in Reps, r.kind = "literal", NEW i, Number(r) = i, i # Err, literal_field(<<>>, r, i) = f
      PROVE  decode_one(s, r) = u
  <2>1. r.kind \in {"literal", "incremental"} /\ r.kind # "incremental"
    BY <1>9
  <2>2. decode_one(s, r) =
            IF literal_field(s.d.dynamic, r, Number(r)) = Err THEN Fail(s)
            ELSE [s EXCEPT !.headers = Append(@, literal_field(s.d.dynamic, r, Number(r))),
                           !.d = IF r.kind = "incremental"
                                 THEN insert(@, literal_field(s.d.dynamic, r, Number(r))) ELSE @]
    BY <1>9, <2>1, TurnLiteral
  <2>3. literal_field(s.d.dynamic, r, Number(r)) = f
    BY <1>9
  <2>4. decode_one(s, r) = [s EXCEPT !.headers = Append(@, f), !.d = s.d]
    BY <1>6, <2>1, <2>2, <2>3, Zenon
  <2>5. s = [d |-> s.d, headers |-> s.headers, error |-> s.error]
    BY ReadingIs
  <2>6. [s EXCEPT !.headers = Append(@, f), !.d = s.d] = u
    BY <2>5
  <2> QED BY <2>4, <2>6
<1>10. CASE pair_to_index(f) # {}
  <2> DEFINE i == CHOOSE i \in pair_to_index(f) : TRUE
             r == Rep("indexed", i)
  <2>1. i \in DOMAIN STATIC_TABLE /\ STATIC_TABLE[i] = f
    BY <1>10 DEF pair_to_index
  <2>2. encode_field(h) = r
    BY <1>10, Zenon DEF encode_field, f
  <2> HIDE DEF i
  <2>3. i \in Nat /\ Readable(i) /\ i \in indices(<<>>) /\ entry_at(<<>>, i) = f
    BY <2>1, StaticPlace
  <2>4. r \in Reps /\ r.kind = "indexed" /\ Number(r) = i /\ i # Err
    BY <1>7, <1>8, <2>3 DEF Number
  <2> HIDE DEF r
  <2>5. decode_one(s, r) = IF Number(r) \in indices(s.d.dynamic)
                           THEN [s EXCEPT !.headers = Append(@, entry_at(s.d.dynamic, Number(r)))]
                           ELSE Fail(s)
    BY <2>4, TurnIndexed
  <2>6. decode_one(s, r) = u
    BY <2>3, <2>4, <2>5
  <2> QED BY <2>2, <2>4, <2>6 DEF f
<1>11. CASE pair_to_index(f) = {} /\ name_to_index(f.name) # {}
  <2> DEFINE i == CHOOSE i \in name_to_index(f.name) : TRUE
             z == Rep("literal", i)
             r == [z EXCEPT !.value = write_string(f.value)]
  <2>1. i \in DOMAIN STATIC_TABLE /\ STATIC_TABLE[i].name = f.name
    BY <1>11 DEF name_to_index, named
  <2>2. encode_field(h) = r
    BY <1>11, Zenon DEF encode_field, f
  <2> HIDE DEF i
  <2>3. i \in Nat /\ i # 0 /\ Readable(i) /\ i \in indices(<<>>) /\ entry_at(<<>>, i).name = f.name
    BY <2>1, StaticPlace
  <2>4. z \in Reps /\ z.kind = "literal" /\ Number(z) = i /\ i # Err
    BY <1>7, <1>8, <2>3 DEF Number
  <2> HIDE DEF z
  <2>5. r \in Reps /\ r.kind = "literal" /\ r.int = z.int /\ r.value = write_string(f.value)
    BY <1>3, <2>4 DEF Reps
  <2> HIDE DEF r
  <2>6. Number(r) = i
    BY <2>4, <2>5 DEF Number
  <2>7. literal_field(<<>>, r, i) = [name |-> f.name, value |-> f.value]
    BY <1>3, <1>4, <2>3, <2>5, Zenon DEF literal_field
  <2>8. decode_one(s, r) = u
    BY <1>1, <1>9, <2>4, <2>5, <2>6, <2>7
  <2> QED BY <2>2, <2>5, <2>8 DEF f
<1>12. CASE pair_to_index(f) = {} /\ name_to_index(f.name) = {}
  <2> DEFINE z == Rep("literal", 0)
             r == [z EXCEPT !.name = write_string(f.name), !.value = write_string(f.value)]
  <2>1. encode_field(h) = r
    BY <1>12, Zenon DEF encode_field, f
  <2>2. 0 \in Nat /\ Readable(0)
    BY BeyondIs, ReadableBelow
  <2>3. z \in Reps /\ z.kind = "literal" /\ Number(z) = 0 /\ 0 # Err
    BY <1>7, <1>8, <2>2 DEF Number
  <2> HIDE DEF z
  <2>4. r \in Reps /\ r.kind = "literal" /\ r.int = z.int /\ r.value = write_string(f.value) /\ r.name = write_string(f.name)
    BY <1>2, <1>3, <2>3 DEF Reps
  <2> HIDE DEF r
  <2>5. Number(r) = 0
    BY <2>3, <2>4 DEF Number
  <2>6. literal_field(<<>>, r, 0) = [name |-> f.name, value |-> f.value]
    BY <1>2, <1>3, <1>4, <2>4, Zenon DEF literal_field
  <2>7. decode_one(s, r) = u
    BY <1>1, <1>9, <2>3, <2>4, <2>5, <2>6
  <2> QED BY <2>1, <2>4, <2>7 DEF f
<1> QED BY <1>10, <1>11, <1>12

\* A request is read as its fields, names in lower case.
LEMMA RequestReadBack ==
  ASSUME NEW headers \in Seq(RequestFields)
  PROVE  LET s == decode(new_decoder(DEFAULT_TABLE_SIZE), encode(headers)) IN
         ~s.error /\ s.headers = [i \in DOMAIN headers |-> lowercase(headers[i])]
<1> DEFINE d == new_decoder(DEFAULT_TABLE_SIZE)
           reps == encode(headers)
           N == Len(headers)
           low(i) == lowercase(headers[i])
<1>1. N \in Nat /\ DOMAIN headers = 1..N /\ \A i \in 1..N : headers[i] \in RequestFields
  OBVIOUS
<1>2. Sound(d) /\ d.dynamic = <<>>
  BY EmptySized, Bounds DEF new_decoder, Sound, Counted, Decoders
<1> HIDE DEF d, N
<1>3. Start(d) \in Reading /\ Start(d).d = d /\ Start(d).error = FALSE /\ Start(d).headers = <<>>
  BY <1>2, StartTyped DEF Start
<1>4. reps = [i \in 1..N |-> encode_field(headers[i])] /\ \A i \in 1..N : encode_field(headers[i]) \in Reps
  BY <1>1, <1>2, <1>3, FieldReadBack DEF encode
<1>5. reps \in Seq(Reps) /\ Len(reps) = N /\ \A i \in 1..N : reps[i] = encode_field(headers[i])
  BY <1>1, <1>4
<1> HIDE DEF reps
<1>6. PICK q : Turns(q, d, reps)
  BY <1>2, <1>5, DecodeTurns
<1>7. q \in [0..N -> Reading] /\ q[0] = Start(d) /\ decode(d, reps) = q[N]
      /\ \A n \in 1..N : q[n] = decode_one(q[n - 1], reps[n])
  BY <1>5, <1>6 DEF Turns
<1> DEFINE Is(n) == /\ ~q[n].error /\ q[n].d = d /\ Len(q[n].headers) = n
                    /\ \A i \in 1..n : q[n].headers[i] = low(i)
           G == {n \in 0..N : Is(n)}
<1> HIDE DEF low
<1>8. 0 \in G
  BY <1>1, <1>3, <1>7
<1>9. ASSUME NEW n \in 0..N, n + 1 \in 0..N, n \in G PROVE n + 1 \in G
  <2> DEFINE s == q[n]
             u == q[n + 1]
  <2>1. n + 1 \in 1..N /\ (n + 1) - 1 = n /\ n \in Nat
    BY <1>1, <1>9
  <2>2. s \in Reading /\ u \in Reading /\ ~s.error /\ s.d = d /\ Len(s.headers) = n
        /\ \A i \in 1..n : s.headers[i] = low(i)
    BY <1>7, <1>9
  <2>3. u = decode_one(s, encode_field(headers[n + 1])) /\ headers[n + 1] \in RequestFields
    BY <1>1, <1>5, <1>7, <2>1
  <2> HIDE DEF s, u
  <2>4. u = [s EXCEPT !.headers = Append(@, low(n + 1))]
    BY <1>2, <2>2, <2>3, FieldReadBack DEF low
  <2>5. s.headers \in Headers /\ s = [d |-> s.d, headers |-> s.headers, error |-> s.error] /\ s.headers \in Seq(Field)
    BY <2>2, ReadingIs, HeadersAre
  <2>6. u.d = s.d /\ u.error = s.error /\ u.headers = Append(s.headers, low(n + 1))
    BY <2>4, <2>5
  <2>7. Len(u.headers) = n + 1 /\ u.headers[n + 1] = low(n + 1) /\ \A i \in 1..n : u.headers[i] = s.headers[i]
    BY <2>1, <2>2, <2>5, <2>6
  <2>8. \A i \in 1..n + 1 : u.headers[i] = low(i)
    <3> TAKE i \in 1..n + 1
    <3>1. i = n + 1 \/ i \in 1..n
      BY <2>1
    <3> QED BY <2>2, <2>7, <3>1
  <2>9. Is(n + 1)
    BY <2>2, <2>6, <2>7, <2>8 DEF u
  <2> HIDE DEF Is
  <2> QED BY <1>9, <2>9
<1>10. Is(N)
  <2>1. \A n \in 0..N : n \in G
    <3> HIDE DEF G
    <3> QED BY <1>1, <1>8, <1>9, UpTo
  <2>2. N \in G
    BY <1>1, <2>1
  <2> QED BY <2>2
<1> DEFINE h == q[N].headers
           m == [i \in DOMAIN headers |-> lowercase(headers[i])]
<1>11. h \in Headers
  BY <1>1, <1>7, ReadingIs
<1>12. h = m
  <2>1. h \in Seq(Field) /\ Len(h) = N /\ \A i \in 1..N : h[i] = low(i)
    BY <1>10, <1>11, HeadersAre
  <2>2. m = [i \in 1..N |-> low(i)]
    BY <1>1 DEF low
  <2> HIDE DEF h, m
  <2>3. h = [i \in 1..N |-> h[i]]
    BY <2>1
  <2> QED BY <2>1, <2>2, <2>3
<1>13. ~q[N].error
  BY <1>10
<1> QED BY <1>7, <1>12, <1>13 DEF d, reps

\* What the client encodes of a request, of any fields, the peer reads back with the names
\* in lower case, however the strings were written (encode, write_string).
THEOREM RequestSurvivesHolds == Spec => []RequestSurvives
<1>1. Init => RequestSurvives
  BY DEF Init, NoMessage, RequestSurvives
<1>2. RequestSurvives /\ [Next]_vars => RequestSurvives'
  <2> SUFFICES ASSUME RequestSurvives, [Next]_vars PROVE RequestSurvives'
    OBVIOUS
  <2>1. CASE UNCHANGED message
    BY <2>1 DEF RequestSurvives
  <2>2. ASSUME NEW bits \in HuffmanData, DecodeString(bits) PROVE RequestSurvives'
    BY <2>2 DEF DecodeString, RequestSurvives
  <2>3. ASSUME NEW headers \in BoundedSeq(RequestFields, 2), EncodeRequest(headers) PROVE RequestSurvives'
    <3> DEFINE s == decode(new_decoder(DEFAULT_TABLE_SIZE), encode(headers))
               low == [i \in DOMAIN headers |-> lowercase(headers[i])]
    <3>1. headers \in Seq(RequestFields)
      <4>1. PICK m \in 0..2 : headers \in [1..m -> RequestFields]
        BY Zenon DEF BoundedSeq, SeqOf
      <4>2. m \in Nat
        OBVIOUS
      <4> QED BY <4>1, <4>2
    <3>2. ~s.error /\ s.headers = low
      BY <3>1, RequestReadBack
    <3>3. message' = [kind |-> "request", sent |-> headers, got |-> IF s.error THEN Err ELSE s.headers]
      BY <2>3, Zenon DEF EncodeRequest
    <3> HIDE DEF s
    <3>4. message'.sent = headers /\ message'.got = low
      BY <3>2, <3>3
    <3> QED BY <3>4 DEF RequestSurvives
  <2>4. UNCHANGED message \/ (\E bits \in HuffmanData : DecodeString(bits))
        \/ (\E headers \in BoundedSeq(RequestFields, 2) : EncodeRequest(headers))
    BY DEF Next, Peer, PeerIndexed, PeerLiteral, PeerIncremental, PeerResize, PeerBad, PeerWide, Misuse, Emit,
           Building, complete_header_block, vars
  <2> QED BY <2>1, <2>2, <2>3, <2>4
<1> QED BY <1>1, <1>2, PTL DEF Spec
=============================================================================

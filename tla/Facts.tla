-------------------------------- MODULE Facts --------------------------------
(***************************************************************************)
(* Facts about remainders, on which the proofs about wrapping counters and *)
(* slot indices rest, and about sequences of numbered messages, for the    *)
(* proofs about queues.                                                    *)
(***************************************************************************)
EXTENDS Integers, FiniteSetTheorems, SequenceTheorems, TLAPS

-----------------------------------------------------------------------------
(* Remainders.                                                             *)

(* A remainder lies below the modulus, and with the quotient it gives the  *)
(* dividend back.                                                          *)
LEMMA DivMod ==
  ASSUME NEW a \in Int, NEW m \in Nat \ {0}
  PROVE  /\ a % m \in 0 .. (m - 1)
         /\ a \div m \in Int
         /\ a = m * (a \div m) + (a % m)
OBVIOUS

(* A positive multiple of m is at least m, a negative one at most -m.      *)
LEMMA MultipleBounds ==
  ASSUME NEW m \in Nat \ {0}, NEW k \in Int
  PROVE  /\ m * k \in Int
         /\ k >= 1 => m * k >= m
         /\ k <= -1 => m * k <= -m
         /\ k = 0 => m * k = 0
OBVIOUS

(* Two numbers below m that differ by a multiple of m are equal.           *)
LEMMA RemainderUnique ==
  ASSUME NEW m \in Nat \ {0}, NEW j \in Int, NEW k \in Int,
         NEW r \in 0 .. (m - 1), NEW s \in 0 .. (m - 1),
         m * j + r = m * k + s
  PROVE  r = s
<1>1. m * (j - k) = s - r
  OBVIOUS
<1>2. /\ j - k >= 1 => m * (j - k) >= m
      /\ j - k <= -1 => m * (j - k) <= -m
  BY MultipleBounds
<1>. QED
  BY <1>1, <1>2

(* The remainder of a number written as a multiple plus a remainder.       *)
LEMMA ModOf ==
  ASSUME NEW m \in Nat \ {0}, NEW k \in Int, NEW r \in 0 .. (m - 1)
  PROVE  (m * k + r) % m = r
<1>. DEFINE a == m * k + r
<1>1. m * k \in Int /\ a \in Int
  BY MultipleBounds
<1>2. /\ a % m \in 0 .. (m - 1)
      /\ a \div m \in Int
      /\ a = m * (a \div m) + (a % m)
  BY <1>1, DivMod
<1>. HIDE DEF a
<1>3. m * (a \div m) + (a % m) = m * k + r
  BY <1>2 DEF a
<1>. QED
  BY <1>2, <1>3, RemainderUnique DEF a

(* Counting on: the next slot of a circular buffer.                        *)
LEMMA ModSucc ==
  ASSUME NEW m \in Nat \ {0}, NEW a \in Int
  PROVE  ((a % m) + 1) % m = (a + 1) % m
<1>. DEFINE q == a \div m
            r == a % m
<1>1. r \in 0 .. (m - 1) /\ q \in Int /\ a = m * q + r
  BY DivMod
<1>. HIDE DEF q, r
<1>2. CASE r + 1 < m
  <2>1. a + 1 = m * q + (r + 1)
    BY <1>1
  <2>2. (m * q + (r + 1)) % m = r + 1
    BY <1>1, <1>2, ModOf
  <2>3. (m * 0 + (r + 1)) % m = r + 1
    BY <1>1, <1>2, ModOf
  <2>. QED
    BY <1>1, <2>1, <2>2, <2>3 DEF r
<1>3. CASE r + 1 = m
  <2>1. a + 1 = m * (q + 1) + 0
    BY <1>1, <1>3
  <2>2. (m * (q + 1) + 0) % m = 0
    BY <1>1, ModOf
  <2>3. (m * 1 + 0) % m = 0
    BY ModOf
  <2>. QED
    BY <1>1, <1>3, <2>1, <2>2, <2>3 DEF r
<1>. QED
  BY <1>1, <1>2, <1>3

(* Counting on below the modulus.                                          *)
LEMMA ModNext ==
  ASSUME NEW m \in Nat \ {0}, NEW a \in 0 .. (m - 1)
  PROVE  (a + 1) % m = IF a + 1 < m THEN a + 1 ELSE 0
<1>1. CASE a + 1 < m
  <2>1. (m * 0 + (a + 1)) % m = a + 1
    BY <1>1, ModOf
  <2>. QED
    BY <1>1, <2>1
<1>2. CASE a + 1 = m
  <2>1. (m * 1 + 0) % m = 0
    BY ModOf
  <2>. QED
    BY <1>2, <2>1
<1>. QED
  BY <1>1, <1>2

(* Numbers less than m apart have different remainders: the slots of one   *)
(* window do not collide.                                                  *)
LEMMA ModDistinct ==
  ASSUME NEW m \in Nat \ {0}, NEW a \in Int, NEW b \in Int,
         a < b, b < a + m
  PROVE  a % m # b % m
<1>1. SUFFICES ASSUME a % m = b % m
               PROVE  FALSE
  OBVIOUS
<1>2. /\ a \div m \in Int /\ b \div m \in Int
      /\ a % m \in 0 .. (m - 1) /\ b % m \in 0 .. (m - 1)
      /\ a = m * (a \div m) + (a % m)
      /\ b = m * (b \div m) + (b % m)
  BY DivMod
<1>3. m * ((b \div m) - (a \div m)) = b - a
  BY <1>1, <1>2
<1>4. LET k == (b \div m) - (a \div m)
      IN  /\ k >= 1 => m * k >= m
          /\ k <= -1 => m * k <= -m
          /\ k = 0 => m * k = 0
          /\ k \in Int
  BY <1>2, MultipleBounds
<1>. QED
  BY <1>2, <1>3, <1>4

(* A distance recovered from two wrapped counters: it is exact below m, and*)
(* a number up to m behind appears m further ahead.                        *)
LEMMA ModDistance ==
  ASSUME NEW m \in Nat \ {0}, NEW a \in Int, NEW o \in Int
  PROVE  /\ o <= a /\ a < o + m => ((a % m) - (o % m)) % m = a - o
         /\ o - m <= a /\ a < o => ((a % m) - (o % m)) % m = (a - o) + m
<1>. DEFINE qa == a \div m
            qo == o \div m
            ra == a % m
            ro == o % m
<1>1. /\ qa \in Int /\ qo \in Int
      /\ ra \in 0 .. (m - 1) /\ ro \in 0 .. (m - 1)
      /\ a = m * qa + ra
      /\ o = m * qo + ro
  BY DivMod
<1>. HIDE DEF qa, qo, ra, ro
<1>2. ASSUME o <= a, a < o + m
      PROVE  (ra - ro) % m = a - o
  <2>1. ra - ro = m * (qo - qa) + (a - o)
    BY <1>1
  <2>2. (m * (qo - qa) + (a - o)) % m = a - o
    BY <1>1, <1>2, ModOf, SMTT(30)
  <2>. QED
    BY <2>1, <2>2
<1>3. ASSUME o - m <= a, a < o
      PROVE  (ra - ro) % m = (a - o) + m
  <2>1. ra - ro = m * (qo - qa - 1) + (a - o + m)
    BY <1>1
  <2>2. (m * (qo - qa - 1) + (a - o + m)) % m = a - o + m
    BY <1>1, <1>3, ModOf, SMTT(30)
  <2>. QED
    BY <1>1, <2>1, <2>2
<1>. QED
  BY <1>2, <1>3 DEF ra, ro

-----------------------------------------------------------------------------
(* Natural numbers.                                                        *)

(* A set of natural numbers has a smallest element.                        *)
LEMMA Smallest ==
  ASSUME NEW S, S \subseteq Nat, S # {}
  PROVE  \E i \in S : \A j \in S : i <= j
<1> DEFINE R == OpToRel(<, Nat)
<1>1. IsWellFoundedOn(R, Nat)
  BY NatLessThanWellFounded
<1>2. ASSUME NEW i \in Nat, NEW j \in Nat, j < i PROVE <<j, i>> \in R
  BY <1>2, Zenon DEF OpToRel
<1> HIDE DEF R
<1>3. PICK i \in S : \A j \in S : <<j, i>> \notin R
  BY <1>1, WFMin
<1>4. ASSUME NEW j \in S PROVE i <= j
  <2>1. i \in Nat /\ j \in Nat
    OBVIOUS
  <2>2. ~(j < i)
    BY <1>2, <1>3, <2>1
  <2> QED
    BY <2>1, <2>2
<1> QED
  BY <1>4

(* A set that holds m, and with each number below n the next, reaches n.   *)
LEMMA Ascent ==
  ASSUME NEW m \in Nat, NEW n \in Nat, NEW P, m \in P,
         \A i \in m + 1 .. n : i - 1 \in P => i \in P
  PROVE  \A i \in m .. n : i \in P
<1> DEFINE S == {i \in m .. n : i \notin P}
<1>1. S = {}
  <2> SUFFICES ASSUME S # {} PROVE FALSE
    OBVIOUS
  <2>1. S \subseteq Nat
    OBVIOUS
  <2>2. PICK k \in S : \A j \in S : k <= j
    BY <2>1, Smallest
  <2>3. k \in m + 1 .. n /\ k \notin P
    BY <2>2
  <2>4. k - 1 \in m .. n /\ ~(k <= k - 1)
    BY <2>3
  <2>5. k - 1 \in P
    BY <2>2, <2>4
  <2> QED
    BY <2>3, <2>5
<1> QED
  BY <1>1

(* The results of the first n steps g from x on.                           *)
StepsTo(f, n, x, g) == f[0] = x /\ \A i \in 1 .. n : f[i] = g[i][f[i - 1]]

CanStepTo(X, n, x, g) == \E f \in [0 .. n -> X] : StepsTo(f, n, x, g)

(* A start and n steps have a function of their results.                   *)
LEMMA Iteration ==
  ASSUME NEW X, NEW n \in Nat, NEW x \in X, NEW g \in [1 .. n -> [X -> X]]
  PROVE  CanStepTo(X, n, x, g)
<1> DEFINE P == {k \in 0 .. n : CanStepTo(X, k, x, g)}
<1>1. CanStepTo(X, 0, x, g)
  <2>1. [i \in 0 .. 0 |-> x] \in [0 .. 0 -> X] /\ [i \in 0 .. 0 |-> x][0] = x
    OBVIOUS
  <2>2. \A i \in 1 .. 0 : [j \in 0 .. 0 |-> x][i] = g[i][[j \in 0 .. 0 |-> x][i - 1]]
    OBVIOUS
  <2> QED
    BY <2>1, <2>2 DEF CanStepTo, StepsTo
<1>2. ASSUME NEW k \in 1 .. n, CanStepTo(X, k - 1, x, g) PROVE CanStepTo(X, k, x, g)
  <2>1. PICK f \in [0 .. k - 1 -> X] :
          f[0] = x /\ \A i \in 1 .. k - 1 : f[i] = g[i][f[i - 1]]
    BY <1>2 DEF CanStepTo, StepsTo
  <2> DEFINE h == [i \in 0 .. k |-> IF i < k THEN f[i] ELSE g[k][f[k - 1]]]
  <2>2. k - 1 \in 0 .. k - 1 /\ f[k - 1] \in X /\ g[k] \in [X -> X]
    OBVIOUS
  <2>3. g[k][f[k - 1]] \in X
    BY <2>2
  <2>4. \A i \in 0 .. k : i < k => i \in 0 .. k - 1 /\ f[i] \in X
    OBVIOUS
  <2>5. h \in [0 .. k -> X]
    BY <2>3, <2>4
  <2>6. h[0] = x
    BY <2>1
  <2>7. ASSUME NEW i \in 1 .. k PROVE h[i] = g[i][h[i - 1]]
    <3>1. CASE i = k
      <4>1. h[k] = g[k][f[k - 1]] /\ h[k - 1] = f[k - 1]
        OBVIOUS
      <4> QED
        BY <3>1, <4>1
    <3>2. CASE i # k
      <4>1. i \in 1 .. k - 1 /\ i \in 0 .. k /\ i - 1 \in 0 .. k /\ i < k /\ i - 1 < k
        BY <3>2
      <4>2. h[i] = f[i] /\ h[i - 1] = f[i - 1]
        BY <4>1
      <4> QED
        BY <2>1, <4>1, <4>2
    <3> QED
      BY <3>1, <3>2
  <2> HIDE DEF h
  <2> QED
    BY <2>5, <2>6, <2>7 DEF CanStepTo, StepsTo
<1>3. 0 \in P /\ \A k \in 0 + 1 .. n : k - 1 \in P => k \in P
  BY <1>1, <1>2
<1>4. \A k \in 0 .. n : k \in P
  <2> HIDE DEF P
  <2> QED
    BY <1>3, Ascent
<1> QED
  BY <1>4

(* A bounded set of natural numbers has a largest element.                 *)
LEMMA Largest ==
  ASSUME NEW S, S \subseteq Nat, S # {}, NEW n \in Nat, \A i \in S : i <= n
  PROVE  \E i \in S : \A j \in S : j <= i
<1> DEFINE T == {n - i : i \in S}
<1>1. T \subseteq Nat /\ T # {}
  <2>1. ASSUME NEW i \in S PROVE n - i \in Nat
    OBVIOUS
  <2> QED
    BY <2>1
<1>2. PICK k \in T : \A j \in T : k <= j
  BY <1>1, Smallest
<1>3. PICK i \in S : k = n - i
  BY <1>2
<1>4. ASSUME NEW j \in S PROVE j <= i
  <2>1. n - j \in T
    OBVIOUS
  <2>2. n - i <= n - j
    BY <1>2, <1>3, <2>1
  <2>3. i \in Nat /\ j \in Nat
    OBVIOUS
  <2> QED
    BY <2>2, <2>3
<1> QED
  BY <1>4

(* A sequence of natural numbers is bounded.                               *)
LEMMA SequenceBounded ==
  ASSUME NEW s \in Seq(Nat)
  PROVE  \E n \in Nat : \A i \in 1 .. Len(s) : s[i] <= n
<1> DEFINE Bounded(k) == \E n \in Nat : \A i \in 1 .. k : s[i] <= n
           S == {k \in 0 .. Len(s) : ~Bounded(k)}
<1>1. Len(s) \in Nat /\ \A i \in 1 .. Len(s) : s[i] \in Nat
  OBVIOUS
<1>2. S = {}
  <2> SUFFICES ASSUME S # {} PROVE FALSE
    OBVIOUS
  <2>1. Bounded(0)
    <3>1. \A i \in 1 .. 0 : s[i] <= 0
      OBVIOUS
    <3> QED
      BY <3>1
  <2>2. ASSUME NEW k \in 1 .. Len(s), Bounded(k - 1) PROVE Bounded(k)
    <3>1. PICK n \in Nat : \A i \in 1 .. k - 1 : s[i] <= n
      BY <2>2
    <3> DEFINE a == s[k]
    <3>2. a \in Nat
      BY <1>1
    <3> HIDE DEF a
    <3> DEFINE m == n + a
    <3>3. m \in Nat /\ n <= m /\ a <= m
      BY <3>2
    <3> HIDE DEF m
    <3>4. ASSUME NEW i \in 1 .. k PROVE s[i] <= m
      <4>1. CASE i = k
        BY <3>3, <4>1 DEF a
      <4>2. CASE i # k
        <5>1. i \in 1 .. k - 1 /\ i \in 1 .. Len(s)
          BY <1>1, <4>2
        <5> DEFINE b == s[i]
        <5>2. b \in Nat /\ b <= n
          BY <1>1, <3>1, <5>1
        <5> HIDE DEF b
        <5>3. b <= m
          BY <3>3, <5>2
        <5> QED
          BY <5>3 DEF b
      <4> QED
        BY <4>1, <4>2
    <3> QED
      BY <3>3, <3>4
  <2> HIDE DEF Bounded
  <2>3. S \subseteq Nat
    BY <1>1
  <2>4. PICK k \in S : \A j \in S : k <= j
    BY <2>3, Smallest
  <2>5. k \in 1 .. Len(s) /\ ~Bounded(k)
    BY <1>1, <2>1, <2>4
  <2>6. k - 1 \in 0 .. Len(s) /\ ~(k <= k - 1)
    BY <1>1, <2>5
  <2>7. Bounded(k - 1)
    BY <2>4, <2>6
  <2> QED
    BY <2>2, <2>5, <2>7
<1> HIDE DEF Bounded
<1>3. Bounded(Len(s))
  BY <1>1, <1>2
<1> QED
  BY <1>3 DEF Bounded

-----------------------------------------------------------------------------
(* Sequences of numbers.                                                   *)

Increasing(s) == \A i, j \in 1 .. Len(s) : i < j => s[i] < s[j]

Distinct(s) == \A i, j \in 1 .. Len(s) : i # j => s[i] # s[j]

(* t is s without its first n elements.                                    *)
WithoutFirst(t, s, n) ==
  /\ t \in Seq(Nat) /\ n \in 0 .. Len(s) /\ Len(t) = Len(s) - n
  /\ \A i \in 1 .. Len(t) : t[i] = s[i + n]

(* A sequence with all its elements in S is one over S.                    *)
LEMMA SeqNarrows ==
  ASSUME NEW S, NEW s \in Seq(Nat), \A i \in 1 .. Len(s) : s[i] \in S
  PROVE  s \in Seq(S)
<1>1. Len(s) \in Nat /\ s \in [1 .. Len(s) -> S]
  OBVIOUS
<1> QED
  BY <1>1

(* An increasing sequence repeats nothing.                                 *)
LEMMA RangeOfDistinct ==
  ASSUME NEW s \in Seq(Nat), Increasing(s)
  PROVE  IsFiniteSet(Range(s)) /\ Cardinality(Range(s)) = Len(s)
<1>1. Len(s) \in Nat /\ s \in [1 .. Len(s) -> Nat] /\ DOMAIN s = 1 .. Len(s)
  OBVIOUS
<1>2. \A i, j \in 1 .. Len(s) : i # j => s[i] # s[j]
  <2> SUFFICES ASSUME NEW i \in 1 .. Len(s), NEW j \in 1 .. Len(s), i # j
               PROVE  s[i] # s[j]
    OBVIOUS
  <2>1. s[i] \in Nat /\ s[j] \in Nat
    BY <1>1
  <2>2. i < j \/ j < i
    BY <1>1
  <2> QED
    BY <2>1, <2>2 DEF Increasing
<1>3. s \in Bijection(1 .. Len(s), Range(s))
  BY <1>1, <1>2 DEF Bijection, Injection, Surjection, Range, IsInjective
<1>4. ExistsBijection(1 .. Len(s), Range(s))
  BY <1>3 DEF ExistsBijection
<1>5. IsFiniteSet(Range(s))
  BY <1>1, <1>4, FS_NatBijection
<1> QED
  BY <1>1, <1>4, <1>5, FS_CountingElements

(* What is in a sequence, place by place.                                  *)
LEMMA InRange ==
  ASSUME NEW s \in Seq(Nat)
  PROVE  /\ \A i \in 1 .. Len(s) : s[i] \in Range(s) /\ s[i] \in Nat
         /\ \A x \in Range(s) : \E i \in 1 .. Len(s) : x = s[i]
         /\ Range(s) \subseteq Nat
<1>1. Len(s) \in Nat /\ s \in [1 .. Len(s) -> Nat] /\ DOMAIN s = 1 .. Len(s)
  OBVIOUS
<1> QED
  BY <1>1 DEF Range

(* An increasing sequence has every number once.                           *)
LEMMA IncreasingIsDistinct ==
  ASSUME NEW s \in Seq(Nat), Increasing(s)
  PROVE  Distinct(s)
<1> SUFFICES ASSUME NEW i \in 1 .. Len(s), NEW j \in 1 .. Len(s), i # j
             PROVE  s[i] # s[j]
  BY DEF Distinct
<1>1. s[i] \in Nat /\ s[j] \in Nat /\ (i < j \/ j < i)
  OBVIOUS
<1> QED
  BY <1>1 DEF Increasing

(* An element put at the end.                                              *)
LEMMA AppendFacts ==
  ASSUME NEW s \in Seq(Nat), NEW x \in Nat
  PROVE  /\ Append(s, x) \in Seq(Nat) /\ Len(Append(s, x)) = Len(s) + 1
         /\ Range(Append(s, x)) = Range(s) \union {x}
         /\ Append(s, x)[Len(s) + 1] = x
         /\ \A i \in 1 .. Len(s) : Append(s, x)[i] = s[i]
         /\ \A i \in 1 .. Len(Append(s, x)) : i \in 1 .. Len(s) \/ i = Len(s) + 1
<1> DEFINE t == Append(s, x)
<1>1. /\ t \in Seq(Nat) /\ Len(t) = Len(s) + 1 /\ t[Len(s) + 1] = x
      /\ \A i \in 1 .. Len(s) : t[i] = s[i]
      /\ \A i \in 1 .. Len(t) : i \in 1 .. Len(s) \/ i = Len(s) + 1
      /\ Len(s) \in Nat
  OBVIOUS
<1> HIDE DEF t
<1>2. /\ \A i \in 1 .. Len(s) : s[i] \in Range(s) /\ t[i] \in Range(t)
      /\ t[Len(s) + 1] \in Range(t)
      /\ \A y \in Range(s) : \E i \in 1 .. Len(s) : y = s[i]
      /\ \A y \in Range(t) : \E i \in 1 .. Len(t) : y = t[i]
  <2>1. /\ \A i \in 1 .. Len(s) : i \in 1 .. Len(t)
        /\ Len(s) + 1 \in 1 .. Len(t)
    BY <1>1
  <2> QED
    BY <1>1, <2>1, InRange
<1>3. ASSUME NEW y \in Range(s) \union {x}
      PROVE  y \in Range(t)
  <2>1. CASE y \in Range(s)
    <3>1. PICK i \in 1 .. Len(s) : y = s[i]
      BY <1>2, <2>1
    <3>2. t[i] = y
      BY <1>1, <3>1
    <3> QED
      BY <1>2, <3>2
  <2>2. CASE y = x
    BY <1>1, <1>2, <2>2
  <2> QED
    BY <2>1, <2>2
<1>4. ASSUME NEW y \in Range(t)
      PROVE  y \in Range(s) \union {x}
  <2>1. PICK i \in 1 .. Len(t) : y = t[i]
    BY <1>2
  <2> QED
    BY <1>1, <1>2, <2>1
<1>5. Range(t) = Range(s) \union {x}
  BY <1>3, <1>4
<1> QED
  BY <1>1, <1>5 DEF t

(* A number the sequence does not hold can be appended.                    *)
LEMMA AppendDistinct ==
  ASSUME NEW s \in Seq(Nat), NEW x \in Nat, Distinct(s), x \notin Range(s)
  PROVE  Distinct(Append(s, x))
<1> DEFINE t == Append(s, x)
<1>1. /\ t[Len(s) + 1] = x
      /\ \A i \in 1 .. Len(s) : t[i] = s[i]
      /\ \A i \in 1 .. Len(t) : i \in 1 .. Len(s) \/ i = Len(s) + 1
  BY AppendFacts
<1>2. \A i \in 1 .. Len(s) : s[i] # x
  BY InRange
<1> HIDE DEF t
<1>3. Distinct(t)
  BY <1>1, <1>2 DEF Distinct
<1> QED
  BY <1>3 DEF t

(* A number above all that the sequence holds can be appended.             *)
LEMMA AppendIncreasing ==
  ASSUME NEW s \in Seq(Nat), NEW x \in Nat, Increasing(s), \A y \in Range(s) : y < x
  PROVE  Increasing(Append(s, x))
<1> DEFINE t == Append(s, x)
<1>1. /\ t[Len(s) + 1] = x /\ Len(t) = Len(s) + 1 /\ Len(s) \in Nat
      /\ \A i \in 1 .. Len(s) : t[i] = s[i]
      /\ \A i \in 1 .. Len(t) : i \in 1 .. Len(s) \/ i = Len(s) + 1
  BY AppendFacts
<1>2. \A i \in 1 .. Len(s) : s[i] < x
  BY InRange
<1> HIDE DEF t
<1>3. ASSUME NEW i \in 1 .. Len(t), NEW j \in 1 .. Len(t), i < j
      PROVE  t[i] < t[j]
  <2>1. i \in 1 .. Len(s)
    BY <1>1, <1>3
  <2>2. CASE j \in 1 .. Len(s)
    BY <1>1, <1>3, <2>1, <2>2 DEF Increasing
  <2>3. CASE j = Len(s) + 1
    BY <1>1, <1>2, <2>1, <2>3
  <2> QED
    BY <1>1, <2>2, <2>3
<1> QED
  BY <1>3 DEF t, Increasing

(* What a sequence without its first elements keeps.                       *)
LEMMA SuffixFacts ==
  ASSUME NEW s \in Seq(Nat), NEW n, NEW t, WithoutFirst(t, s, n)
  PROVE  /\ \A i \in 1 .. Len(t) : i + n \in 1 .. Len(s) /\ t[i] = s[i + n]
         /\ Range(t) \subseteq Range(s)
         /\ Distinct(s) => Distinct(t)
         /\ Increasing(s) => Increasing(t)
<1>1. /\ t \in Seq(Nat) /\ Len(t) \in Nat /\ Len(s) \in Nat /\ n \in 0 .. Len(s)
      /\ Len(t) = Len(s) - n
      /\ \A i \in 1 .. Len(t) : t[i] = s[i + n]
  BY DEF WithoutFirst
<1>2. ASSUME NEW i \in 1 .. Len(t)
      PROVE  i + n \in 1 .. Len(s) /\ t[i] = s[i + n]
  <2>1. i + n \in 1 .. Len(s)
    BY <1>1, SMTT(30)
  <2> QED
    BY <1>1, <2>1, Zenon
<1>3. /\ \A x \in Range(t) : \E i \in 1 .. Len(t) : x = t[i]
      /\ \A i \in 1 .. Len(s) : s[i] \in Range(s)
  BY <1>1, InRange
<1>4. Range(t) \subseteq Range(s)
  BY <1>2, <1>3
<1>5. ASSUME Distinct(s), NEW i \in 1 .. Len(t), NEW j \in 1 .. Len(t), i # j
      PROVE  t[i] # t[j]
  <2>1. i + n \in 1 .. Len(s) /\ j + n \in 1 .. Len(s) /\ i + n # j + n
    BY <1>1, <1>2, <1>5
  <2> QED
    BY <1>2, <1>5, <2>1 DEF Distinct
<1>6. ASSUME Increasing(s), NEW i \in 1 .. Len(t), NEW j \in 1 .. Len(t), i < j
      PROVE  t[i] < t[j]
  <2>1. i + n \in 1 .. Len(s) /\ j + n \in 1 .. Len(s) /\ i + n < j + n
    BY <1>1, <1>2, <1>6
  <2> QED
    BY <1>2, <1>6, <2>1 DEF Increasing
<1> QED
  BY <1>2, <1>4, <1>5, <1>6 DEF Distinct, Increasing

(* What the tail of a sequence of distinct numbers holds.                  *)
LEMMA TailFacts ==
  ASSUME NEW s \in Seq(Nat), s # << >>, Distinct(s)
  PROVE  /\ WithoutFirst(Tail(s), s, 1) /\ Len(Tail(s)) = Len(s) - 1 /\ Len(s) >= 1
         /\ Tail(s) \in Seq(Nat) /\ Distinct(Tail(s))
         /\ Head(s) = s[1] /\ Head(s) \in Nat /\ Head(s) \in Range(s)
         /\ Range(Tail(s)) = Range(s) \ {Head(s)}
         /\ Increasing(s) => \A x \in Range(Tail(s)) : Head(s) < x
<1>1. /\ Tail(s) \in Seq(Nat) /\ Len(s) \in Nat /\ Len(s) >= 1
      /\ Len(Tail(s)) = Len(s) - 1 /\ Head(s) = s[1] /\ 1 \in 1 .. Len(s)
      /\ \A i \in 1 .. Len(Tail(s)) : Tail(s)[i] = s[i + 1]
  OBVIOUS
<1>2. WithoutFirst(Tail(s), s, 1)
  BY <1>1 DEF WithoutFirst
<1>3. Distinct(Tail(s)) /\ Range(Tail(s)) \subseteq Range(s)
  BY <1>2, SuffixFacts
<1>4. /\ \A i \in 1 .. Len(s) : s[i] \in Range(s) /\ s[i] \in Nat
      /\ \A x \in Range(s) : \E i \in 1 .. Len(s) : x = s[i]
      /\ \A i \in 1 .. Len(Tail(s)) : Tail(s)[i] \in Range(Tail(s))
      /\ \A x \in Range(Tail(s)) : \E i \in 1 .. Len(Tail(s)) : x = Tail(s)[i]
  BY <1>1, InRange
<1>5. \A i \in 1 .. Len(Tail(s)) : i + 1 \in 1 .. Len(s) /\ i + 1 # 1 /\ 1 < i + 1
  BY <1>1
<1>6. Head(s) \notin Range(Tail(s))
  BY <1>1, <1>4, <1>5 DEF Distinct
<1>7. ASSUME NEW x \in Range(s), x # Head(s)
      PROVE  x \in Range(Tail(s))
  <2>1. PICK i \in 1 .. Len(s) : x = s[i]
    BY <1>4
  <2>2. i - 1 \in 1 .. Len(Tail(s)) /\ (i - 1) + 1 = i
    BY <1>1, <1>7, <2>1
  <2>3. Tail(s)[i - 1] = x
    BY <1>1, <2>1, <2>2
  <2> QED
    BY <1>4, <2>2, <2>3
<1>8. ASSUME Increasing(s), NEW x \in Range(Tail(s))
      PROVE  Head(s) < x
  <2>1. PICK i \in 1 .. Len(Tail(s)) : x = Tail(s)[i]
    BY <1>4
  <2>2. x = s[i + 1] /\ i + 1 \in 1 .. Len(s) /\ 1 < i + 1
    BY <1>1, <1>5, <2>1
  <2> QED
    BY <1>1, <1>8, <2>2 DEF Increasing
<1> QED
  BY <1>1, <1>2, <1>3, <1>4, <1>6, <1>7, <1>8

(* A sequence cut in two.                                                  *)
LEMMA CutFacts ==
  ASSUME NEW s \in Seq(Nat), NEW n \in 0 .. Len(s), Distinct(s)
  PROVE  LET first == SubSeq(s, 1, n)
             rest  == SubSeq(s, n + 1, Len(s))
         IN  /\ WithoutFirst(rest, s, n) /\ rest \in Seq(Nat) /\ first \in Seq(Nat)
             /\ Range(first) \subseteq Range(s)
             /\ Range(rest) = Range(s) \ Range(first)
<1> DEFINE first == SubSeq(s, 1, n)
           rest  == SubSeq(s, n + 1, Len(s))
<1>1. Len(s) \in Nat /\ n \in Nat /\ n <= Len(s)
  OBVIOUS
<1>2. \A i \in 1 .. Len(s) : s[i] \in Nat
  OBVIOUS
<1>3. /\ first \in Seq(Nat) /\ Len(first) = n /\ \A i \in 1 .. n : first[i] = s[i]
  <2>1. \A i \in 1 .. n : s[i] \in Nat
    BY <1>1, <1>2
  <2> QED
    BY <1>1, <2>1, SubSeqProperties
<1>4. /\ rest \in Seq(Nat) /\ Len(rest) = Len(s) - n
      /\ \A i \in 1 .. Len(s) - n : rest[i] = s[(n + 1) + i - 1]
  <2>1. n + 1 \in Int /\ \A i \in n + 1 .. Len(s) : s[i] \in Nat
    BY <1>1, <1>2
  <2> QED
    BY <1>1, <2>1, SubSeqProperties
<1>5. \A i \in 1 .. Len(rest) : rest[i] = s[i + n]
  BY <1>1, <1>4, SMTT(30)
<1> HIDE DEF first, rest
<1>6. WithoutFirst(rest, s, n)
  BY <1>1, <1>4, <1>5 DEF WithoutFirst
<1>7. /\ \A i \in 1 .. Len(s) : s[i] \in Range(s)
      /\ \A x \in Range(s) : \E i \in 1 .. Len(s) : x = s[i]
      /\ \A i \in 1 .. n : first[i] \in Range(first)
      /\ \A x \in Range(first) : \E i \in 1 .. n : x = first[i]
      /\ \A i \in 1 .. Len(rest) : rest[i] \in Range(rest)
      /\ \A x \in Range(rest) : \E i \in 1 .. Len(rest) : x = rest[i]
  BY <1>3, <1>4, InRange
<1>8. \A i \in 1 .. n : i \in 1 .. Len(s)
  BY <1>1
<1>9. Range(first) \subseteq Range(s)
  BY <1>3, <1>7, <1>8
<1>10. ASSUME NEW x \in Range(s), x \notin Range(first)
       PROVE  x \in Range(rest)
  <2>1. PICK i \in 1 .. Len(s) : x = s[i]
    BY <1>7
  <2>2. i \notin 1 .. n
    BY <1>3, <1>7, <1>10, <2>1
  <2>3. i - n \in 1 .. Len(rest) /\ (i - n) + n = i
    BY <1>1, <1>4, <2>1, <2>2
  <2>4. rest[i - n] = x
    BY <1>5, <2>1, <2>3
  <2> QED
    BY <1>7, <2>3, <2>4
<1>11. ASSUME NEW x \in Range(rest)
       PROVE  x \in Range(s) /\ x \notin Range(first)
  <2>1. PICK i \in 1 .. Len(rest) : x = rest[i]
    BY <1>7
  <2>2. x = s[i + n] /\ i + n \in 1 .. Len(s) /\ \A j \in 1 .. n : j # i + n
    BY <1>1, <1>4, <1>5, <2>1
  <2>3. \A j \in 1 .. n : first[j] # x
    BY <1>3, <1>8, <2>2 DEF Distinct
  <2> QED
    BY <1>7, <2>2, <2>3
<1>12. Range(rest) = Range(s) \ Range(first)
  BY <1>10, <1>11
<1> QED
  BY <1>3, <1>4, <1>6, <1>9, <1>12 DEF first, rest

(* Two sequences without a common element, one after the other.            *)
LEMMA JoinFacts ==
  ASSUME NEW s \in Seq(Nat), NEW t \in Seq(Nat), Distinct(s), Distinct(t),
         Range(s) \cap Range(t) = {}
  PROVE  /\ s \o t \in Seq(Nat) /\ Distinct(s \o t)
         /\ Range(s \o t) = Range(s) \union Range(t)
<1> DEFINE u == s \o t
<1>1. /\ u \in Seq(Nat) /\ Len(u) = Len(s) + Len(t) /\ Len(s) \in Nat /\ Len(t) \in Nat
      /\ \A i \in 1 .. Len(s) : u[i] = s[i]
      /\ \A i \in Len(s) + 1 .. Len(s) + Len(t) : u[i] = t[i - Len(s)]
  OBVIOUS
<1> HIDE DEF u
<1>2. \A i \in 1 .. Len(u) : i \in 1 .. Len(s) \/ i \in Len(s) + 1 .. Len(s) + Len(t)
  BY <1>1
<1>3. \A i \in Len(s) + 1 .. Len(s) + Len(t) : i - Len(s) \in 1 .. Len(t)
  BY <1>1
<1>4. /\ \A i \in 1 .. Len(s) : s[i] \in Range(s)
      /\ \A i \in 1 .. Len(t) : t[i] \in Range(t)
      /\ \A i \in 1 .. Len(u) : u[i] \in Range(u)
      /\ \A x \in Range(s) : \E i \in 1 .. Len(s) : x = s[i]
      /\ \A x \in Range(t) : \E i \in 1 .. Len(t) : x = t[i]
      /\ \A x \in Range(u) : \E i \in 1 .. Len(u) : x = u[i]
  BY <1>1, InRange
<1>5. /\ \A i \in 1 .. Len(s) : u[i] \in Range(s)
      /\ \A i \in Len(s) + 1 .. Len(s) + Len(t) : u[i] \in Range(t)
  BY <1>1, <1>3, <1>4
<1>6. Distinct(u)
  <2> SUFFICES ASSUME NEW i \in 1 .. Len(u), NEW j \in 1 .. Len(u), i # j
               PROVE  u[i] # u[j]
    BY DEF Distinct
  <2>1. CASE i \in 1 .. Len(s) /\ j \in 1 .. Len(s)
    BY <1>1, <2>1 DEF Distinct
  <2>2. CASE i \in Len(s) + 1 .. Len(s) + Len(t) /\ j \in Len(s) + 1 .. Len(s) + Len(t)
    <3>1. /\ i - Len(s) \in 1 .. Len(t) /\ j - Len(s) \in 1 .. Len(t)
          /\ i - Len(s) # j - Len(s)
      BY <1>1, <1>3, <2>2, SMTT(30)
    <3> QED
      BY <1>1, <2>2, <3>1, ZenonT(40) DEF Distinct
  <2>3. CASE i \in 1 .. Len(s) /\ j \in Len(s) + 1 .. Len(s) + Len(t)
    BY <1>5, <2>3
  <2>4. CASE i \in Len(s) + 1 .. Len(s) + Len(t) /\ j \in 1 .. Len(s)
    BY <1>5, <2>4
  <2> QED
    BY <1>2, <2>1, <2>2, <2>3, <2>4
<1>7. Range(u) \subseteq Range(s) \union Range(t)
  BY <1>2, <1>4, <1>5
<1>8. ASSUME NEW x \in Range(s)
      PROVE  x \in Range(u)
  <2>1. PICK i \in 1 .. Len(s) : x = s[i]
    BY <1>4
  <2>2. i \in 1 .. Len(u) /\ u[i] = x
    BY <1>1, <2>1
  <2> QED
    BY <1>4, <2>2
<1>9. ASSUME NEW x \in Range(t)
      PROVE  x \in Range(u)
  <2>1. PICK i \in 1 .. Len(t) : x = t[i]
    BY <1>4
  <2>2. Len(s) + i \in Len(s) + 1 .. Len(s) + Len(t) /\ Len(s) + i \in 1 .. Len(u)
        /\ (Len(s) + i) - Len(s) = i
    BY <1>1, <2>1
  <2>3. u[Len(s) + i] = x
    BY <1>1, <2>1, <2>2
  <2> QED
    BY <1>4, <2>2, <2>3
<1> QED
  BY <1>1, <1>6, <1>7, <1>8, <1>9 DEF u

(* What a concatenation holds.                                             *)
LEMMA ConcatFacts ==
  ASSUME NEW S, NEW s \in Seq(S), NEW t \in Seq(S)
  PROVE  /\ s \o t \in Seq(S) /\ Len(s \o t) = Len(s) + Len(t)
         /\ \A k \in 1 .. Len(s) + Len(t) :
              (s \o t)[k] = IF k <= Len(s) THEN s[k] ELSE t[k - Len(s)]
OBVIOUS

(* The same, told for each of the two parts.                               *)
LEMMA ConcatParts ==
  ASSUME NEW S, NEW s \in Seq(S), NEW t \in Seq(S)
  PROVE  /\ s \o t \in Seq(S) /\ Len(s \o t) = Len(s) + Len(t)
         /\ Len(s) \in Nat /\ Len(t) \in Nat
         /\ \A k \in 1 .. Len(s) : (s \o t)[k] = s[k]
         /\ \A k \in 1 .. Len(t) : (s \o t)[Len(s) + k] = t[k]
OBVIOUS

(* What one more element adds.                                             *)
LEMMA AppendParts ==
  ASSUME NEW S, NEW s \in Seq(S), NEW x \in S
  PROVE  /\ Append(s, x) \in Seq(S) /\ Len(Append(s, x)) = Len(s) + 1 /\ Len(s) \in Nat
         /\ \A k \in 1 .. Len(s) : Append(s, x)[k] = s[k]
         /\ Append(s, x)[Len(s) + 1] = x
OBVIOUS

(* What is left without the first n elements.                              *)
LEMMA RestParts ==
  ASSUME NEW S, NEW s \in Seq(S), NEW n \in 0 .. Len(s)
  PROVE  /\ SubSeq(s, n + 1, Len(s)) \in Seq(S)
         /\ Len(SubSeq(s, n + 1, Len(s))) = Len(s) - n /\ Len(s) \in Nat
         /\ \A k \in 1 .. Len(s) - n : SubSeq(s, n + 1, Len(s))[k] = s[k + n]
<1> DEFINE m == Len(s)
           t == SubSeq(s, n + 1, m)
<1>1. m \in Nat /\ n \in Nat /\ n <= m
  OBVIOUS
<1>2. \A k \in n + 1 .. m : s[k] \in S
  BY <1>1
<1>3. t = [k \in 1 .. m - n |-> s[k + n]]
  BY <1>1
<1>4. \A k \in 1 .. m - n : t[k] = s[k + n] /\ s[k + n] \in S
  BY <1>1, <1>2, <1>3
<1>5. t \in Seq(S) /\ Len(t) = m - n
  BY <1>1, <1>3, <1>4
<1> QED
  BY <1>1, <1>4, <1>5

(* What is left without the first one.                                     *)
LEMMA TailParts ==
  ASSUME NEW S, NEW s \in Seq(S), s # << >>
  PROVE  /\ Tail(s) \in Seq(S) /\ Len(Tail(s)) = Len(s) - 1 /\ Len(s) \in Nat \ {0}
         /\ Head(s) = s[1] /\ Head(s) \in S
         /\ \A k \in 1 .. Len(s) - 1 : Tail(s)[k] = s[k + 1]
OBVIOUS

(* The first n elements.                                                   *)
LEMMA PrefixParts ==
  ASSUME NEW S, NEW s \in Seq(S), NEW n \in 0 .. Len(s)
  PROVE  /\ SubSeq(s, 1, n) \in Seq(S) /\ Len(SubSeq(s, 1, n)) = n
         /\ \A k \in 1 .. n : SubSeq(s, 1, n)[k] = s[k]
OBVIOUS

=============================================================================

------------------------- MODULE StoreForwardProofs -------------------------
(***************************************************************************)
(* Where a message published over a broken link may be, in what order the  *)
(* client gets what arrives, and what an outage costs, for every size of   *)
(* the backlog and of the socket's queue.                                  *)
(***************************************************************************)
EXTENDS StoreForward, Facts

(* Only a message that was put aside is overtaken, and never by another    *)
(* one that was put aside.                                                 *)
Late(as, s) ==
  \A i, j \in 1 .. Len(s) : i < j /\ s[i] > s[j] => s[j] \in as /\ s[i] \notin as

Where(H, b, p, d) == H \union Range(b) \union Range(p) \union Range(d)

(* Each of pub messages is in one place, in the hand H of the application, *)
(* in its backlog b, in the socket's pipe p or delivered in d, or f tells  *)
(* how it was lost.                                                        *)
Placed(pub, H, b, p, d, f) ==
  /\ pub \in 0 .. MaxMsgs
  /\ b \in Seq(Nat) /\ p \in Seq(Nat) /\ d \in Seq(Nat)
  /\ Distinct(b) /\ Distinct(p) /\ Distinct(d)
  /\ Range(b) \cap Range(p) = {} /\ Range(b) \cap Range(d) = {} /\ Range(p) \cap Range(d) = {}
  /\ H \cap (Range(b) \union Range(p) \union Range(d)) = {}
  /\ Where(H, b, p, d) \subseteq 1 .. pub
  /\ f \in [1 .. MaxMsgs -> Fates]
  /\ \A k \in 1 .. pub : f[k] = "none" <=> k \in Where(H, b, p, d)
  /\ \A k \in 1 .. MaxMsgs : k > pub => f[k] = "none"

(* The backlog is in order, holds only messages put aside (as), and all    *)
(* others that were put aside and went out are older.                      *)
Ordered(as, H, b, p, d) ==
  /\ Increasing(b) /\ Range(b) \subseteq as
  /\ Late(as, d) /\ Late(as, p)
  /\ \A x \in Range(d), y \in Range(p) \union H : x > y => y \in as /\ x \notin as
  /\ \A x \in Range(p), y \in H : x > y => y \in as /\ x \notin as
  /\ \A x \in H \union Range(p) \union Range(d), k \in Range(b) : x \in as => x < k

EvictedFirst(pub, as, b, f) ==
  \A m \in 1 .. pub : f[m] = "evicted" =>
    /\ \A k \in Range(b) : m < k
    /\ Cardinality({k \in as : k > m}) >= Cap

StoreInv ==
  /\ Placed(published, {}, m_backlog, pipe, delivered, fate)
  /\ Ordered(aside, {}, m_backlog, pipe, delivered)
  /\ EvictedFirst(published, aside, m_backlog, fate)
  /\ aside \subseteq 1 .. published
  /\ Len(m_backlog) <= Cap /\ Len(pipe) <= Hwm
  /\ faults \in 0 .. MaxFaults
  /\ draining => m_backlog # << >>

-----------------------------------------------------------------------------
(* What happens to the message m in the application's hand.                *)

(* The socket drops it.                                                    *)
LEMMA DropKeeps ==
  ASSUME NEW pub, NEW as, NEW b, NEW p, NEW d, NEW f, NEW m,
         NEW w \in {"unheard", "overflow"},
         Placed(pub, {m}, b, p, d, f), Ordered(as, {m}, b, p, d),
         EvictedFirst(pub, as, b, f)
  PROVE  /\ Placed(pub, {}, b, p, d, [f EXCEPT ![m] = w])
         /\ Ordered(as, {}, b, p, d)
         /\ EvictedFirst(pub, as, b, [f EXCEPT ![m] = w])
<1> DEFINE g == [f EXCEPT ![m] = w]
<1>1. /\ pub \in Nat /\ pub <= MaxMsgs /\ m \in 1 .. pub /\ m \in 1 .. MaxMsgs
      /\ MaxMsgs \in Nat /\ f \in [1 .. MaxMsgs -> Fates] /\ w \in Fates
  BY StoreForwardAssumption DEF Placed, Where, Fates
<1>2. /\ g \in [1 .. MaxMsgs -> Fates] /\ g[m] = w
      /\ \A k \in 1 .. MaxMsgs : k # m => g[k] = f[k]
      /\ \A k \in 1 .. pub : k \in 1 .. MaxMsgs
  BY <1>1
<1> HIDE DEF g
<1>3. Where({}, b, p, d) = Where({m}, b, p, d) \ {m}
  BY DEF Placed, Where
<1>4. Placed(pub, {}, b, p, d, g)
  <2>1. \A k \in 1 .. pub : g[k] = "none" <=> k \in Where({}, b, p, d)
    BY <1>1, <1>2, <1>3 DEF Placed
  <2>2. \A k \in 1 .. MaxMsgs : k > pub => g[k] = "none"
    BY <1>1, <1>2 DEF Placed
  <2> QED
    BY <1>2, <1>3, <2>1, <2>2 DEF Placed
<1>5. Ordered(as, {}, b, p, d)
  BY DEF Ordered
<1>6. EvictedFirst(pub, as, b, g)
  BY <1>2 DEF EvictedFirst
<1> QED
  BY <1>4, <1>5, <1>6 DEF g

(* The socket takes it.                                                    *)
LEMMA TakeKeeps ==
  ASSUME NEW pub, NEW as, NEW b, NEW p, NEW d, NEW f, NEW m,
         Placed(pub, {m}, b, p, d, f), Ordered(as, {m}, b, p, d)
  PROVE  /\ Placed(pub, {}, b, Append(p, m), d, f)
         /\ Ordered(as, {}, b, Append(p, m), d)
<1> DEFINE q == Append(p, m)
<1>1. p \in Seq(Nat) /\ Distinct(p) /\ m \in Nat /\ m \notin Range(p)
  BY DEF Placed, Where
<1>2. /\ q \in Seq(Nat) /\ Len(q) = Len(p) + 1
      /\ Range(q) = Range(p) \union {m}
      /\ q[Len(p) + 1] = m
      /\ \A i \in 1 .. Len(p) : q[i] = p[i]
      /\ \A i \in 1 .. Len(q) : i \in 1 .. Len(p) \/ i = Len(p) + 1
  BY <1>1, AppendFacts
<1>3. Distinct(q)
  BY <1>1, AppendDistinct
<1>4. \A i \in 1 .. Len(p) : p[i] \in Range(p) /\ p[i] \in Nat
  BY <1>1, InRange
<1> HIDE DEF q
<1>5. Where({}, b, q, d) = Where({m}, b, p, d)
  BY <1>2 DEF Where
<1>6. Placed(pub, {}, b, q, d, f)
  BY <1>2, <1>3, <1>5 DEF Placed
<1>7. Late(as, q)
  <2> SUFFICES ASSUME NEW i \in 1 .. Len(q), NEW j \in 1 .. Len(q), i < j, q[i] > q[j]
               PROVE  q[j] \in as /\ q[i] \notin as
    BY DEF Late
  <2>1. i \in 1 .. Len(p)
    BY <1>1, <1>2
  <2>2. CASE j \in 1 .. Len(p)
    BY <1>2, <2>1, <2>2 DEF Ordered, Late
  <2>3. CASE j = Len(p) + 1
    BY <1>2, <1>4, <2>1, <2>3 DEF Ordered
  <2> QED
    BY <1>2, <2>2, <2>3
<1>8. Ordered(as, {}, b, q, d)
  BY <1>2, <1>7 DEF Ordered
<1> QED
  BY <1>6, <1>8 DEF q

(* A new message is younger than all there are.                            *)
LEMMA NewKeeps ==
  ASSUME NEW pub, NEW as, NEW b, NEW p, NEW d, NEW f,
         Placed(pub, {}, b, p, d, f), Ordered(as, {}, b, p, d),
         EvictedFirst(pub, as, b, f), as \subseteq 1 .. pub, pub < MaxMsgs
  PROVE  /\ Placed(pub + 1, {pub + 1}, b, p, d, f)
         /\ Ordered(as, {pub + 1}, b, p, d)
         /\ EvictedFirst(pub + 1, as, b, f)
<1> DEFINE m == pub + 1
<1>1. /\ pub \in Nat /\ MaxMsgs \in Nat /\ m \in 1 .. MaxMsgs /\ m \in Nat
      /\ f[m] = "none" /\ m \notin 1 .. pub
      /\ \A k \in 1 .. m : k \in 1 .. pub \/ k = m
      /\ 1 .. pub \subseteq 1 .. m /\ m \in 1 .. m
  BY StoreForwardAssumption DEF Placed
<1>2. Where({m}, b, p, d) = Where({}, b, p, d) \union {m} /\ m \notin Where({}, b, p, d)
  BY <1>1 DEF Placed, Where
<1>3. Placed(m, {m}, b, p, d, f)
  <2>1. \A k \in 1 .. m : f[k] = "none" <=> k \in Where({m}, b, p, d)
    BY <1>1, <1>2 DEF Placed
  <2>2. \A k \in 1 .. MaxMsgs : k > m => f[k] = "none"
    BY <1>1 DEF Placed
  <2>3. {m} \cap (Range(b) \union Range(p) \union Range(d)) = {} /\ m \in 0 .. MaxMsgs
    BY <1>1, <1>2 DEF Where
  <2>4. Where({m}, b, p, d) \subseteq 1 .. m
    BY <1>1, <1>2 DEF Placed
  <2> QED
    BY <2>1, <2>2, <2>3, <2>4 DEF Placed
<1>4. Ordered(as, {m}, b, p, d)
  <2>1. \A x \in Range(p) \union Range(d) : ~(x > m)
    BY <1>1 DEF Placed, Where
  <2>2. m \notin as
    BY <1>1
  <2> QED
    BY <2>1, <2>2 DEF Ordered
<1>5. EvictedFirst(m, as, b, f)
  BY <1>1 DEF EvictedFirst
<1> QED
  BY <1>3, <1>4, <1>5

(* The new message is put aside.                                           *)
LEMMA AsideKeeps ==
  ASSUME NEW m, NEW as, NEW b, NEW p, NEW d, NEW f,
         Placed(m, {m}, b, p, d, f), Ordered(as, {m}, b, p, d),
         EvictedFirst(m, as, b, f), as \subseteq 1 .. (m - 1)
  PROVE  /\ Placed(m, {}, Append(b, m), p, d, f)
         /\ Ordered(as \union {m}, {}, Append(b, m), p, d)
         /\ EvictedFirst(m, as \union {m}, Append(b, m), f)
         /\ as \union {m} \subseteq 1 .. m
<1> DEFINE c == Append(b, m)
<1>1. /\ b \in Seq(Nat) /\ Distinct(b) /\ m \in Nat /\ m \in 1 .. m /\ m \notin Range(b)
      /\ Range(b) \subseteq 1 .. m /\ Range(p) \subseteq 1 .. m /\ Range(d) \subseteq 1 .. m
      /\ m \notin Range(p) /\ m \notin Range(d)
      /\ as \subseteq 1 .. m
  <2>1. m \in 1 .. m /\ m \in Nat
    BY DEF Placed, Where
  <2>2. 1 .. (m - 1) \subseteq 1 .. m
    BY <2>1
  <2>3. as \subseteq 1 .. m
    BY <2>2
  <2> QED
    BY <2>1, <2>3 DEF Placed, Where
<1>2. /\ \A x \in Range(b) : x < m
      /\ \A x \in Range(p) \union Range(d) : x < m /\ x # m
  BY <1>1
<1>3. /\ c \in Seq(Nat) /\ Range(c) = Range(b) \union {m}
      /\ Distinct(c)
  BY <1>1, AppendFacts, AppendDistinct
<1>4. Increasing(c)
  BY <1>1, <1>2, AppendIncreasing DEF Ordered
<1> HIDE DEF c
<1>5. Where({}, c, p, d) = Where({m}, b, p, d)
  BY <1>3 DEF Where
<1>6. Placed(m, {}, c, p, d, f)
  BY <1>1, <1>3, <1>5 DEF Placed
<1>7. Late(as \union {m}, p) /\ Late(as \union {m}, d)
  <2>1. p \in Seq(Nat) /\ d \in Seq(Nat)
    BY DEF Placed
  <2>2. /\ \A i \in 1 .. Len(p) : p[i] # m
        /\ \A i \in 1 .. Len(d) : d[i] # m
    BY <1>1, <2>1, InRange
  <2> QED
    BY <2>2 DEF Ordered, Late
<1>8. Ordered(as \union {m}, {}, c, p, d)
  BY <1>2, <1>3, <1>4, <1>7, ZenonT(40) DEF Ordered
<1>9. ASSUME NEW k \in 1 .. m, f[k] = "evicted"
      PROVE  /\ \A x \in Range(c) : k < x
             /\ Cardinality({x \in as \union {m} : x > k}) >= Cap
  <2>1. k # m
    BY <1>1, <1>9 DEF Placed, Where
  <2>2. \A x \in Range(c) : k < x
    <3>1. \A x \in Range(b) : k < x
      BY <1>9 DEF EvictedFirst
    <3>2. k < m
      BY <1>1, <2>1
    <3> QED
      BY <1>3, <3>1, <3>2
  <2>3. Cardinality({x \in as : x > k}) >= Cap
    BY <1>9 DEF EvictedFirst
  <2>4. Cardinality({x \in as : x > k}) <= Cardinality({x \in as \union {m} : x > k})
    <3>1. IsFiniteSet(1 .. m)
      BY <1>1, FS_Interval
    <3>2. {x \in as \union {m} : x > k} \subseteq 1 .. m
      BY <1>1
    <3>3. IsFiniteSet({x \in as \union {m} : x > k})
      BY <3>1, <3>2, FS_Subset
    <3>4. {x \in as : x > k} \subseteq {x \in as \union {m} : x > k}
      OBVIOUS
    <3> QED
      BY <3>3, <3>4, FS_Subset
  <2>5. /\ Cardinality({x \in as : x > k}) \in Nat
        /\ Cardinality({x \in as \union {m} : x > k}) \in Nat
    <3>1. IsFiniteSet(1 .. m)
      BY <1>1, FS_Interval
    <3>2. {x \in as \union {m} : x > k} \subseteq 1 .. m /\ {x \in as : x > k} \subseteq 1 .. m
      BY <1>1
    <3>3. IsFiniteSet({x \in as \union {m} : x > k}) /\ IsFiniteSet({x \in as : x > k})
      BY <3>1, <3>2, FS_Subset
    <3> QED
      BY <3>3, FS_CardinalityType
  <2>6. Cap \in Nat
    BY StoreForwardAssumption
  <2> QED
    BY <2>2, <2>3, <2>4, <2>5, <2>6
<1>10. EvictedFirst(m, as \union {m}, c, f)
  BY <1>9 DEF EvictedFirst
<1>11. as \union {m} \subseteq 1 .. m
  BY <1>1
<1> QED
  BY <1>6, <1>8, <1>10, <1>11 DEF c

(* A backlog over its limit loses its oldest message, and all the others   *)
(* are younger.                                                            *)
LEMMA EvictKeeps ==
  ASSUME NEW pub, NEW as, NEW b, NEW p, NEW d, NEW f,
         Placed(pub, {}, b, p, d, f), Ordered(as, {}, b, p, d),
         EvictedFirst(pub, as, b, f), as \subseteq 1 .. pub, Len(b) = Cap + 1
  PROVE  /\ Placed(pub, {}, Tail(b), p, d, [f EXCEPT ![Head(b)] = "evicted"])
         /\ Ordered(as, {}, Tail(b), p, d)
         /\ EvictedFirst(pub, as, Tail(b), [f EXCEPT ![Head(b)] = "evicted"])
<1> DEFINE h == Head(b)
           t == Tail(b)
           g == [f EXCEPT ![h] = "evicted"]
<1>1. Cap \in Nat /\ b \in Seq(Nat) /\ b # << >> /\ Distinct(b) /\ Increasing(b)
  BY StoreForwardAssumption DEF Placed, Ordered
<1>2. /\ WithoutFirst(t, b, 1) /\ Len(t) = Cap /\ t \in Seq(Nat) /\ Distinct(t)
      /\ h \in Nat /\ h \in Range(b) /\ Range(t) = Range(b) \ {h}
      /\ \A x \in Range(t) : h < x
  <2>1. Len(t) = Len(b) - 1
    BY <1>1, TailFacts
  <2> QED
    BY <1>1, <2>1, TailFacts
<1>3. Increasing(t)
  BY <1>1, <1>2, SuffixFacts
<1> HIDE DEF h, t
<1>4. /\ pub \in Nat /\ pub <= MaxMsgs /\ MaxMsgs \in Nat /\ h \in 1 .. pub
      /\ f \in [1 .. MaxMsgs -> Fates] /\ "evicted" \in Fates
  BY <1>2, StoreForwardAssumption DEF Placed, Where, Fates
<1>5. /\ g \in [1 .. MaxMsgs -> Fates] /\ g[h] = "evicted"
      /\ \A k \in 1 .. MaxMsgs : k # h => g[k] = f[k]
      /\ \A k \in 1 .. pub : k \in 1 .. MaxMsgs
  BY <1>4
<1> HIDE DEF g
<1>6. Where({}, t, p, d) = Where({}, b, p, d) \ {h}
  BY <1>2 DEF Placed, Where
<1>7. Placed(pub, {}, t, p, d, g)
  BY <1>2, <1>4, <1>5, <1>6 DEF Placed
<1>8. Ordered(as, {}, t, p, d)
  BY <1>2, <1>3 DEF Ordered
<1>9. Cardinality({k \in as : k > h}) >= Cap
  <2>1. IsFiniteSet(Range(t)) /\ Cardinality(Range(t)) = Cap
    BY <1>2, <1>3, RangeOfDistinct
  <2>2. Range(t) \subseteq {k \in as : k > h}
    BY <1>2, <1>4 DEF Ordered
  <2>3. IsFiniteSet({k \in as : k > h})
    <3>1. IsFiniteSet(1 .. pub)
      BY <1>4, FS_Interval
    <3>2. {k \in as : k > h} \subseteq 1 .. pub
      OBVIOUS
    <3> QED
      BY <3>1, <3>2, FS_Subset
  <2>4. /\ Cardinality(Range(t)) <= Cardinality({k \in as : k > h})
        /\ Cardinality({k \in as : k > h}) \in Nat
    BY <2>2, <2>3, FS_Subset, FS_CardinalityType
  <2> QED
    BY <1>1, <2>1, <2>4
<1>10. EvictedFirst(pub, as, t, g)
  BY <1>2, <1>5, <1>9 DEF EvictedFirst
<1> QED
  BY <1>7, <1>8, <1>10 DEF g, h, t

(* The drain takes the oldest message of the backlog in hand.              *)
LEMMA HeadKeeps ==
  ASSUME NEW pub, NEW as, NEW b, NEW p, NEW d, NEW f,
         Placed(pub, {}, b, p, d, f), Ordered(as, {}, b, p, d),
         EvictedFirst(pub, as, b, f), b # << >>
  PROVE  /\ Placed(pub, {Head(b)}, Tail(b), p, d, f)
         /\ Ordered(as, {Head(b)}, Tail(b), p, d)
         /\ EvictedFirst(pub, as, Tail(b), f)
<1> DEFINE h == Head(b)
           t == Tail(b)
<1>1. b \in Seq(Nat) /\ Distinct(b) /\ Increasing(b)
  BY DEF Placed, Ordered
<1>2. /\ WithoutFirst(t, b, 1) /\ t \in Seq(Nat) /\ Distinct(t)
      /\ h \in Nat /\ h \in Range(b) /\ Range(t) = Range(b) \ {h}
      /\ \A x \in Range(t) : h < x
  BY <1>1, TailFacts
<1>3. Increasing(t)
  BY <1>1, <1>2, SuffixFacts
<1> HIDE DEF h, t
<1>4. Where({h}, t, p, d) = Where({}, b, p, d)
  BY <1>2 DEF Where
<1>5. Placed(pub, {h}, t, p, d, f)
  BY <1>2, <1>4 DEF Placed
<1>6. Ordered(as, {h}, t, p, d)
  <2>1. Range(p) \subseteq Int /\ Range(d) \subseteq Int
    BY DEF Placed, Where
  <2>2. ASSUME NEW x \in Range(p) \union Range(d), x > h
        PROVE  h \in as /\ x \notin as
    <3>1. h \in as /\ (x \in as => x < h)
      BY <1>2 DEF Ordered
    <3>2. x \in Int /\ h \in Int
      BY <1>2, <2>1
    <3>3. ~(x < h)
      BY <2>2, <3>2
    <3> QED
      BY <3>1, <3>3
  <2> QED
    BY <1>2, <1>3, <2>2 DEF Ordered
<1>7. EvictedFirst(pub, as, t, f)
  BY <1>2 DEF EvictedFirst
<1> QED
  BY <1>5, <1>6, <1>7 DEF h, t

(* The link breaks: the front of the pipe may be gone with it.             *)
LEMMA TearKeeps ==
  ASSUME Placed(published, {}, m_backlog, pipe, delivered, fate),
         Ordered(aside, {}, m_backlog, pipe, delivered),
         EvictedFirst(published, aside, m_backlog, fate), NEW n \in 0 .. Len(pipe), NEW q, NEW g,
         q = SubSeq(pipe, n + 1, Len(pipe)),
         g \in [1 .. MaxMsgs -> Fates],
         \A k \in 1 .. MaxMsgs : k \in ToSet(SubSeq(pipe, 1, n)) => g[k] = "torn",
         \A k \in 1 .. MaxMsgs : k \notin ToSet(SubSeq(pipe, 1, n)) => g[k] = fate[k]
  PROVE  /\ Placed(published, {}, m_backlog, q, delivered, g)
         /\ Ordered(aside, {}, m_backlog, q, delivered)
         /\ EvictedFirst(published, aside, m_backlog, g) /\ Len(q) <= Len(pipe)
<1> DEFINE first == SubSeq(pipe, 1, n)
<1>1. pipe \in Seq(Nat) /\ Distinct(pipe) /\ Len(pipe) \in Nat
  BY DEF Placed
<1>2. /\ WithoutFirst(q, pipe, n) /\ q \in Seq(Nat)
      /\ Range(first) \subseteq Range(pipe) /\ Range(q) = Range(pipe) \ Range(first)
  BY <1>1, CutFacts
<1>3. ToSet(first) = Range(first)
  BY DEF ToSet, Range
<1> HIDE DEF first
<1>4. /\ Distinct(q) /\ Range(q) \subseteq Range(pipe)
      /\ \A i \in 1 .. Len(q) : i + n \in 1 .. Len(pipe) /\ q[i] = pipe[i + n]
  BY <1>1, <1>2, SuffixFacts
<1>5. Len(q) <= Len(pipe) /\ Len(q) \in Nat
  BY <1>1, <1>2 DEF WithoutFirst
<1>6. /\ fate \in [1 .. MaxMsgs -> Fates] /\ "torn" \in Fates /\ MaxMsgs \in Nat
      /\ published \in Nat /\ published <= MaxMsgs /\ Range(first) \subseteq 1 .. published
  BY <1>2, StoreForwardAssumption DEF Placed, Where, Fates
<1>7. /\ g \in [1 .. MaxMsgs -> Fates]
      /\ \A k \in 1 .. MaxMsgs : k \in Range(first) => g[k] = "torn"
      /\ \A k \in 1 .. MaxMsgs : k \notin Range(first) => g[k] = fate[k]
      /\ \A k \in 1 .. published : k \in 1 .. MaxMsgs
  BY <1>3, <1>6 DEF first
<1>8. Where({}, m_backlog, q, delivered) = Where({}, m_backlog, pipe, delivered) \ Range(first)
  BY <1>2 DEF Placed, Where
<1>9. Placed(published, {}, m_backlog, q, delivered, g)
  <2>1. \A k \in 1 .. published : g[k] = "none" <=> k \in Where({}, m_backlog, q, delivered)
    BY <1>6, <1>7, <1>8 DEF Placed
  <2>2. \A k \in 1 .. MaxMsgs : k > published => g[k] = "none"
    BY <1>6, <1>7 DEF Placed
  <2> QED
    BY <1>2, <1>4, <1>7, <1>8, <2>1, <2>2 DEF Placed
<1>10. Late(aside, q)
  <2> SUFFICES ASSUME NEW i \in 1 .. Len(q), NEW j \in 1 .. Len(q), i < j, q[i] > q[j]
               PROVE  q[j] \in aside /\ q[i] \notin aside
    BY DEF Late
  <2>1. /\ i + n \in 1 .. Len(pipe) /\ j + n \in 1 .. Len(pipe) /\ i + n < j + n
        /\ q[i] = pipe[i + n] /\ q[j] = pipe[j + n]
    BY <1>4, <1>5
  <2> QED
    BY <2>1 DEF Ordered, Late
<1>11. Ordered(aside, {}, m_backlog, q, delivered)
  BY <1>4, <1>10 DEF Ordered
<1>12. EvictedFirst(published, aside, m_backlog, g)
  BY <1>6, <1>7 DEF EvictedFirst
<1> QED
  BY <1>5, <1>9, <1>11, <1>12

(* tpmaster hands the head of the pipe to the client.                      *)
LEMMA DeliverKeeps ==
  ASSUME NEW pub, NEW as, NEW b, NEW p, NEW d, NEW f,
         Placed(pub, {}, b, p, d, f), Ordered(as, {}, b, p, d), p # << >>
  PROVE  /\ Placed(pub, {}, b, Tail(p), Append(d, Head(p)), f)
         /\ Ordered(as, {}, b, Tail(p), Append(d, Head(p)))
<1> DEFINE h == Head(p)
           q == Tail(p)
           e == Append(d, h)
<1>1. p \in Seq(Nat) /\ Distinct(p) /\ d \in Seq(Nat) /\ Distinct(d) /\ Len(p) \in Nat
  BY DEF Placed
<1>2. /\ WithoutFirst(q, p, 1) /\ q \in Seq(Nat) /\ Distinct(q) /\ Len(p) >= 1
      /\ h = p[1] /\ h \in Nat /\ h \in Range(p) /\ Range(q) = Range(p) \ {h}
  BY <1>1, TailFacts
<1>3. \A i \in 1 .. Len(q) : i + 1 \in 1 .. Len(p) /\ q[i] = p[i + 1]
  BY <1>1, <1>2, SuffixFacts
<1>4. h \notin Range(d)
  BY <1>2 DEF Placed
<1> HIDE DEF h, q
<1>5. /\ e \in Seq(Nat) /\ Range(e) = Range(d) \union {h} /\ Len(e) = Len(d) + 1
      /\ e[Len(d) + 1] = h
      /\ \A i \in 1 .. Len(d) : e[i] = d[i]
      /\ \A i \in 1 .. Len(e) : i \in 1 .. Len(d) \/ i = Len(d) + 1
      /\ Distinct(e)
  BY <1>1, <1>2, <1>4, AppendFacts, AppendDistinct
<1>6. /\ \A x \in Range(q) : \E i \in 1 .. Len(q) : x = q[i]
      /\ \A i \in 1 .. Len(d) : d[i] \in Range(d)
      /\ Len(d) \in Nat
  BY <1>1, <1>2, InRange
<1> HIDE DEF e
<1>7. Where({}, b, q, e) = Where({}, b, p, d)
  BY <1>2, <1>5 DEF Where
<1>8. Placed(pub, {}, b, q, e, f)
  BY <1>2, <1>5, <1>7 DEF Placed
<1>9. Late(as, q)
  <2> SUFFICES ASSUME NEW i \in 1 .. Len(q), NEW j \in 1 .. Len(q), i < j, q[i] > q[j]
               PROVE  q[j] \in as /\ q[i] \notin as
    BY DEF Late
  <2>1. /\ i + 1 \in 1 .. Len(p) /\ j + 1 \in 1 .. Len(p) /\ i + 1 < j + 1
        /\ q[i] = p[i + 1] /\ q[j] = p[j + 1]
    BY <1>1, <1>3
  <2> QED
    BY <2>1 DEF Ordered, Late
<1>10. Late(as, e)
  <2> SUFFICES ASSUME NEW i \in 1 .. Len(e), NEW j \in 1 .. Len(e), i < j, e[i] > e[j]
               PROVE  e[j] \in as /\ e[i] \notin as
    BY DEF Late
  <2>1. i \in 1 .. Len(d)
    BY <1>5, <1>6
  <2>2. CASE j \in 1 .. Len(d)
    BY <1>5, <2>1, <2>2 DEF Ordered, Late
  <2>3. CASE j = Len(d) + 1
    BY <1>2, <1>5, <1>6, <2>1, <2>3, ZenonT(40) DEF Ordered
  <2> QED
    BY <1>5, <2>2, <2>3
<1>11. \A y \in Range(q) : h > y => y \in as /\ h \notin as
  <2> SUFFICES ASSUME NEW y \in Range(q), h > y
               PROVE  y \in as /\ h \notin as
    OBVIOUS
  <2>1. PICK i \in 1 .. Len(q) : y = q[i]
    BY <1>6
  <2>2. i + 1 \in 1 .. Len(p) /\ y = p[i + 1] /\ 1 < i + 1 /\ 1 \in 1 .. Len(p)
    BY <1>1, <1>2, <1>3, <2>1
  <2> QED
    BY <1>2, <2>2 DEF Ordered, Late
<1>12. Ordered(as, {}, b, q, e)
  <2>1. \A x \in Range(e), y \in Range(q) \union {} : x > y => y \in as /\ x \notin as
    <3>1. \A x \in Range(d), y \in Range(q) : x > y => y \in as /\ x \notin as
      BY <1>2 DEF Ordered
    <3> QED
      BY <1>5, <1>11, <3>1
  <2>2. \A x \in {} \union Range(q) \union Range(e), k \in Range(b) : x \in as => x < k
    BY <1>2, <1>5 DEF Ordered
  <2> QED
    BY <1>9, <1>10, <2>1, <2>2 DEF Ordered
<1> QED
  BY <1>8, <1>12 DEF h, q, e

(* tpmaster has no client for it.                                          *)
LEMMA UnheardKeeps ==
  ASSUME NEW pub, NEW as, NEW b, NEW p, NEW d, NEW f,
         Placed(pub, {}, b, p, d, f), Ordered(as, {}, b, p, d),
         EvictedFirst(pub, as, b, f), p # << >>
  PROVE  /\ Placed(pub, {}, b, Tail(p), d, [f EXCEPT ![Head(p)] = "unheard"])
         /\ Ordered(as, {}, b, Tail(p), d)
         /\ EvictedFirst(pub, as, b, [f EXCEPT ![Head(p)] = "unheard"])
<1> DEFINE h == Head(p)
           q == Tail(p)
           g == [f EXCEPT ![h] = "unheard"]
<1>1. p \in Seq(Nat) /\ Distinct(p) /\ Len(p) \in Nat
  BY DEF Placed
<1>2. /\ WithoutFirst(q, p, 1) /\ q \in Seq(Nat) /\ Distinct(q) /\ Len(p) >= 1
      /\ h \in Nat /\ h \in Range(p) /\ Range(q) = Range(p) \ {h}
  BY <1>1, TailFacts
<1>3. \A i \in 1 .. Len(q) : i + 1 \in 1 .. Len(p) /\ q[i] = p[i + 1]
  BY <1>1, <1>2, SuffixFacts
<1> HIDE DEF h, q
<1>4. /\ pub \in Nat /\ pub <= MaxMsgs /\ MaxMsgs \in Nat /\ h \in 1 .. pub
      /\ f \in [1 .. MaxMsgs -> Fates] /\ "unheard" \in Fates
  BY <1>2, StoreForwardAssumption DEF Placed, Where, Fates
<1>5. /\ g \in [1 .. MaxMsgs -> Fates] /\ g[h] = "unheard"
      /\ \A k \in 1 .. MaxMsgs : k # h => g[k] = f[k]
      /\ \A k \in 1 .. pub : k \in 1 .. MaxMsgs
  BY <1>4
<1> HIDE DEF g
<1>6. Where({}, b, q, d) = Where({}, b, p, d) \ {h}
  BY <1>2 DEF Placed, Where
<1>7. Placed(pub, {}, b, q, d, g)
  <2>1. \A k \in 1 .. pub : g[k] = "none" <=> k \in Where({}, b, q, d)
    BY <1>4, <1>5, <1>6 DEF Placed
  <2>2. \A k \in 1 .. MaxMsgs : k > pub => g[k] = "none"
    BY <1>4, <1>5 DEF Placed
  <2> QED
    BY <1>2, <1>5, <1>6, <2>1, <2>2 DEF Placed
<1>8. Late(as, q)
  <2> SUFFICES ASSUME NEW i \in 1 .. Len(q), NEW j \in 1 .. Len(q), i < j, q[i] > q[j]
               PROVE  q[j] \in as /\ q[i] \notin as
    BY DEF Late
  <2>1. /\ i + 1 \in 1 .. Len(p) /\ j + 1 \in 1 .. Len(p) /\ i + 1 < j + 1
        /\ q[i] = p[i + 1] /\ q[j] = p[j + 1]
    BY <1>1, <1>3
  <2> QED
    BY <2>1 DEF Ordered, Late
<1>9. Ordered(as, {}, b, q, d)
  BY <1>2, <1>8 DEF Ordered
<1>10. EvictedFirst(pub, as, b, g)
  BY <1>5 DEF EvictedFirst
<1> QED
  BY <1>7, <1>9, <1>10 DEF h, q, g

-----------------------------------------------------------------------------
(* The invariant, one step per action.                                     *)

(* The three outcomes of a zmq send.                                       *)
LEMMA SendRawOutcome ==
  ASSUME NEW m, SendRaw(m)
  PROVE  \/ \E w \in {"unheard", "overflow"} : fate' = [fate EXCEPT ![m] = w] /\ pipe' = pipe
         \/ ~(Len(pipe) >= Hwm) /\ pipe' = Append(pipe, m) /\ fate' = fate
<1>1. CASE ~subscribed
  BY <1>1 DEF SendRaw
<1>2. CASE subscribed /\ Len(pipe) >= Hwm
  BY <1>2 DEF SendRaw
<1>3. CASE ~(~subscribed) /\ ~(subscribed /\ Len(pipe) >= Hwm)
  BY <1>3 DEF SendRaw
<1> QED
  BY <1>1, <1>2, <1>3

(* sendRaw takes the message out of hand.                                  *)
LEMMA SendKeeps ==
  ASSUME NEW m, NEW pub, NEW as, NEW b, SendRaw(m), Len(pipe) <= Hwm,
         Placed(pub, {m}, b, pipe, delivered, fate), Ordered(as, {m}, b, pipe, delivered),
         EvictedFirst(pub, as, b, fate)
  PROVE  /\ Placed(pub, {}, b, pipe', delivered, fate')
         /\ Ordered(as, {}, b, pipe', delivered)
         /\ EvictedFirst(pub, as, b, fate') /\ Len(pipe') <= Hwm
<1>1. ASSUME NEW w \in {"unheard", "overflow"},
             fate' = [fate EXCEPT ![m] = w], pipe' = pipe
      PROVE  /\ Placed(pub, {}, b, pipe', delivered, fate')
             /\ Ordered(as, {}, b, pipe', delivered)
             /\ EvictedFirst(pub, as, b, fate') /\ Len(pipe') <= Hwm
  BY <1>1, DropKeeps
<1>2. CASE ~(Len(pipe) >= Hwm) /\ pipe' = Append(pipe, m) /\ fate' = fate
  <2>1. pipe \in Seq(Nat) /\ Len(pipe) \in Nat /\ m \in Nat /\ Hwm \in Nat
    BY StoreForwardAssumption DEF Placed, Where
  <2>2. Len(pipe') = Len(pipe) + 1
    BY <1>2, <2>1, AppendFacts
  <2>3. Len(pipe') <= Hwm
    BY <1>2, <2>1, <2>2
  <2> QED
    BY <1>2, <2>3, TakeKeeps
<1> QED
  BY <1>1, <1>2, SendRawOutcome

(* A message is published: it goes to the backlog, to the link or nowhere, *)
(* to one of them.                                                         *)
LEMMA PublishKeeps ==
  ASSUME StoreInv, Publish
  PROVE  StoreInv'
<1> DEFINE m == published + 1
<1>1. /\ ~draining /\ published < MaxMsgs /\ published' = m
      /\ UNCHANGED <<draining, faults, delivered>>
  BY DEF Publish, net
<1>2. published \in Nat /\ m \in Nat /\ m - 1 = published /\ Cap \in Nat
  BY StoreForwardAssumption DEF StoreInv, Placed
<1>3. /\ Placed(m, {m}, m_backlog, pipe, delivered, fate)
      /\ Ordered(aside, {m}, m_backlog, pipe, delivered)
      /\ EvictedFirst(m, aside, m_backlog, fate)
  BY <1>1, NewKeeps DEF StoreInv
<1>4. 1 .. published \subseteq 1 .. m /\ aside \subseteq 1 .. m /\ aside \subseteq 1 .. (m - 1)
  BY <1>2 DEF StoreInv
<1>5. CASE ~m_connected
  <2> DEFINE b == Append(m_backlog, m)
  <2>1. /\ aside' = aside \union {m} /\ pipe' = pipe
        /\ IF Len(b) > Cap
           THEN m_backlog' = Tail(b) /\ fate' = [fate EXCEPT ![Head(b)] = "evicted"]
           ELSE m_backlog' = b /\ fate' = fate
    BY <1>5 DEF Publish, PutAside
  <2>2. /\ Placed(m, {}, b, pipe, delivered, fate)
        /\ Ordered(aside \union {m}, {}, b, pipe, delivered)
        /\ EvictedFirst(m, aside \union {m}, b, fate)
        /\ aside \union {m} \subseteq 1 .. m
    <3> HIDE DEF m
    <3> QED
      BY <1>3, <1>4, AsideKeeps
  <2>3. m_backlog \in Seq(Nat) /\ Len(m_backlog) <= Cap
    BY DEF StoreInv, Placed
  <2>4. b \in Seq(Nat) /\ Len(b) = Len(m_backlog) + 1 /\ Len(m_backlog) \in Nat
    BY <1>2, <2>3, AppendFacts
  <2> HIDE DEF b, m
  <2>5. CASE Len(b) > Cap
    <3>1. Len(b) = Cap + 1
      BY <1>2, <2>3, <2>4, <2>5
    <3>2. m_backlog' = Tail(b) /\ fate' = [fate EXCEPT ![Head(b)] = "evicted"]
      BY <2>1, <2>5
    <3>3. /\ Placed(m, {}, m_backlog', pipe, delivered, fate')
          /\ Ordered(aside', {}, m_backlog', pipe, delivered)
          /\ EvictedFirst(m, aside', m_backlog', fate')
      BY <2>1, <2>2, <3>1, <3>2, EvictKeeps
    <3>4. Len(m_backlog') <= Cap
      BY <1>2, <2>4, <3>1, <3>2
    <3> QED
      BY <1>1, <2>1, <2>2, <3>3, <3>4 DEF StoreInv
  <2>6. CASE ~(Len(b) > Cap)
    <3>1. m_backlog' = b /\ fate' = fate /\ Len(b) <= Cap
      BY <1>2, <2>1, <2>4, <2>6
    <3> QED
      BY <1>1, <2>1, <2>2, <3>1 DEF StoreInv
  <2> QED
    BY <2>5, <2>6
<1>6. CASE m_connected
  <2>1. SendRaw(m) /\ m_backlog' = m_backlog /\ aside' = aside
    BY <1>6 DEF Publish
  <2> HIDE DEF m
  <2>2. Len(pipe) <= Hwm
    BY DEF StoreInv
  <2>3. /\ Placed(m, {}, m_backlog, pipe', delivered, fate')
        /\ Ordered(aside, {}, m_backlog, pipe', delivered)
        /\ EvictedFirst(m, aside, m_backlog, fate') /\ Len(pipe') <= Hwm
    BY <1>3, <2>1, <2>2, SendKeeps
  <2> QED
    BY <1>1, <1>4, <2>1, <2>3 DEF StoreInv
<1> QED
  BY <1>5, <1>6

(* The drain takes the oldest of the backlog, and puts it back in front    *)
(* when the link refuses it.                                               *)
LEMMA DrainOneKeeps ==
  ASSUME StoreInv, DrainOne
  PROVE  StoreInv'
<1> DEFINE m == Head(m_backlog)
           b == Tail(m_backlog)
<1>1. /\ draining /\ SendRaw(m) /\ m_backlog' = b
      /\ (draining' = (m_backlog' # << >>))
      /\ UNCHANGED <<published, aside, faults, delivered>>
  BY DEF DrainOne, net
<1>2. m_backlog # << >>
  BY <1>1 DEF StoreInv
<1>3. m_backlog \in Seq(Nat) /\ Distinct(m_backlog) /\ Len(m_backlog) \in Nat /\ Cap \in Nat
      /\ Len(m_backlog) <= Cap
  BY StoreForwardAssumption DEF StoreInv, Placed
<1>4. Len(b) <= Cap
  BY <1>2, <1>3
<1>5. /\ Placed(published, {m}, b, pipe, delivered, fate)
      /\ Ordered(aside, {m}, b, pipe, delivered)
      /\ EvictedFirst(published, aside, b, fate)
  BY <1>2, HeadKeeps DEF StoreInv
<1> HIDE DEF m, b
<1>6. Len(pipe) <= Hwm
  BY DEF StoreInv
<1>7. /\ Placed(published, {}, b, pipe', delivered, fate')
      /\ Ordered(aside, {}, b, pipe', delivered)
      /\ EvictedFirst(published, aside, b, fate') /\ Len(pipe') <= Hwm
  BY <1>1, <1>5, <1>6, SendKeeps
<1>8. draining' => m_backlog' # << >>
  BY <1>1
<1>9. aside' \subseteq 1 .. published' /\ faults' \in 0 .. MaxFaults
  BY <1>1 DEF StoreInv
<1> QED
  BY <1>1, <1>4, <1>7, <1>8, <1>9 DEF StoreInv

(* A link that goes down tears the oldest of what it carries.              *)
LEMMA LinkDownKeeps ==
  ASSUME StoreInv, LinkDown
  PROVE  StoreInv'
<1>1. PICK n \in 0 .. Len(pipe) :
        /\ pipe' = SubSeq(pipe, n + 1, Len(pipe))
        /\ fate' = [m \in 1 .. MaxMsgs |->
                      IF m \in ToSet(SubSeq(pipe, 1, n)) THEN "torn" ELSE fate[m]]
  BY DEF LinkDown
<1>2. /\ UNCHANGED <<published, m_backlog, draining, aside, delivered>>
      /\ faults < MaxFaults /\ faults' = faults + 1
  BY DEF LinkDown, app
<1>3. /\ Placed(published, {}, m_backlog, pipe', delivered, fate')
      /\ Ordered(aside, {}, m_backlog, pipe', delivered)
      /\ EvictedFirst(published, aside, m_backlog, fate') /\ Len(pipe') <= Len(pipe)
  <2>1. /\ Placed(published, {}, m_backlog, pipe, delivered, fate)
        /\ Ordered(aside, {}, m_backlog, pipe, delivered)
        /\ EvictedFirst(published, aside, m_backlog, fate)
    BY DEF StoreInv
  <2>2. fate \in [1 .. MaxMsgs -> Fates] /\ "torn" \in Fates
    BY <2>1 DEF Placed, Fates
  <2>3. /\ fate' \in [1 .. MaxMsgs -> Fates]
        /\ \A k \in 1 .. MaxMsgs : k \in ToSet(SubSeq(pipe, 1, n)) => fate'[k] = "torn"
        /\ \A k \in 1 .. MaxMsgs : k \notin ToSet(SubSeq(pipe, 1, n)) => fate'[k] = fate[k]
    BY <1>1, <2>2
  <2> QED
    BY <1>1, <2>1, <2>3, TearKeeps
<1>4. Len(pipe') <= Hwm
  <2>1. pipe \in Seq(Nat) /\ Len(pipe) <= Hwm /\ pipe' \in Seq(Nat)
    BY <1>3 DEF StoreInv, Placed
  <2>2. Len(pipe) \in Nat /\ Len(pipe') \in Nat /\ Hwm \in Nat
    BY <2>1, StoreForwardAssumption
  <2> QED
    BY <1>3, <2>1, <2>2
<1>5. faults' \in 0 .. MaxFaults
  BY <1>2, StoreForwardAssumption DEF StoreInv
<1>6. /\ aside' \subseteq 1 .. published' /\ Len(m_backlog') <= Cap
      /\ draining' => m_backlog' # << >>
  BY <1>2 DEF StoreInv
<1> QED
  BY <1>2, <1>3, <1>4, <1>5, <1>6 DEF StoreInv

(* tpmaster takes the oldest of the link: it is delivered, or unheard when *)
(* no client has joined.                                                   *)
LEMMA ForwardKeeps ==
  ASSUME StoreInv, Forward
  PROVE  StoreInv'
<1>1. /\ pipe # << >> /\ pipe' = Tail(pipe)
      /\ UNCHANGED <<published, m_backlog, draining, aside, faults>>
  BY DEF Forward, app, net
<1>2. pipe \in Seq(Nat) /\ Len(pipe) \in Nat /\ Len(pipe) <= Hwm /\ Hwm \in Nat
  BY StoreForwardAssumption DEF StoreInv, Placed
<1>3. Len(pipe') <= Hwm
  BY <1>1, <1>2
<1>4. /\ aside' \subseteq 1 .. published' /\ Len(m_backlog') <= Cap
      /\ draining' => m_backlog' # << >>
      /\ faults' \in 0 .. MaxFaults
  BY <1>1 DEF StoreInv
<1>5. CASE wanted
  <2>1. delivered' = Append(delivered, Head(pipe)) /\ fate' = fate
    BY <1>5 DEF Forward
  <2>2. /\ Placed(published, {}, m_backlog, pipe', delivered', fate)
        /\ Ordered(aside, {}, m_backlog, pipe', delivered')
    BY <1>1, <2>1, DeliverKeeps DEF StoreInv
  <2>3. EvictedFirst(published, aside, m_backlog, fate)
    BY DEF StoreInv
  <2> QED
    BY <1>1, <1>3, <1>4, <2>1, <2>2, <2>3 DEF StoreInv
<1>6. CASE ~wanted
  <2>1. fate' = [fate EXCEPT ![Head(pipe)] = "unheard"] /\ delivered' = delivered
    BY <1>6 DEF Forward
  <2>2. /\ Placed(published, {}, m_backlog, pipe', delivered, fate')
        /\ Ordered(aside, {}, m_backlog, pipe', delivered)
        /\ EvictedFirst(published, aside, m_backlog, fate')
    BY <1>1, <2>1, UnheardKeeps DEF StoreInv
  <2> QED
    BY <1>1, <1>3, <1>4, <2>1, <2>2 DEF StoreInv
<1> QED
  BY <1>5, <1>6

(* The other steps move no message; a drain begins with a backlog.         *)
LEMMA OthersKeep ==
  ASSUME StoreInv, Pump \/ Settle \/ LinkUp \/ Join \/ Subscribe \/ UNCHANGED vars
  PROVE  StoreInv'
<1>1. UNCHANGED <<published, m_backlog, aside, faults, pipe, delivered, fate>>
  BY DEF Pump, Settle, LinkUp, Join, Subscribe, vars, app, net
<1>2. draining' => m_backlog' # << >>
  <2>1. CASE Pump
    BY <1>1, <2>1 DEF Pump
  <2>2. CASE Settle \/ LinkUp \/ Join \/ Subscribe \/ UNCHANGED vars
    <3>1. draining' = draining
      BY <2>2 DEF Settle, LinkUp, Join, Subscribe, vars, app
    <3> QED
      BY <1>1, <3>1 DEF StoreInv
  <2> QED
    BY <2>1, <2>2
<1>3. /\ Placed(published, {}, m_backlog, pipe, delivered, fate)'
      /\ Ordered(aside, {}, m_backlog, pipe, delivered)'
      /\ EvictedFirst(published, aside, m_backlog, fate)'
  BY <1>1, ZenonT(40)
     DEF StoreInv, Placed, Ordered, EvictedFirst, Late, Where, Distinct, Increasing
<1> QED
  BY <1>1, <1>2, <1>3 DEF StoreInv

(* Every step keeps the places of the messages.                            *)
LEMMA StoreInvInductive == StoreInv /\ [Next]_vars => StoreInv'
BY PublishKeeps, DrainOneKeeps, LinkDownKeeps, ForwardKeeps, OthersKeep DEF Next

(* At the start nothing is published.                                      *)
LEMMA StoreInvInitially == Init => StoreInv
<1> SUFFICES ASSUME Init
             PROVE  StoreInv
  OBVIOUS
<1>1. /\ published = 0 /\ m_backlog = << >> /\ pipe = << >> /\ delivered = << >>
      /\ aside = {} /\ faults = 0 /\ fate = [m \in 1 .. MaxMsgs |-> "none"]
      /\ ~draining
  BY DEF Init
<1>2. MaxMsgs \in Nat /\ MaxFaults \in Nat /\ Cap \in Nat /\ Hwm \in Nat
  BY StoreForwardAssumption
<1>3. << >> \in Seq(Nat) /\ Len(<< >>) = 0
  OBVIOUS
<1>4. Range(<< >>) = {} /\ Distinct(<< >>) /\ Increasing(<< >>)
  <2>1. \A x \in Range(<< >>) : \E i \in 1 .. Len(<< >>) : x = << >>[i]
    BY <1>3, InRange
  <2>2. Range(<< >>) = {}
    BY <1>3, <2>1
  <2> QED
    BY <1>3, <2>2 DEF Distinct, Increasing
<1>5. fate \in [1 .. MaxMsgs -> Fates] /\ \A k \in 1 .. MaxMsgs : fate[k] = "none"
  BY <1>1 DEF Fates
<1>6. Placed(published, {}, m_backlog, pipe, delivered, fate)
  BY <1>1, <1>2, <1>3, <1>4, <1>5 DEF Placed, Where
<1>7. Ordered(aside, {}, m_backlog, pipe, delivered)
  BY <1>1, <1>3, <1>4 DEF Ordered, Late
<1>8. EvictedFirst(published, aside, m_backlog, fate)
  BY <1>1 DEF EvictedFirst
<1> QED
  BY <1>1, <1>2, <1>3, <1>6, <1>7, <1>8 DEF StoreInv

(* The places of the messages, in every behaviour.                         *)
LEMMA StoreInvAlways == Spec => []StoreInv
BY StoreInvInitially, StoreInvInductive, PTL DEF Spec

-----------------------------------------------------------------------------
(* The flag of the link, and the other flags.                              *)

FlagInv ==
  /\ events \in Seq({"connected", "disconnected"})
  /\ m_connected \in BOOLEAN /\ linkUp \in BOOLEAN
  /\ FlagFollowsLink

(* The last of the events after one more.                                  *)
LEMMA LastOfAppend ==
  ASSUME NEW S, NEW s \in Seq(S), NEW e \in S
  PROVE  /\ Append(s, e) \in Seq(S) /\ Append(s, e) # << >> /\ Last(Append(s, e)) = e
<1>1. /\ Append(s, e) \in Seq(S) /\ Len(Append(s, e)) = Len(s) + 1 /\ Len(s) \in Nat
      /\ Append(s, e)[Len(s) + 1] = e
  OBVIOUS
<1>2. Append(s, e) # << >>
  BY <1>1
<1> QED
  BY <1>1, <1>2 DEF Last

(* Every step keeps the flags and the events in line with the link.        *)
LEMMA FlagInvInductive == FlagInv /\ [Next]_vars => FlagInv'
<1> SUFFICES ASSUME FlagInv, [Next]_vars
             PROVE  FlagInv'
  OBVIOUS
<1>1. CASE Pump
  <2>1. /\ events' = << >> /\ linkUp' = linkUp
        /\ m_connected' = IF events = << >> THEN m_connected ELSE Last(events) = "connected"
    BY <1>1 DEF Pump, net
  <2>2. events' \in Seq({"connected", "disconnected"})
    BY <2>1
  <2>3. m_connected' = linkUp
    BY <2>1 DEF FlagInv, FlagFollowsLink
  <2> QED
    BY <2>1, <2>2, <2>3 DEF FlagInv, FlagFollowsLink
<1>2. CASE LinkUp
  <2>1. /\ events' = Append(events, "connected") /\ linkUp' = TRUE /\ m_connected' = m_connected
    BY <1>2 DEF LinkUp, app
  <2>2. events \in Seq({"connected", "disconnected"})
    BY DEF FlagInv
  <2>3. /\ events' \in Seq({"connected", "disconnected"}) /\ events' # << >>
        /\ Last(events') = "connected"
    BY <2>1, <2>2, LastOfAppend
  <2> QED
    BY <2>1, <2>3 DEF FlagInv, FlagFollowsLink
<1>3. CASE LinkDown
  <2>1. /\ events' = Append(events, "disconnected") /\ linkUp' = FALSE
        /\ m_connected' = m_connected
    BY <1>3 DEF LinkDown, app
  <2>2. events \in Seq({"connected", "disconnected"})
    BY DEF FlagInv
  <2>3. /\ events' \in Seq({"connected", "disconnected"}) /\ events' # << >>
        /\ Last(events') = "disconnected"
    BY <2>1, <2>2, LastOfAppend
  <2>4. Last(events') # "connected"
    BY <2>3
  <2> QED
    BY <2>1, <2>3, <2>4 DEF FlagInv, FlagFollowsLink
<1>4. CASE Publish \/ Settle \/ DrainOne \/ Join \/ Subscribe \/ Forward \/ UNCHANGED vars
  <2>1. events' = events /\ m_connected' = m_connected /\ linkUp' = linkUp
    BY <1>4 DEF Publish, Settle, DrainOne, Join, Subscribe, Forward, vars, app, net
  <2> QED
    BY <2>1 DEF FlagInv, FlagFollowsLink
<1> QED
  BY <1>1, <1>2, <1>3, <1>4 DEF Next

(* The flags and the events, in every behaviour.                           *)
LEMMA FlagInvAlways == Spec => []FlagInv
<1>1. Init => FlagInv
  <2> SUFFICES ASSUME Init
               PROVE  FlagInv
    OBVIOUS
  <2>1. events = << >> /\ m_connected = FALSE /\ linkUp = FALSE
    BY DEF Init
  <2>2. events \in Seq({"connected", "disconnected"})
    BY <2>1
  <2> QED
    BY <2>1, <2>2 DEF FlagInv, FlagFollowsLink
<1> QED
  BY <1>1, FlagInvInductive, PTL DEF Spec

OtherFlags ==
  /\ settled \in BOOLEAN /\ draining \in BOOLEAN
  /\ subscribed \in BOOLEAN /\ wanted \in BOOLEAN

(* The other flags are flags in every behaviour.                           *)
LEMMA OtherFlagsAlways == Spec => []OtherFlags
<1>1. Init => OtherFlags
  BY DEF Init, OtherFlags
<1>2. OtherFlags /\ [Next]_vars => OtherFlags'
  <2> SUFFICES ASSUME OtherFlags, [Next]_vars
               PROVE  OtherFlags'
    OBVIOUS
  <2>1. CASE Publish \/ LinkUp \/ Forward \/ UNCHANGED vars
    BY <2>1 DEF Publish, LinkUp, Forward, vars, app, net, OtherFlags
  <2>2. CASE Pump
    <3>1. /\ settled' = (settled /\ ~Contains(events, "connected"))
          /\ draining' = (m_connected' /\ settled' /\ m_backlog # << >>)
          /\ subscribed' = subscribed /\ wanted' = wanted
      BY <2>2 DEF Pump, net
    <3> QED
      BY <3>1 DEF OtherFlags
  <2>3. CASE Settle
    BY <2>3 DEF Settle, net, OtherFlags
  <2>4. CASE DrainOne
    <3>1. /\ draining' = (m_backlog' # << >>) /\ settled' = settled
          /\ subscribed' = subscribed /\ wanted' = wanted
      BY <2>4 DEF DrainOne, net
    <3> QED
      BY <3>1 DEF OtherFlags
  <2>5. CASE LinkDown
    BY <2>5 DEF LinkDown, app, OtherFlags
  <2>6. CASE Join
    BY <2>6 DEF Join, app, OtherFlags
  <2>7. CASE Subscribe
    BY <2>7 DEF Subscribe, app, OtherFlags
  <2> QED
    BY <2>1, <2>2, <2>3, <2>4, <2>5, <2>6, <2>7 DEF Next
<1> QED
  BY <1>1, <1>2, PTL DEF Spec

-----------------------------------------------------------------------------
(* What follows from them.                                                 *)

(* The parts of the invariant give every variable its type.                *)
LEMMA StoreTypes ==
  ASSUME StoreInv, FlagInv, OtherFlags
  PROVE  TypeOK
<1>1. /\ published \in 0 .. MaxMsgs /\ published \in Nat /\ MaxMsgs \in Nat
      /\ published <= MaxMsgs
      /\ m_backlog \in Seq(Nat) /\ pipe \in Seq(Nat) /\ delivered \in Seq(Nat)
  BY StoreForwardAssumption DEF StoreInv, Placed
<1>2. 1 .. published \subseteq 1 .. MaxMsgs
  BY <1>1
<1>3. /\ Range(m_backlog) \subseteq 1 .. MaxMsgs /\ Range(pipe) \subseteq 1 .. MaxMsgs
      /\ Range(delivered) \subseteq 1 .. MaxMsgs /\ aside \subseteq 1 .. MaxMsgs
  BY <1>2 DEF StoreInv, Placed, Where
<1>4. /\ \A i \in 1 .. Len(m_backlog) : m_backlog[i] \in 1 .. MaxMsgs
      /\ \A i \in 1 .. Len(pipe) : pipe[i] \in 1 .. MaxMsgs
      /\ \A i \in 1 .. Len(delivered) : delivered[i] \in 1 .. MaxMsgs
  BY <1>1, <1>3, InRange
<1>5. /\ m_backlog \in Seq(1 .. MaxMsgs) /\ pipe \in Seq(1 .. MaxMsgs)
      /\ delivered \in Seq(1 .. MaxMsgs)
  BY <1>1, <1>4, SeqNarrows
<1>6. /\ Len(m_backlog) <= Cap /\ Len(pipe) <= Hwm /\ faults \in 0 .. MaxFaults
      /\ fate \in [1 .. MaxMsgs -> Fates] /\ published \in 0 .. MaxMsgs
  BY DEF StoreInv, Placed
<1>7. /\ events \in Seq({"connected", "disconnected"})
      /\ m_connected \in BOOLEAN /\ linkUp \in BOOLEAN
      /\ settled \in BOOLEAN /\ draining \in BOOLEAN
      /\ subscribed \in BOOLEAN /\ wanted \in BOOLEAN
  BY DEF FlagInv, OtherFlags
<1> QED
  BY <1>3, <1>5, <1>6, <1>7, Zenon DEF TypeOK

(* Only messages that were once put aside arrive late.                     *)
LEMMA NoOtherOvertaken ==
  ASSUME StoreInv
  PROVE  OnlyAsideOvertaken
<1>1. delivered \in Seq(Nat) /\ Late(aside, delivered)
  BY DEF StoreInv, Placed, Ordered
<1>2. DOMAIN delivered = 1 .. Len(delivered)
  BY <1>1
<1> QED
  BY <1>1, <1>2 DEF Late, OnlyAsideOvertaken

(* What is evicted is older than what the backlog holds.                   *)
LEMMA OldestEvicted ==
  ASSUME StoreInv
  PROVE  OldestGoFirst
<1>1. ToSet(m_backlog) = Range(m_backlog)
  BY DEF ToSet, Range
<1> QED
  BY <1>1 DEF StoreInv, EvictedFirst, OldestGoFirst

(* Backlog, link and deliveries together hold no message twice, and those  *)
(* that are nowhere have a fate.                                           *)
LEMMA OnePlace ==
  ASSUME StoreInv
  PROVE  Accounted
<1> DEFINE front  == m_backlog \o pipe
           places == front \o delivered
<1>1. /\ m_backlog \in Seq(Nat) /\ pipe \in Seq(Nat) /\ delivered \in Seq(Nat)
      /\ Distinct(m_backlog) /\ Distinct(pipe) /\ Distinct(delivered)
      /\ Range(m_backlog) \cap Range(pipe) = {}
      /\ Range(m_backlog) \cap Range(delivered) = {}
      /\ Range(pipe) \cap Range(delivered) = {}
  BY DEF StoreInv, Placed
<1>2. /\ front \in Seq(Nat) /\ Distinct(front)
      /\ Range(front) = Range(m_backlog) \union Range(pipe)
  BY <1>1, JoinFacts
<1> HIDE DEF front
<1>3. /\ places \in Seq(Nat) /\ Distinct(places)
      /\ Range(places) = Range(front) \union Range(delivered)
  <2>1. Range(front) \cap Range(delivered) = {}
    BY <1>1, <1>2
  <2> QED
    BY <1>1, <1>2, <2>1, JoinFacts
<1> HIDE DEF places
<1>4. /\ \A i \in 1 .. Len(places) : places[i] \in Range(places)
      /\ \A x \in Range(places) : \E i \in 1 .. Len(places) : x = places[i]
      /\ DOMAIN places = 1 .. Len(places)
  BY <1>3, InRange
<1>5. ASSUME NEW m \in 1 .. published
      PROVE  IF fate[m] = "none" THEN Cardinality({i \in DOMAIN places : places[i] = m}) = 1
             ELSE Cardinality({i \in DOMAIN places : places[i] = m}) = 0
  <2>1. fate[m] = "none" <=> m \in Range(places)
    BY <1>2, <1>3 DEF StoreInv, Placed, Where
  <2>2. CASE fate[m] = "none"
    <3>1. PICK i \in 1 .. Len(places) : m = places[i]
      BY <1>4, <2>1, <2>2
    <3>2. {j \in DOMAIN places : places[j] = m} = {i}
      BY <1>3, <1>4, <3>1 DEF Distinct
    <3>3. Cardinality({i}) = 1
      BY FS_Singleton
    <3> QED
      BY <2>2, <3>2, <3>3
  <2>3. CASE fate[m] # "none"
    <3>1. {j \in DOMAIN places : places[j] = m} = {}
      BY <1>4, <2>1, <2>3
    <3> QED
      BY <2>3, <3>1, FS_EmptySet
  <2> QED
    BY <2>2, <2>3
<1>6. places = m_backlog \o pipe \o delivered
  BY DEF places, front
<1> QED
  BY <1>5, <1>6 DEF Accounted

(* Every variable keeps its type; the backlog never holds more than its    *)
(* cap, nor the socket more than its high-water mark.                      *)
THEOREM TypeTheorem == Spec => []TypeOK
BY StoreInvAlways, FlagInvAlways, OtherFlagsAlways, StoreTypes, PTL

(* Publisher::pump: m_connected, with the events still to be read, tells   *)
(* the state of the link, however often it changed between two pumps.      *)
THEOREM FlagTheorem == Spec => []FlagFollowsLink
<1>1. FlagInv => FlagFollowsLink
  BY DEF FlagInv
<1> QED
  BY <1>1, FlagInvAlways, PTL

(* Publisher: a message is in one place or lost in one known way, and no   *)
(* drain, however interrupted, sends it twice.                             *)
THEOREM AccountTheorem == Spec => []Accounted
BY StoreInvAlways, OnePlace, PTL

(* The client gets the messages in the order of publication, save one that *)
(* was put aside and was overtaken by one that was not.                    *)
THEOREM OrderTheorem == Spec => []OnlyAsideOvertaken
BY StoreInvAlways, NoOtherOvertaken, PTL

(* publish, with the link down: what a full backlog evicts is older than   *)
(* all it keeps, and a whole backlog of newer messages was put aside.      *)
THEOREM EvictionTheorem == Spec => []OldestGoFirst
BY StoreInvAlways, OldestEvicted, PTL
=============================================================================

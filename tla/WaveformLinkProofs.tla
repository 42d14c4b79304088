------------------------- MODULE WaveformLinkProofs -------------------------
(***************************************************************************)
(* What a client of tpslinkserver receives, for every ring and every       *)
(* number space, any number of clients, restarts and broken links.         *)
(***************************************************************************)
EXTENDS WaveformLink, Facts

-----------------------------------------------------------------------------
(* What FlattenSeq joins, piece by piece.                                  *)
Joins(f, n, s) ==
  /\ FlattenSeq(s) = f[n] /\ f[1] = s[1]
  /\ \A i \in 2 .. n : f[i] = f[i - 1] \o s[i]

Joinable(S, n, s) == \E f \in [1 .. n -> Seq(S)] : Joins(f, n, s)

(* FlattenSeq joins any sequence of sequences.                             *)
LEMMA FlattenSteps ==
  ASSUME NEW S, NEW n \in Nat \ {0}, NEW s \in [1 .. n -> Seq(S)]
  PROVE  Joinable(S, n, s)
<1> DEFINE T == Seq(S)
           g == [i \in 1 .. n |-> [t \in T |-> t \o s[i]]]
           H(h) == h = [i \in 1 .. n |-> IF i = 1 THEN s[i] ELSE h[i - 1] \o s[i]]
<1>1. g \in [1 .. n -> [T -> T]]
  OBVIOUS
<1>2. << >> \in T /\ n \in Nat
  OBVIOUS
<1>3. \A i \in 1 .. n : \A t \in T : g[i][t] = t \o s[i]
  OBVIOUS
<1> HIDE DEF g, T, H
<1>4. PICK e \in [0 .. n -> T] : StepsTo(e, n, << >>, g)
  <2>1. CanStepTo(T, n, << >>, g)
    BY <1>1, <1>2, Iteration
  <2> QED
    BY <2>1 DEF CanStepTo
<1>5. ASSUME NEW i \in 1 .. n PROVE e[i] = e[i - 1] \o s[i]
  <2>1. i - 1 \in 0 .. n
    OBVIOUS
  <2>2. e[i - 1] \in T
    BY <2>1
  <2> QED
    BY <1>3, <1>4, <2>2 DEF StepsTo
<1>6. e[1] = s[1]
  <2>1. 1 \in 1 .. n /\ s[1] \in Seq(S) /\ e[0] = << >>
    BY <1>4 DEF StepsTo
  <2>2. e[1] = e[1 - 1] \o s[1] /\ 1 - 1 = 0
    BY <1>5, <2>1
  <2> QED
    BY <2>1, <2>2
<1> DEFINE f == [i \in 1 .. n |-> e[i]]
<1>7. f \in [1 .. n -> Seq(S)] /\ f[1] = s[1] /\ \A i \in 1 .. n : f[i] = e[i]
  BY <1>6 DEF T
<1>8. \A i \in 2 .. n : f[i] = f[i - 1] \o s[i]
  <2> SUFFICES ASSUME NEW i \in 2 .. n PROVE f[i] = f[i - 1] \o s[i]
    OBVIOUS
  <2>1. i \in 1 .. n /\ i - 1 \in 1 .. n
    OBVIOUS
  <2> HIDE DEF f
  <2> QED
    BY <1>5, <1>7, <2>1
<1> HIDE DEF f
<1>9. H(f)
  <2>1. \A i \in 1 .. n : f[i] = IF i = 1 THEN s[i] ELSE f[i - 1] \o s[i]
    <3> SUFFICES ASSUME NEW i \in 1 .. n
                 PROVE  f[i] = IF i = 1 THEN s[i] ELSE f[i - 1] \o s[i]
      OBVIOUS
    <3>1. i = 1 \/ i \in 2 .. n
      OBVIOUS
    <3> QED
      BY <1>7, <1>8, <3>1
  <2>2. f = [i \in 1 .. n |-> f[i]]
    BY <1>7
  <2> QED
    BY <2>1, <2>2, Zenon DEF H
<1>10. PICK h : H(h) /\ FlattenSeq(s) = h[n]
  <2>1. H(CHOOSE h : H(h))
    BY <1>9, Zenon
  <2>2. Len(s) = n /\ n # 0
    OBVIOUS
  <2>3. FlattenSeq(s) = (CHOOSE h : H(h))[n]
    BY <2>2 DEF FlattenSeq, H
  <2> QED
    BY <2>1, <2>3, Zenon
<1>11. h[1] = s[1] /\ \A i \in 2 .. n : h[i] = h[i - 1] \o s[i]
  <2>1. h = [i \in 1 .. n |-> IF i = 1 THEN s[i] ELSE h[i - 1] \o s[i]]
    BY <1>10 DEF H
  <2>2. \A i \in 1 .. n : h[i] = IF i = 1 THEN s[i] ELSE h[i - 1] \o s[i]
    BY <2>1, Zenon
  <2>3. 1 \in 1 .. n /\ \A i \in 2 .. n : i \in 1 .. n /\ i # 1
    OBVIOUS
  <2> QED
    BY <2>2, <2>3, Zenon
<1> DEFINE P == {i \in 1 .. n : h[i] = f[i]}
<1>12. 1 \in P /\ \A i \in 1 + 1 .. n : i - 1 \in P => i \in P
  <2>1. 1 \in P
    BY <1>7, <1>11
  <2>2. ASSUME NEW i \in 2 .. n, i - 1 \in P PROVE h[i] = f[i]
    BY <1>8, <1>11, <2>2
  <2> QED
    BY <2>1, <2>2
<1>13. \A i \in 1 .. n : i \in P
  <2> HIDE DEF P
  <2> QED
    BY <1>2, <1>12, Ascent
<1>14. FlattenSeq(s) = f[n]
  BY <1>10, <1>13
<1> QED
  BY <1>7, <1>8, <1>14 DEF Joins, Joinable

(* Blocks of d places one after another.                                   *)
LEMMA Blocks ==
  ASSUME NEW a \in Nat, NEW b \in Nat, NEW d \in Nat
  PROVE  /\ a * d \in Nat /\ (a + 1) * d = a * d + d
         /\ a < b => a * d + d <= b * d
<1>1. a * d \in Nat /\ (a + 1) * d = a * d + d
  OBVIOUS
<1>2. ASSUME a < b PROVE a * d + d <= b * d
  <2> DEFINE k == b - (a + 1)
  <2>1. k \in Nat /\ b = (a + 1) + k
    BY <1>2
  <2> HIDE DEF k
  <2>2. k * d \in Nat /\ ((a + 1) + k) * d = (a + 1) * d + k * d
    BY <2>1
  <2> QED
    BY <1>1, <2>1, <2>2
<1> QED
  BY <1>1, <1>2

(* Pieces of d places each: place j of piece i comes after i - 1 pieces.   *)
LEMMA FlattenEqual ==
  ASSUME NEW S, NEW n \in Nat \ {0}, NEW d \in Nat, NEW s \in [1 .. n -> Seq(S)],
         \A i \in 1 .. n : Len(s[i]) = d
  PROVE  /\ FlattenSeq(s) \in Seq(S) /\ Len(FlattenSeq(s)) = n * d
         /\ \A i \in 1 .. n, j \in 1 .. d : FlattenSeq(s)[(i - 1) * d + j] = s[i][j]
<1>1. PICK f \in [1 .. n -> Seq(S)] : Joins(f, n, s)
  BY FlattenSteps DEF Joinable
<1>0. /\ FlattenSeq(s) = f[n] /\ f[1] = s[1]
      /\ \A i \in 2 .. n : f[i] = f[i - 1] \o s[i]
  BY <1>1 DEF Joins
<1> DEFINE Joined(k) == /\ Len(f[k]) = k * d
                        /\ \A i \in 1 .. k, j \in 1 .. d : f[k][(i - 1) * d + j] = s[i][j]
           P == {k \in 1 .. n : Joined(k)}
<1>2. 1 \in P
  <2>1. 1 * d = d /\ \A i \in 1 .. 1, j \in 1 .. d : i = 1 /\ (i - 1) * d + j = j
    OBVIOUS
  <2>2. 1 \in 1 .. n
    OBVIOUS
  <2> QED
    BY <1>0, <2>1, <2>2
<1>3. ASSUME NEW k \in 2 .. n, Joined(k - 1) PROVE Joined(k)
  <2> DEFINE t == f[k - 1]
             u == s[k]
             m == (k - 1) * d
  <2>0. k \in 1 .. n /\ k - 1 \in 1 .. n
    OBVIOUS
  <2>1. f[k] = t \o u /\ t \in Seq(S) /\ u \in Seq(S) /\ Len(u) = d
    BY <1>0, <2>0
  <2>8. /\ Len(t) = m
        /\ \A i \in 1 .. k - 1, j \in 1 .. d : t[(i - 1) * d + j] = s[i][j]
    BY <1>3, Zenon
  <2>2. m \in Nat /\ k * d = m + d
    <3>1. k - 1 \in Nat /\ (k - 1) + 1 = k
      OBVIOUS
    <3> QED
      BY <3>1, Blocks
  <2>3. ASSUME NEW i \in 1 .. k - 1, NEW j \in 1 .. d
        PROVE  (i - 1) * d + j \in 1 .. m
    <3>1. i - 1 \in Nat /\ k - 1 \in Nat /\ i - 1 < k - 1
      OBVIOUS
    <3>2. (i - 1) * d \in Nat /\ (i - 1) * d + d <= m
      BY <3>1, Blocks
    <3> DEFINE e == (i - 1) * d
    <3> HIDE DEF e, m
    <3>3. e \in Nat /\ e + d <= m /\ m \in Nat
      BY <2>2, <3>2 DEF e
    <3>4. e + j \in 1 .. m
      BY <3>3
    <3> QED
      BY <3>4 DEF e
  <2> HIDE DEF t, u, m
  <2>4. /\ Len(f[k]) = m + d
        /\ \A x \in 1 .. m : f[k][x] = t[x]
        /\ \A j \in 1 .. d : f[k][m + j] = u[j]
    <3>1. /\ Len(t \o u) = Len(t) + Len(u)
          /\ \A x \in 1 .. Len(t) : (t \o u)[x] = t[x]
          /\ \A j \in 1 .. Len(u) : (t \o u)[Len(t) + j] = u[j]
      <4>1. t \in Seq(S) /\ u \in Seq(S)
        BY <2>1
      <4> HIDE DEF Joined, P
      <4> QED
        BY <4>1
    <3> QED
      BY <2>1, <2>8, <3>1
  <2>5. ASSUME NEW i \in 1 .. k, NEW j \in 1 .. d
        PROVE  f[k][(i - 1) * d + j] = s[i][j]
    <3>1. CASE i = k
      BY <2>4, <3>1 DEF m, u
    <3>2. CASE i # k
      <4>1. i \in 1 .. k - 1
        BY <3>2
      <4> QED
        BY <2>8, <2>3, <2>4, <4>1
    <3> QED
      BY <3>1, <3>2
  <2> QED
    BY <2>2, <2>4, <2>5
<1>4. \A k \in 1 + 1 .. n : k - 1 \in P => k \in P
  <2> HIDE DEF Joined
  <2> QED
    BY <1>3
<1>5. \A k \in 1 .. n : k \in P
  <2> HIDE DEF P
  <2> QED
    BY <1>2, <1>4, Ascent
<1>6. Joined(n) /\ f[n] \in Seq(S)
  BY <1>5, SMTT(30)
<1> QED
  BY <1>0, <1>6

-----------------------------------------------------------------------------
(* The ring of the server is the ring of RingLog, whose log holds what the *)
(* feed brought to this incarnation.                                       *)

Pushed == [i \in 1 .. produced |-> RecordAt(epoch, i - 1)]

Ring == INSTANCE RingLogProofs
          WITH log <- Pushed, answer <- [num |-> 0, res |-> "None", rec |-> NoRecord]

RingInv == Ring!Inv /\ epoch \in 1 .. MaxEpoch /\ produced \in 0 .. MaxProduced

(* The number space, its half and the capacity as numbers.                 *)
LEMMA RingBounds ==
  /\ Half \in Nat /\ Cap < Half /\ Half < SeqSpace
  /\ SeqSpace \in Nat \ {0} /\ Cap \in Nat \ {0} /\ Ring!Half = Half
BY RingAssumption DEF Half, Ring!Half

(* What RingInv says of the ring's fields.                                 *)
LEMMA RingFields ==
  ASSUME RingInv
  PROVE  /\ produced \in Nat /\ count \in Nat /\ Oldest \in Nat
         /\ count <= Cap /\ count <= produced /\ Oldest + count = produced
         /\ count = 0 => produced = 0
         /\ count = (IF produced < Cap THEN produced ELSE Cap)
         /\ slots \in [SlotIndex -> Slot] /\ head \in SlotIndex /\ count \in 0 .. Cap
<1>1. Ring!TypeOK /\ Ring!WindowInv
  BY DEF RingInv, Ring!Inv
<1>2. /\ slots \in [SlotIndex -> Slot] /\ head \in SlotIndex
      /\ count \in 0 .. Cap /\ produced \in Nat
  BY <1>1 DEF Ring!TypeOK, Ring!SlotIndex, SlotIndex, Ring!Slot, Slot, Ring!Wire, Wire
<1>3. count = (IF produced < Cap THEN produced ELSE Cap)
  BY <1>1 DEF Ring!WindowInv
<1> QED
  BY <1>2, <1>3, RingBounds DEF Oldest

(* The ring starts empty, and so it does again after a restart.            *)
LEMMA RingStarts == Ring!Init => Ring!Inv
BY Ring!InitInv, RingBounds, RingAssumption

LEMMA RingRestarts == Ring!Init' => Ring!Inv'
BY RingStarts, PTL

LEMMA EmptyRing ==
  ASSUME RingInit, epoch \in 1 .. MaxEpoch
  PROVE  RingInv
<1>1. Pushed = << >>
  BY DEF RingInit, Pushed
<1>2. Ring!Init
  BY <1>1 DEF Ring!Init, RingInit, Ring!RingInit, SlotIndex, Ring!SlotIndex, EmptySlot,
              Ring!EmptySlot
<1>3. Ring!Inv
  BY <1>2, RingStarts
<1> QED
  BY <1>3, LinkAssumption DEF RingInv, RingInit

(* What the feed brings is pushed.                                         *)
LEMMA IngestRing ==
  ASSUME RingInv, Ingest
  PROVE  RingInv'
<1>1. /\ produced \in 0 .. MaxProduced /\ produced < MaxProduced /\ MaxProduced \in Nat
      /\ produced' = produced + 1 /\ epoch' = epoch /\ epoch \in 1 .. MaxEpoch
  BY LinkAssumption DEF RingInv, Ingest, Push
<1>2. RecordAt(epoch, produced) \in Record
  <2>1. produced \in 0 .. MaxProduced - 1
    BY <1>1
  <2> QED
    BY <1>1, <2>1, LinkAssumption
<1>3. Pushed' = Append(Pushed, RecordAt(epoch, produced))
  BY <1>1 DEF Pushed
<1>4. Ring!Produce(RecordAt(epoch, produced))
  BY <1>3 DEF Ingest, Ring!Produce, Push, Ring!Push, Frame, Ring!Frame, NextHead,
              Ring!NextHead, NextCount, Ring!NextCount, NextSeq, Ring!NextSeq
<1>5. Ring!Inv'
  BY <1>2, <1>4, Ring!ProduceInv, RingBounds, RingAssumption DEF RingInv
<1> QED
  BY <1>1, <1>5 DEF RingInv

(* The numbers packet() can still tell apart.                              *)
InHorizon(n) == Oldest - (SeqSpace - Half) <= n /\ n < Oldest + Half

(* packet() is right about them, and what it copies is the record of that  *)
(* number.                                                                 *)
LEMMA RingAnswers ==
  ASSUME RingInv, NEW n \in Nat, InHorizon(n)
  PROVE  LET q == n % SeqSpace IN
         /\ n >= produced => PacketResult(q) = "Future"
         /\ n < Oldest => PacketResult(q) = "TooOld"
         /\ n >= Oldest => Forward(q) = n - Oldest
         /\ Oldest <= n /\ n < produced =>
              /\ PacketResult(q) = "Ok"
              /\ SlotOf(q) = [abs |-> n, wire |-> q, rec |-> RecordAt(epoch, n)]
<1>1. Ring!Inv
  BY DEF RingInv
<1>2. n \in Ring!Horizon
  <2>1. Oldest \in Nat /\ SeqSpace - Half \in Int /\ Half \in Nat
    BY RingFields, RingBounds
  <2>2. n \in (Oldest - (SeqSpace - Half)) .. (Oldest + Half - 1)
    BY <2>1 DEF InHorizon
  <2> QED
    BY <2>2, RingBounds DEF Ring!Horizon, Ring!Oldest, Oldest
<1> DEFINE q == n % SeqSpace
<1>3. /\ Ring!Forward(q) = Forward(q) /\ Ring!Oldest = Oldest
      /\ Ring!PacketResult(q) = PacketResult(q)
  BY RingBounds DEF Ring!PacketResult, PacketResult, Ring!SlotOf, SlotOf, Ring!Forward, Forward,
                    Ring!OldestSeq, OldestSeq, Ring!Oldest, Oldest
<1>4. n >= Oldest => Forward(q) = n - Oldest
  BY <1>1, <1>2, <1>3, Ring!ForwardExact, RingBounds, RingAssumption
<1>5. Ring!HonestAnswers
  BY <1>1, Ring!AnswersHonest, RingBounds, RingAssumption
<1>6. /\ n >= produced => PacketResult(q) = "Future"
      /\ n < Oldest => PacketResult(q) = "TooOld"
      /\ n \in Oldest .. (produced - 1) => PacketResult(q) = "Ok"
  BY <1>2, <1>3, <1>5 DEF Ring!HonestAnswers, Ring!AnswerTo
<1>7. ASSUME Oldest <= n, n < produced
      PROVE  /\ PacketResult(q) = "Ok"
             /\ SlotOf(q) = [abs |-> n, wire |-> q, rec |-> RecordAt(epoch, n)]
  <2>1. n \in Oldest .. (produced - 1) /\ n + 1 \in 1 .. produced /\ (n + 1) - 1 = n
    BY <1>7, RingFields
  <2>2. slots[n % Cap] = [abs |-> n, wire |-> n % SeqSpace, rec |-> Pushed[n + 1]]
    BY <1>1, <1>3, <2>1 DEF Ring!Inv, Ring!WindowInv
  <2>3. Pushed[n + 1] = RecordAt(epoch, n)
    BY <2>1 DEF Pushed
  <2>4. Oldest + Forward(q) = n
    BY <1>4, <1>7, RingFields
  <2> QED
    BY <1>6, <2>1, <2>2, <2>3, <2>4 DEF SlotOf
<1> QED
  BY <1>4, <1>6, <1>7

(* How far the number n lies ahead of the oldest record.                   *)
LEMMA ForwardOf ==
  ASSUME RingInv
  PROVE  \A n \in Nat : InHorizon(n) /\ n >= Oldest => Forward(n % SeqSpace) = n - Oldest
BY RingAnswers

(* A bare DATA starts after the newest record, any other at a number the   *)
(* ring holds or at the next one.                                          *)
LEMMA ResumeAny ==
  ASSUME RingInv, NEW q \in Wire
  PROVE  LET a == AbsOf(ResumeCursor(q)) IN
         /\ a \in Oldest .. produced /\ ResumeCursor(q) = a % SeqSpace
         /\ AbsOf(NextSeq) = produced
<1>1. /\ Oldest \in Nat /\ produced \in Nat /\ count \in Nat /\ Oldest + count = produced
      /\ count <= Cap /\ Cap \in Nat /\ Half \in Nat /\ Cap < Half /\ SeqSpace \in Nat \ {0}
      /\ Half < SeqSpace
  BY RingFields, RingBounds
<1>2. Forward(Oldest % SeqSpace) = 0
  <2>1. InHorizon(Oldest)
    BY <1>1 DEF InHorizon
  <2>2. Forward(Oldest % SeqSpace) = Oldest - Oldest
    BY <1>1, <2>1, ForwardOf
  <2> QED
    BY <1>1, <2>2
<1>3. Forward(produced % SeqSpace) = count
  <2>1. InHorizon(produced)
    BY <1>1 DEF InHorizon
  <2>2. Forward(produced % SeqSpace) = produced - Oldest
    BY <1>1, <2>1, ForwardOf
  <2> QED
    BY <1>1, <2>2
<1>4. CASE PacketResult(q) = "Ok"
  <2> DEFINE o == Oldest % SeqSpace
             k == (q - o) % SeqSpace
  <2>1. k \in 0 .. SeqSpace - 1 /\ k < count
    <3>1. Forward(q) = k /\ Forward(q) < count
      BY <1>4 DEF PacketResult, Forward, OldestSeq
    <3>2. o \in 0 .. SeqSpace - 1
      BY <1>1, DivMod DEF Wire
    <3>3. q - o \in Int
      BY <1>1, <3>2 DEF Wire
    <3>4. (q - o) % SeqSpace \in 0 .. SeqSpace - 1
      BY <1>1, <3>3, DivMod
    <3> QED
      BY <3>1, <3>4
  <2>2. (Oldest + k) % SeqSpace = q
    <3>0. \E d \in Int : Oldest = SeqSpace * d + o
      <4>1. Oldest \in Int
        BY <1>1
      <4> HIDE DEF k
      <4> QED
        BY <1>1, <4>1, DivMod
    <3>1. PICK d \in Int : Oldest = SeqSpace * d + o
      BY <3>0
    <3>2. o \in 0 .. SeqSpace - 1 /\ q \in 0 .. SeqSpace - 1
      BY <1>1, DivMod DEF Wire
    <3>3. q - o \in Int /\ (q - o) % SeqSpace = (IF q >= o THEN q - o ELSE (q - o) + SeqSpace)
      <4>0. SeqSpace * 0 = 0 /\ SeqSpace * (-1) = -SeqSpace
        BY <1>1
      <4>1. CASE q >= o
        <5>1. (SeqSpace * 0 + (q - o)) % SeqSpace = q - o
          <6> DEFINE r == q - o
          <6>1. r \in 0 .. SeqSpace - 1
            BY <1>1, <3>2, <4>1
          <6> HIDE DEF r
          <6>2. (SeqSpace * 0 + r) % SeqSpace = r
            BY <1>1, <6>1, ModOf
          <6> QED
            BY <6>2 DEF r
        <5> QED
          BY <1>1, <3>2, <4>0, <4>1, <5>1
      <4>2. CASE q < o
        <5> DEFINE r == (q - o) + SeqSpace
        <5>1. r \in 0 .. SeqSpace - 1 /\ q - o = SeqSpace * (-1) + r
          BY <1>1, <3>2, <4>0, <4>2
        <5>2. (SeqSpace * (-1) + r) % SeqSpace = r
          <6> HIDE DEF r
          <6> QED
            BY <1>1, <5>1, ModOf
        <5> QED
          BY <1>1, <3>2, <4>2, <5>1, <5>2
      <4> QED
        BY <1>1, <3>2, <4>1, <4>2
    <3>4. SeqSpace * (d + 1) = SeqSpace * d + SeqSpace /\ SeqSpace * d \in Int
      BY <1>1
    <3>5. (SeqSpace * d + q) % SeqSpace = q /\ (SeqSpace * (d + 1) + q) % SeqSpace = q
      BY <1>1, <3>2, ModOf
    <3>6. Oldest + k = SeqSpace * d + q \/ Oldest + k = SeqSpace * (d + 1) + q
      <4> DEFINE u == SeqSpace * d
                 v == SeqSpace * (d + 1)
      <4>1. u \in Int /\ v = u + SeqSpace /\ Oldest = u + o
        BY <3>1, <3>4
      <4> HIDE DEF u, v, o
      <4>2. Oldest + k = u + q \/ Oldest + k = v + q
        BY <1>1, <3>2, <3>3, <4>1
      <4> QED
        BY <4>2 DEF u, v
    <3> QED
      BY <3>5, <3>6, Zenon
  <2>3. AbsOf(q) = Oldest + k /\ ResumeCursor(q) = q
    BY <1>4 DEF AbsOf, Forward, OldestSeq, ResumeCursor
  <2> HIDE DEF k
  <2>4. Oldest + k \in Oldest .. produced
    BY <1>1, <2>1
  <2>5. AbsOf(NextSeq) = produced
    BY <1>1, <1>3 DEF AbsOf, NextSeq
  <2> QED
    BY <2>2, <2>3, <2>4, <2>5
<1>5. CASE PacketResult(q) # "Ok"
  <2>1. AbsOf(OldestSeq) = Oldest /\ AbsOf(NextSeq) = produced
    BY <1>1, <1>2, <1>3 DEF AbsOf, OldestSeq, NextSeq
  <2>2. ResumeCursor(q) = OldestSeq \/ ResumeCursor(q) = NextSeq
    BY <1>5 DEF ResumeCursor
  <2> QED
    BY <1>1, <2>1, <2>2 DEF OldestSeq, NextSeq
<1> QED
  BY <1>4, <1>5

(* A number that can be told apart is taken up exactly, or, if the ring    *)
(* has lost it, at the oldest record with the loss on record.              *)
LEMMA ResumeExact ==
  ASSUME RingInv, NEW n \in Nat, InHorizon(n), n <= produced
  PROVE  LET q == n % SeqSpace IN
         /\ n >= Oldest => AbsOf(ResumeCursor(q)) = n
         /\ n < Oldest => PacketResult(q) = "TooOld" /\ AbsOf(ResumeCursor(q)) = Oldest
<1> DEFINE q == n % SeqSpace
<1>1. /\ Oldest \in Nat /\ produced \in Nat /\ count \in Nat /\ Oldest + count = produced
      /\ SeqSpace \in Nat \ {0} /\ Half \in Nat /\ Half > 0 /\ Half < SeqSpace
  BY RingFields, RingBounds
<1>2. CASE n >= Oldest
  <2>1. ResumeCursor(q) = q
    <3>1. CASE n = produced
      BY <3>1 DEF ResumeCursor, NextSeq
    <3>2. CASE n # produced
      <4>1. Oldest <= n /\ n < produced
        BY <1>1, <1>2, <3>2
      <4>2. PacketResult(q) = "Ok"
        BY <4>1, RingAnswers
      <4> QED
        BY <4>2 DEF ResumeCursor
    <3> QED
      BY <3>1, <3>2
  <2>2. Forward(q) = n - Oldest
    BY <1>2, RingAnswers
  <2> QED
    BY <1>1, <1>2, <2>1, <2>2 DEF AbsOf
<1>3. CASE n < Oldest
  <2>1. PacketResult(q) = "TooOld"
    BY <1>3, RingAnswers
  <2>2. q # NextSeq
    <3>1. InHorizon(produced) /\ produced >= produced
      BY <1>1, RingFields, RingBounds DEF InHorizon
    <3>2. PacketResult(NextSeq) = "Future"
      BY <1>1, <3>1, RingAnswers DEF NextSeq
    <3> QED
      BY <2>1, <3>2
  <2>3. ResumeCursor(q) = OldestSeq
    BY <2>1, <2>2 DEF ResumeCursor
  <2>4. InHorizon(Oldest)
    BY <1>1 DEF InHorizon
  <2>5. Forward(Oldest % SeqSpace) = Oldest - Oldest
    BY <1>1, <2>4, ForwardOf
  <2> QED
    BY <1>1, <1>3, <2>1, <2>3, <2>5 DEF AbsOf, OldestSeq
<1> QED
  BY <1>1, <1>2, <1>3

-----------------------------------------------------------------------------
(* What lies before a client: x is the packet it took last, d what is on   *)
(* its way to it, y the packet the server's cursor stands at.              *)

Way(x, d, y) == <<x>> \o d \o <<y>>

OrderOk(s) ==
  \A i, j \in DOMAIN s :
    i < j /\ IsPacket(s[i]) /\ IsPacket(s[j]) => Earlier(s[i], s[j])

Excused(c, p, q) == Missing(c, p, q) = {} \/ q.jumped

GapOk(c, s, a) ==
  \A i, j \in DOMAIN s : Follows(s, i, j) => Excused(c, s[i], s[j]) \/ (i = 1 /\ a)

Linked(c, s, a) == OrderOk(s) /\ GapOk(c, s, a)

LEMMA WayParts ==
  ASSUME NEW S, NEW x \in S, NEW d \in Seq(S), NEW y \in S
  PROVE  /\ DOMAIN Way(x, d, y) = 1 .. Len(d) + 2 /\ Len(d) \in Nat
         /\ Way(x, d, y)[1] = x /\ Way(x, d, y)[Len(d) + 2] = y
         /\ \A i \in 2 .. Len(d) + 1 : Way(x, d, y)[i] = d[i - 1]
<1>1. /\ <<x>> \o d \in Seq(S) /\ Len(<<x>> \o d) = Len(d) + 1 /\ Len(d) \in Nat
      /\ (<<x>> \o d)[1] = x
      /\ \A k \in 1 .. Len(d) : (<<x>> \o d)[k + 1] = d[k]
  OBVIOUS
<1> DEFINE t == <<x>> \o d
<1>2. /\ t \in Seq(S) /\ Len(t) = Len(d) + 1 /\ t[1] = x
      /\ \A k \in 1 .. Len(d) : t[k + 1] = d[k]
  BY <1>1
<1> HIDE DEF t
<1>3. /\ t \o <<y>> \in Seq(S) /\ Len(t \o <<y>>) = Len(t) + 1
      /\ (t \o <<y>>)[Len(t) + 1] = y
      /\ \A k \in 1 .. Len(t) : (t \o <<y>>)[k] = t[k]
  BY <1>2
<1>4. Way(x, d, y) = t \o <<y>>
  BY DEF Way, t
<1> DEFINE w == Way(x, d, y)
<1>5. /\ w \in Seq(S) /\ Len(w) = Len(d) + 2 /\ w[Len(d) + 2] = y
      /\ \A k \in 1 .. Len(d) + 1 : w[k] = t[k]
  BY <1>1, <1>2, <1>3, <1>4
<1> HIDE DEF w
<1>6. \A i \in 2 .. Len(d) + 1 : w[i] = d[i - 1]
  <2> SUFFICES ASSUME NEW i \in 2 .. Len(d) + 1 PROVE w[i] = d[i - 1]
    OBVIOUS
  <2>1. i \in 1 .. Len(d) + 1 /\ i - 1 \in 1 .. Len(d) /\ (i - 1) + 1 = i
    BY <1>1
  <2> QED
    BY <1>2, <1>5, <2>1
<1>7. w[1] = x /\ DOMAIN w = 1 .. Len(d) + 2
  <2>1. 1 \in 1 .. Len(d) + 1
    BY <1>1
  <2> QED
    BY <1>1, <1>2, <1>5, <2>1
<1> QED
  BY <1>1, <1>5, <1>6, <1>7 DEF w

(* A way without packets is in order.                                      *)
LEMMA LinkedEmpty ==
  ASSUME NEW c, NEW S, NEW x \in S, NEW d \in Seq(S), NEW y \in S, NEW a
  PROVE  d = << >> /\ ~IsPacket(y) => Linked(c, Way(x, d, y), a)
<1> DEFINE w == Way(x, d, y)
<1>1. DOMAIN w = 1 .. Len(d) + 2 /\ w[Len(d) + 2] = y
  BY WayParts
<1> HIDE DEF w
<1> SUFFICES ASSUME d = << >>, ~IsPacket(y) PROVE Linked(c, w, a)
  BY DEF w
<1>2. Len(d) = 0
  OBVIOUS
<1>3. DOMAIN w = 1 .. 2 /\ w[2] = y
  BY <1>1, <1>2
<1>4. ASSUME NEW i \in DOMAIN w, NEW j \in DOMAIN w, i < j, IsPacket(w[j]) PROVE FALSE
  BY <1>3, <1>4
<1>5. OrderOk(w) /\ GapOk(c, w, a)
  BY <1>4 DEF OrderOk, GapOk, Follows
<1> QED
  BY <1>5 DEF Linked

(* The client reads the first n, with the replies.                         *)
LEMMA LinkedDrop ==
  ASSUME NEW c, NEW S, NEW x \in S, NEW d \in Seq(S), NEW y \in S, NEW a \in BOOLEAN,
         Linked(c, Way(x, d, y), a), NEW n \in 0 .. Len(d)
  PROVE  Linked(c, Way(x, SubSeq(d, n + 1, Len(d)), y),
                a \/ \E i \in 1 .. n : IsPacket(d[i]))
<1> DEFINE e == SubSeq(d, n + 1, Len(d))
           w == Way(x, d, y)
           v == Way(x, e, y)
           m == Len(d)
           b == a \/ \E i \in 1 .. n : IsPacket(d[i])
           f == [i \in 1 .. m - n + 2 |-> IF i = 1 THEN 1 ELSE i + n]
<1>1. e \in Seq(S) /\ Len(e) = m - n /\ m \in Nat /\ n \in 0 .. m
      /\ \A k \in 1 .. m - n : e[k] = d[k + n]
  BY RestParts
<1>2. /\ DOMAIN w = 1 .. m + 2 /\ w[1] = x /\ w[m + 2] = y
      /\ \A i \in 2 .. m + 1 : w[i] = d[i - 1]
  BY <1>1, WayParts
<1>3. /\ DOMAIN v = 1 .. m - n + 2 /\ v[1] = x /\ v[m - n + 2] = y
      /\ \A i \in 2 .. m - n + 1 : v[i] = e[i - 1]
  <2> HIDE DEF e, v, m
  <2>1. /\ DOMAIN Way(x, e, y) = 1 .. Len(e) + 2
        /\ Way(x, e, y)[1] = x /\ Way(x, e, y)[Len(e) + 2] = y
        /\ \A i \in 2 .. Len(e) + 1 : Way(x, e, y)[i] = e[i - 1]
    BY <1>1, WayParts
  <2> QED
    BY <1>1, <2>1 DEF v
<1>0. OrderOk(w) /\ GapOk(c, w, a)
  BY DEF Linked
<1> HIDE DEF e, w, v, m
<1>4. \A i \in 1 .. m - n + 2 : f[i] \in 1 .. m + 2 /\ v[i] = w[f[i]]
  <2> SUFFICES ASSUME NEW i \in 1 .. m - n + 2 PROVE f[i] \in 1 .. m + 2 /\ v[i] = w[f[i]]
    OBVIOUS
  <2>1. CASE i = 1
    BY <1>1, <1>2, <1>3, <2>1
  <2>2. CASE i = m - n + 2
    BY <1>1, <1>2, <1>3, <2>2
  <2>3. CASE i \in 2 .. m - n + 1
    <3>1. i - 1 \in 1 .. m - n /\ i + n \in 2 .. m + 1 /\ f[i] = i + n /\ (i - 1) + n = (i + n) - 1
      BY <1>1, <2>3
    <3>2. v[i] = d[(i - 1) + n]
      BY <1>1, <1>3, <2>3, <3>1
    <3>3. w[i + n] = d[(i + n) - 1]
      BY <1>2, <3>1
    <3>4. i + n \in 1 .. m + 2
      BY <1>1, <3>1
    <3> QED
      BY <3>1, <3>2, <3>3, <3>4
  <2> QED
    BY <1>1, <2>1, <2>2, <2>3
<1>5. \A i \in 1 .. m - n + 2 : f[i] = IF i = 1 THEN 1 ELSE i + n
  OBVIOUS
<1> HIDE DEF f
<1>6. OrderOk(v)
  <2> SUFFICES ASSUME NEW i \in 1 .. m - n + 2, NEW j \in 1 .. m - n + 2, i < j,
                      IsPacket(v[i]), IsPacket(v[j])
               PROVE  Earlier(v[i], v[j])
    BY <1>3 DEF OrderOk
  <2>1. f[i] < f[j]
    BY <1>1, <1>5
  <2>2. f[i] \in DOMAIN w /\ f[j] \in DOMAIN w /\ v[i] = w[f[i]] /\ v[j] = w[f[j]]
    BY <1>2, <1>4
  <2>3. IsPacket(w[f[i]]) /\ IsPacket(w[f[j]])
    BY <2>2
  <2> QED
    BY <1>0, <2>1, <2>2, <2>3 DEF OrderOk
<1>7. GapOk(c, v, b)
  <2> SUFFICES ASSUME NEW i \in 1 .. m - n + 2, NEW j \in 1 .. m - n + 2, Follows(v, i, j)
               PROVE  Excused(c, v[i], v[j]) \/ (i = 1 /\ b)
    BY <1>3, Zenon DEF GapOk
  <2>1. f[i] < f[j] /\ IsPacket(w[f[i]]) /\ IsPacket(w[f[j]])
    BY <1>1, <1>4, <1>5 DEF Follows
  <2>2. CASE Follows(w, f[i], f[j])
    <3>1. Excused(c, w[f[i]], w[f[j]]) \/ (f[i] = 1 /\ a)
      <4>1. f[i] \in DOMAIN w /\ f[j] \in DOMAIN w
        BY <1>2, <1>4
      <4> QED
        BY <1>0, <2>2, <4>1, Zenon DEF GapOk
    <3>2. f[i] = 1 => i = 1
      BY <1>1, <1>5
    <3> QED
      BY <1>4, <3>1, <3>2
  <2>3. CASE ~Follows(w, f[i], f[j])
    <3>1. PICK k \in (f[i] + 1) .. (f[j] - 1) : IsPacket(w[k])
      BY <2>1, <2>3 DEF Follows
    <3>2. CASE k \in 2 .. n + 1
      <4>1. i = 1
        BY <1>1, <1>5, <3>2
      <4>2. k - 1 \in 1 .. n /\ k \in 2 .. m + 1
        BY <1>1, <3>2
      <4>3. IsPacket(d[k - 1])
        BY <1>2, <3>1, <4>2
      <4> QED
        BY <4>1, <4>2, <4>3
    <3>3. CASE k \notin 2 .. n + 1
      <4>1. k - n \in (i + 1) .. (j - 1) /\ k - n \in 1 .. m - n + 2 /\ f[k - n] = k
        <5>1. i < j
          BY DEF Follows
        <5>2. f[j] = j + n /\ (i # 1 => f[i] = i + n) /\ (i = 1 => f[i] = 1)
          BY <1>1, <1>5, <5>1
        <5>3. k > n + 1 /\ k > i + n /\ k < j + n
          BY <1>1, <3>1, <3>3, <5>1, <5>2
        <5>4. k - n \in (i + 1) .. (j - 1) /\ k - n \in 1 .. m - n + 2 /\ k - n # 1
          BY <1>1, <5>3, SMTT(30)
        <5>5. (k - n) + n = k
          BY <1>1, <3>1
        <5> QED
          BY <1>5, <5>4, <5>5
      <4>2. v[k - n] = w[k]
        BY <1>4, <4>1
      <4> QED
        BY <3>1, <4>1, <4>2 DEF Follows
    <3> QED
      BY <3>2, <3>3
  <2> QED
    BY <2>2, <2>3
<1>8. Linked(c, v, b)
  BY <1>6, <1>7 DEF Linked
<1> QED
  BY <1>8 DEF v, e, m

(* The client takes the packet at the head.                                *)
LEMMA LinkedTake ==
  ASSUME NEW c, NEW S, NEW x \in S, NEW d \in Seq(S), NEW y \in S, NEW a,
         Linked(c, Way(x, d, y), a), d # << >>
  PROVE  Linked(c, Way(Head(d), Tail(d), y), FALSE)
<1> DEFINE e == Tail(d)
           w == Way(x, d, y)
           v == Way(Head(d), e, y)
           m == Len(d)
<1>1. e \in Seq(S) /\ Len(e) = m - 1 /\ m \in Nat \ {0} /\ Head(d) = d[1] /\ Head(d) \in S
      /\ \A k \in 1 .. m - 1 : e[k] = d[k + 1]
  BY TailParts
<1>2. /\ DOMAIN w = 1 .. m + 2 /\ w[1] = x /\ w[m + 2] = y
      /\ \A i \in 2 .. m + 1 : w[i] = d[i - 1]
  BY <1>1, WayParts
<1>3. /\ DOMAIN v = 1 .. m + 1 /\ v[1] = d[1] /\ v[m + 1] = y
      /\ \A i \in 2 .. m : v[i] = e[i - 1]
  <2> HIDE DEF e, v, m
  <2>1. /\ DOMAIN Way(Head(d), e, y) = 1 .. Len(e) + 2
        /\ Way(Head(d), e, y)[1] = Head(d) /\ Way(Head(d), e, y)[Len(e) + 2] = y
        /\ \A i \in 2 .. Len(e) + 1 : Way(Head(d), e, y)[i] = e[i - 1]
    BY <1>1, WayParts, SMTT(30)
  <2> QED
    BY <1>1, <2>1 DEF v
<1>4. OrderOk(w) /\ GapOk(c, w, a)
  BY DEF Linked
<1> HIDE DEF e, w, v, m
<1>5. \A i \in 1 .. m + 1 : i + 1 \in DOMAIN w /\ v[i] = w[i + 1]
  <2> SUFFICES ASSUME NEW i \in 1 .. m + 1 PROVE i + 1 \in DOMAIN w /\ v[i] = w[i + 1]
    OBVIOUS
  <2>1. i + 1 \in 1 .. m + 2
    BY <1>1
  <2>2. CASE i = m + 1
    BY <1>1, <1>2, <1>3, <2>2
  <2>3. CASE i = 1
    BY <1>1, <1>2, <1>3, <2>3
  <2>4. CASE i \in 2 .. m
    <3>1. i - 1 \in 1 .. m - 1 /\ i + 1 \in 2 .. m + 1 /\ (i - 1) + 1 = i /\ (i + 1) - 1 = i
      BY <1>1, <2>4
    <3>2. v[i] = d[i]
      BY <1>1, <1>3, <2>4, <3>1
    <3>3. w[i + 1] = d[i]
      BY <1>2, <3>1
    <3> QED
      BY <1>2, <2>1, <3>2, <3>3
  <2> QED
    BY <1>1, <2>2, <2>3, <2>4
<1>6. OrderOk(v)
  <2> SUFFICES ASSUME NEW i \in 1 .. m + 1, NEW j \in 1 .. m + 1, i < j,
                      IsPacket(v[i]), IsPacket(v[j])
               PROVE  Earlier(v[i], v[j])
    BY <1>3 DEF OrderOk
  <2>1. i + 1 < j + 1
    BY <1>1
  <2> QED
    BY <1>4, <1>5, <2>1 DEF OrderOk
<1>7. GapOk(c, v, FALSE)
  <2> SUFFICES ASSUME NEW i \in 1 .. m + 1, NEW j \in 1 .. m + 1, Follows(v, i, j)
               PROVE  Excused(c, v[i], v[j])
    BY <1>3, Zenon DEF GapOk
  <2>1. Follows(w, i + 1, j + 1)
    <3>1. i < j /\ IsPacket(v[i]) /\ IsPacket(v[j])
      BY DEF Follows
    <3>2. i + 1 < j + 1 /\ IsPacket(w[i + 1]) /\ IsPacket(w[j + 1])
      BY <1>1, <1>5, <3>1
    <3>3. ASSUME NEW k \in ((i + 1) + 1) .. ((j + 1) - 1) PROVE ~IsPacket(w[k])
      <4>1. k - 1 \in (i + 1) .. (j - 1) /\ k - 1 \in 1 .. m + 1 /\ (k - 1) + 1 = k
        BY <1>1
      <4>2. ~IsPacket(v[k - 1])
        BY <4>1 DEF Follows
      <4> QED
        BY <1>5, <4>1, <4>2
    <3> QED
      BY <3>2, <3>3 DEF Follows
  <2>2. Excused(c, w[i + 1], w[j + 1]) \/ (i + 1 = 1 /\ a)
    BY <1>4, <1>5, <2>1, Zenon DEF GapOk
  <2>3. i + 1 # 1
    BY <1>1
  <2> QED
    BY <1>5, <2>2, <2>3
<1>8. Linked(c, v, FALSE)
  BY <1>6, <1>7 DEF Linked
<1> QED
  BY <1>8 DEF v, e

(* A reply is sent before the connection has a cursor.                     *)
LEMMA LinkedText ==
  ASSUME NEW c, NEW S, NEW x \in S, NEW d \in Seq(S), NEW y \in S, NEW z \in S, NEW t \in S,
         NEW a, Linked(c, Way(x, d, y), a), ~IsPacket(t), ~IsPacket(z) \/ z = y
  PROVE  Linked(c, Way(x, Append(d, t), z), a)
<1> DEFINE e == Append(d, t)
           w == Way(x, d, y)
           v == Way(x, e, z)
           m == Len(d)
           f == [i \in 1 .. m + 3 |-> IF i = m + 3 THEN m + 2 ELSE i]
<1>1. e \in Seq(S) /\ Len(e) = m + 1 /\ m \in Nat /\ e[m + 1] = t
      /\ \A k \in 1 .. m : e[k] = d[k]
  BY AppendParts
<1>2. /\ DOMAIN w = 1 .. m + 2 /\ w[1] = x /\ w[m + 2] = y
      /\ \A i \in 2 .. m + 1 : w[i] = d[i - 1]
  BY <1>1, WayParts
<1>3. /\ DOMAIN v = 1 .. m + 3 /\ v[1] = x /\ v[m + 3] = z
      /\ \A i \in 2 .. m + 2 : v[i] = e[i - 1]
  <2> HIDE DEF e, v, m
  <2>1. /\ DOMAIN Way(x, e, z) = 1 .. Len(e) + 2
        /\ Way(x, e, z)[1] = x /\ Way(x, e, z)[Len(e) + 2] = z
        /\ \A i \in 2 .. Len(e) + 1 : Way(x, e, z)[i] = e[i - 1]
    BY <1>1, WayParts, SMTT(30)
  <2> QED
    BY <1>1, <2>1 DEF v
<1>4. OrderOk(w) /\ GapOk(c, w, a)
  BY DEF Linked
<1>5. \A i \in 1 .. m + 3 : f[i] = IF i = m + 3 THEN m + 2 ELSE i
  OBVIOUS
<1> HIDE DEF e, w, v, m, f
<1>6. ASSUME NEW i \in 1 .. m + 3
      PROVE  f[i] \in DOMAIN w /\ (IsPacket(v[i]) => i # m + 2 /\ v[i] = w[f[i]])
  <2>1. CASE i = m + 3
    BY <1>1, <1>2, <1>3, <1>5, <2>1
  <2>2. CASE i = m + 2
    <3>1. v[i] = e[(m + 2) - 1] /\ (m + 2) - 1 = m + 1
      BY <1>1, <1>3, <2>2
    <3> QED
      BY <1>1, <1>2, <1>5, <2>2, <3>1
  <2>3. CASE i = 1
    BY <1>1, <1>2, <1>3, <1>5, <2>3
  <2>4. CASE i \in 2 .. m + 1
    <3>1. i - 1 \in 1 .. m /\ i \in 2 .. m + 2 /\ f[i] = i /\ i \in 1 .. m + 2 /\ i # m + 2
      BY <1>1, <1>5, <2>4
    <3>2. v[i] = d[i - 1] /\ w[i] = d[i - 1]
      BY <1>1, <1>2, <1>3, <2>4, <3>1
    <3> QED
      BY <1>2, <3>1, <3>2
  <2> QED
    BY <1>1, <2>1, <2>2, <2>3, <2>4
<1>7. ASSUME NEW i \in 1 .. m + 3, NEW j \in 1 .. m + 3, i < j, IsPacket(v[i]), IsPacket(v[j])
      PROVE  f[i] < f[j] /\ f[i] = i
  <2>1. i # m + 2 /\ j # m + 2 /\ i # m + 3
    BY <1>1, <1>6, <1>7
  <2> QED
    BY <1>1, <1>5, <1>7, <2>1
<1>8. OrderOk(v)
  <2> SUFFICES ASSUME NEW i \in 1 .. m + 3, NEW j \in 1 .. m + 3, i < j,
                      IsPacket(v[i]), IsPacket(v[j])
               PROVE  Earlier(v[i], v[j])
    BY <1>3 DEF OrderOk
  <2>1. f[i] < f[j]
    BY <1>7
  <2>2. f[i] \in DOMAIN w /\ f[j] \in DOMAIN w /\ v[i] = w[f[i]] /\ v[j] = w[f[j]]
    BY <1>6
  <2> QED
    BY <1>4, <2>1, <2>2 DEF OrderOk
<1>9. GapOk(c, v, a)
  <2> SUFFICES ASSUME NEW i \in 1 .. m + 3, NEW j \in 1 .. m + 3, Follows(v, i, j)
               PROVE  Excused(c, v[i], v[j]) \/ (i = 1 /\ a)
    BY <1>3, Zenon DEF GapOk
  <2>1. i < j /\ IsPacket(v[i]) /\ IsPacket(v[j])
    BY DEF Follows
  <2>2. f[i] \in DOMAIN w /\ f[j] \in DOMAIN w /\ v[i] = w[f[i]] /\ v[j] = w[f[j]]
    BY <1>6, <2>1
  <2>3. f[i] < f[j] /\ f[i] = i /\ i \in Nat /\ j \in Nat
    BY <1>7, <2>1
  <2>4. ASSUME NEW k \in (f[i] + 1) .. (f[j] - 1) PROVE ~IsPacket(w[k])
    <3>1. f[j] <= j /\ f[j] <= m + 2 /\ f[j] \in Int
      BY <1>1, <1>5
    <3>2. k \in (i + 1) .. (j - 1) /\ k \in 1 .. m + 1 /\ k # 1
      BY <1>1, <2>3, <3>1
    <3>3. ~IsPacket(v[k])
      BY <3>2 DEF Follows
    <3>4. v[k] = w[k]
      <4>1. k \in 2 .. m + 1 /\ k \in 2 .. m + 2 /\ k - 1 \in 1 .. m
        BY <1>1, <3>2
      <4> QED
        BY <1>1, <1>2, <1>3, <4>1
    <3> QED
      BY <3>3, <3>4
  <2>5. Follows(w, f[i], f[j])
    BY <2>1, <2>2, <2>3, <2>4 DEF Follows
  <2>6. Excused(c, w[f[i]], w[f[j]]) \/ (f[i] = 1 /\ a)
    BY <1>4, <2>2, <2>5, Zenon DEF GapOk
  <2> QED
    BY <2>2, <2>3, <2>6
<1>10. Linked(c, v, a)
  BY <1>8, <1>9 DEF Linked
<1> QED
  BY <1>10 DEF v, e

(* A broken link cuts the way short and loses the cursor.                  *)
LEMMA LinkedCut ==
  ASSUME NEW c, NEW S, NEW x \in S, NEW d \in Seq(S), NEW y \in S, NEW z \in S, NEW a,
         Linked(c, Way(x, d, y), a), ~IsPacket(z), NEW n \in 0 .. Len(d)
  PROVE  Linked(c, Way(x, SubSeq(d, 1, n), z), a)
<1> DEFINE e == SubSeq(d, 1, n)
           w == Way(x, d, y)
           v == Way(x, e, z)
           m == Len(d)
<1>1. e \in Seq(S) /\ Len(e) = n /\ m \in Nat /\ n \in Nat /\ n <= m
      /\ \A k \in 1 .. n : e[k] = d[k]
  BY PrefixParts
<1>2. /\ DOMAIN w = 1 .. m + 2 /\ w[1] = x /\ w[m + 2] = y
      /\ \A i \in 2 .. m + 1 : w[i] = d[i - 1]
  BY <1>1, WayParts
<1>3. /\ DOMAIN v = 1 .. n + 2 /\ v[1] = x /\ v[n + 2] = z
      /\ \A i \in 2 .. n + 1 : v[i] = e[i - 1]
  <2> HIDE DEF e, v, m
  <2>1. /\ DOMAIN Way(x, e, z) = 1 .. Len(e) + 2
        /\ Way(x, e, z)[1] = x /\ Way(x, e, z)[Len(e) + 2] = z
        /\ \A i \in 2 .. Len(e) + 1 : Way(x, e, z)[i] = e[i - 1]
    <3>1. e \in Seq(S)
      BY <1>1
    <3> QED
      BY <3>1, WayParts
  <2> QED
    BY <1>1, <2>1 DEF v
<1>4. OrderOk(w) /\ GapOk(c, w, a)
  BY DEF Linked
<1> HIDE DEF e, w, v, m
<1>5. ASSUME NEW i \in 1 .. n + 1 PROVE i \in DOMAIN w /\ v[i] = w[i]
  <2>1. CASE i = 1
    BY <1>1, <1>2, <1>3, <2>1
  <2>2. CASE i \in 2 .. n + 1
    <3>1. i - 1 \in 1 .. n /\ i \in 2 .. m + 1 /\ i \in 1 .. m + 2
      BY <1>1, <2>2
    <3> QED
      BY <1>1, <1>2, <1>3, <2>2, <3>1
  <2> QED
    BY <1>1, <2>1, <2>2
<1>6. ASSUME NEW j \in 1 .. n + 2, IsPacket(v[j]) PROVE j \in 1 .. n + 1
  BY <1>1, <1>3, <1>6
<1>7. OrderOk(v)
  <2> SUFFICES ASSUME NEW i \in 1 .. n + 2, NEW j \in 1 .. n + 2, i < j,
                      IsPacket(v[i]), IsPacket(v[j])
               PROVE  Earlier(v[i], v[j])
    BY <1>3 DEF OrderOk
  <2>1. i \in DOMAIN w /\ j \in DOMAIN w /\ v[i] = w[i] /\ v[j] = w[j]
    BY <1>5, <1>6
  <2> QED
    BY <1>4, <2>1 DEF OrderOk
<1>8. GapOk(c, v, a)
  <2> SUFFICES ASSUME NEW i \in 1 .. n + 2, NEW j \in 1 .. n + 2, Follows(v, i, j)
               PROVE  Excused(c, v[i], v[j]) \/ (i = 1 /\ a)
    BY <1>3, Zenon DEF GapOk
  <2>1. i < j /\ IsPacket(v[i]) /\ IsPacket(v[j])
    BY DEF Follows
  <2>2. /\ i \in DOMAIN w /\ j \in DOMAIN w /\ v[i] = w[i] /\ v[j] = w[j]
        /\ i \in 1 .. n + 1 /\ j \in 1 .. n + 1
    BY <1>5, <1>6, <2>1
  <2>3. ASSUME NEW k \in (i + 1) .. (j - 1) PROVE ~IsPacket(w[k])
    <3>1. k \in 1 .. n + 1
      BY <1>1, <2>2
    <3>2. ~IsPacket(v[k])
      BY DEF Follows
    <3> QED
      BY <1>5, <3>1, <3>2
  <2>4. Follows(w, i, j)
    BY <2>1, <2>2, <2>3 DEF Follows
  <2> QED
    BY <1>4, <2>2, <2>4, Zenon DEF GapOk
<1>9. Linked(c, v, a)
  BY <1>7, <1>8 DEF Linked
<1> QED
  BY <1>9 DEF v, e

(* b holds, in order, the wanted packets of epoch e from one number up to  *)
(* another.                                                                *)
Delivers(c, b, e, from, to) ==
  /\ \A j \in DOMAIN b : IsPacket(b[j]) /\ b[j].epoch = e /\ b[j].num \in from .. (to - 1)
  /\ \A i, j \in DOMAIN b : i < j => b[i].num < b[j].num
  /\ \A n \in from .. (to - 1) :
       Wanted(c, RecordAt(e, n)) => \E j \in DOMAIN b : b[j].num = n

(* The pump moves the cursor from y to z and puts b on the way; z.jumped   *)
(* without packets is a reader that was overtaken.                         *)
LEMMA LinkedBatch ==
  ASSUME NEW c, NEW S, NEW x \in S, NEW d \in Seq(S), NEW y \in S, NEW a,
         NEW b \in Seq(S), NEW z \in S,
         \A p \in S : IsPacket(p) => p.num \in Nat /\ p.epoch \in Nat,
         Linked(c, Way(x, d, y), a), IsPacket(y), IsPacket(z), z.epoch = y.epoch,
         y.num <= z.num,
         (Len(b) = 0 /\ z.jumped) \/ Delivers(c, b, y.epoch, y.num, z.num),
         y.jumped => IF Len(b) = 0 THEN z.jumped ELSE b[1].jumped
  PROVE  Linked(c, Way(x, d \o b, z), a)
<1> DEFINE e == d \o b
           w == Way(x, d, y)
           v == Way(x, e, z)
           m == Len(d)
           k == Len(b)
           new == [t \in 1 .. k + 1 |-> IF t <= k THEN b[t] ELSE z]
<1>1. /\ e \in Seq(S) /\ Len(e) = m + k /\ m \in Nat /\ k \in Nat
      /\ \A i \in 1 .. m : e[i] = d[i]
      /\ \A t \in 1 .. k : e[m + t] = b[t]
  BY ConcatParts
<1>2. /\ DOMAIN w = 1 .. m + 2 /\ w[1] = x /\ w[m + 2] = y
      /\ \A i \in 2 .. m + 1 : w[i] = d[i - 1]
  BY <1>1, WayParts
<1>3. /\ DOMAIN v = 1 .. m + k + 2 /\ v[1] = x /\ v[m + k + 2] = z
      /\ \A i \in 2 .. m + k + 1 : v[i] = e[i - 1]
  <2> HIDE DEF e, v, m, k
  <2>1. /\ DOMAIN Way(x, e, z) = 1 .. Len(e) + 2
        /\ Way(x, e, z)[1] = x /\ Way(x, e, z)[Len(e) + 2] = z
        /\ \A i \in 2 .. Len(e) + 1 : Way(x, e, z)[i] = e[i - 1]
    <3>1. e \in Seq(S)
      BY <1>1
    <3> QED
      BY <3>1, WayParts
  <2> QED
    BY <1>1, <2>1 DEF v
<1>4. OrderOk(w) /\ GapOk(c, w, a)
  BY DEF Linked
<1>5. \A t \in 1 .. k + 1 : new[t] = IF t <= k THEN b[t] ELSE z
  OBVIOUS
<1>6. DOMAIN b = 1 .. k /\ \A t \in 1 .. k : b[t] \in S
  BY <1>1
<1>7. y.num \in Nat /\ z.num \in Nat
  OBVIOUS
<1> HIDE DEF e, w, v, m, k, new
<1>8. ASSUME NEW i \in 1 .. m + 1 PROVE i \in DOMAIN w /\ v[i] = w[i]
  <2>1. CASE i = 1
    BY <1>1, <1>2, <1>3, <2>1
  <2>2. CASE i \in 2 .. m + 1
    <3>1. i - 1 \in 1 .. m /\ i \in 1 .. m + 2 /\ i \in 2 .. m + k + 1
      BY <1>1, <2>2
    <3> QED
      BY <1>1, <1>2, <1>3, <2>2, <3>1
  <2> QED
    BY <1>1, <2>1, <2>2
<1>9. ASSUME NEW t \in 1 .. k + 1 PROVE v[m + 1 + t] = new[t]
  <2>1. CASE t = k + 1
    BY <1>1, <1>3, <1>5, <2>1
  <2>2. CASE t \in 1 .. k
    <3>1. m + 1 + t \in 2 .. m + k + 1 /\ (m + 1 + t) - 1 = m + t
      BY <1>1, <2>2
    <3>2. v[m + 1 + t] = e[m + t]
      BY <1>3, <3>1
    <3> QED
      BY <1>1, <1>5, <2>2, <3>2
  <2> QED
    BY <1>1, <2>1, <2>2
<1>10. ASSUME NEW t \in 1 .. k + 1
       PROVE  IsPacket(new[t]) /\ new[t].epoch = y.epoch /\ new[t].num \in Nat
              /\ y.num <= new[t].num
  <2>1. CASE t = k + 1
    BY <1>1, <1>5, <1>7, <2>1
  <2>2. CASE t \in 1 .. k
    <3>1. Delivers(c, b, y.epoch, y.num, z.num)
      BY <1>1, <2>2 DEF k
    <3>2. IsPacket(b[t]) /\ b[t].epoch = y.epoch /\ b[t].num \in y.num .. (z.num - 1)
      BY <1>6, <2>2, <3>1 DEF Delivers
    <3>3. new[t] = b[t]
      BY <1>1, <1>5, <2>2
    <3> QED
      BY <1>7, <3>2, <3>3
  <2> QED
    BY <1>1, <2>1, <2>2
<1>11. ASSUME NEW t \in 1 .. k + 1, NEW u \in 1 .. k + 1, t < u
       PROVE  new[t].num < new[u].num
  <2>1. t \in 1 .. k /\ new[t] = b[t]
    BY <1>1, <1>5, <1>11
  <2>2. Delivers(c, b, y.epoch, y.num, z.num)
    BY <1>1, <2>1 DEF k
  <2>3. b[t].num \in y.num .. (z.num - 1)
    BY <1>6, <2>1, <2>2 DEF Delivers
  <2>4. CASE u = k + 1
    <3>1. new[u] = z
      BY <1>1, <1>5, <2>4
    <3> QED
      BY <1>7, <2>1, <2>3, <3>1
  <2>5. CASE u \in 1 .. k
    <3>1. new[u] = b[u]
      <4>1. u <= k
        BY <1>1, <2>5
      <4> QED
        BY <1>5, <4>1
    <3> QED
      BY <1>6, <1>11, <2>1, <2>2, <2>5, <3>1 DEF Delivers
  <2> QED
    BY <1>1, <2>4, <2>5
<1>12. ASSUME ~(k = 0 /\ z.jumped),
              NEW n \in y.num .. (z.num - 1), Wanted(c, RecordAt(y.epoch, n))
       PROVE  \E t \in 1 .. k : new[t].num = n
  <2>1. Delivers(c, b, y.epoch, y.num, z.num)
    BY <1>12 DEF k
  <2>2. PICK t \in 1 .. k : b[t].num = n
    BY <1>6, <1>12, <2>1 DEF Delivers
  <2>3. new[t] = b[t]
    BY <1>1, <1>5
  <2> QED
    BY <2>2, <2>3
<1>13. y.jumped => new[1].jumped
  BY <1>1, <1>5 DEF k
<1>14. ASSUME NEW i \in 1 .. m + k + 2
       PROVE  i \in 1 .. m + 1 \/ \E t \in 1 .. k + 1 : i = m + 1 + t
  <2>1. CASE i > m + 1
    <3>1. i - (m + 1) \in 1 .. k + 1 /\ i = m + 1 + (i - (m + 1))
      BY <1>1, <2>1
    <3> QED
      BY <3>1
  <2> QED
    BY <1>1, <2>1
<1>15. ASSUME NEW i \in 1 .. m + 1, IsPacket(w[i])
       PROVE  Earlier(w[i], y) /\ w[i].num \in Nat /\ w[i].epoch \in Nat /\ y.epoch \in Nat
  <2>1. i \in DOMAIN w /\ m + 2 \in DOMAIN w /\ i < m + 2
    BY <1>1, <1>2
  <2>2. Earlier(w[i], y)
    BY <1>2, <1>4, <1>15, <2>1 DEF OrderOk
  <2>3. w[i] \in S
    <3>1. CASE i = 1
      BY <1>2, <3>1
    <3>2. CASE i \in 2 .. m + 1
      <4>1. i - 1 \in 1 .. Len(d)
        BY <1>1, <3>2 DEF m
      <4> QED
        BY <1>2, <3>2, <4>1
    <3> QED
      BY <1>1, <3>1, <3>2
  <2> QED
    BY <1>15, <2>2, <2>3
<1>16. ASSUME NEW u \in 1 .. k PROVE Missing(c, new[u], new[u + 1]) = {}
  <2>0. u \in 1 .. k + 1 /\ u + 1 \in 1 .. k + 1 /\ k + 1 \in 1 .. k + 1 /\ k # 0
    BY <1>1
  <2>1. new[u].num \in Nat /\ new[u + 1].num \in Nat /\ new[u].epoch = y.epoch
        /\ y.num <= new[u].num
    BY <1>10, <2>0
  <2>2. new[u + 1].num <= z.num
    <3>1. new[k + 1] = z /\ (u + 1 = k + 1 \/ u + 1 < k + 1)
      BY <1>1, <1>5, <2>0
    <3> QED
      BY <1>7, <1>11, <2>0, <2>1, <3>1, SMTT(30)
  <2>3. ASSUME NEW n \in (new[u].num + 1) .. (new[u + 1].num - 1),
               Wanted(c, RecordAt(y.epoch, n))
        PROVE  FALSE
    <3>1. n \in y.num .. (z.num - 1)
      BY <1>7, <2>1, <2>2, SMTT(30)
    <3>2. PICK t \in 1 .. k : new[t].num = n
      BY <1>12, <2>0, <2>3, <3>1
    <3>3. t \in 1 .. k + 1 /\ (t < u \/ t = u \/ t = u + 1 \/ u + 1 < t)
      BY <1>1
    <3>4. new[t].num > new[u].num /\ new[t].num < new[u + 1].num
      BY <2>1, <3>2
    <3>5. t < u => new[t].num < new[u].num
      BY <1>11, <2>0, <3>3
    <3>6. u + 1 < t => new[u + 1].num < new[t].num
      BY <1>11, <2>0, <3>3
    <3> QED
      BY <2>1, <3>3, <3>4, <3>5, <3>6, <3>2
  <2> QED
    BY <2>1, <2>3 DEF Missing
<1>17. OrderOk(v)
  <2> SUFFICES ASSUME NEW i \in 1 .. m + k + 2, NEW j \in 1 .. m + k + 2, i < j,
                      IsPacket(v[i]), IsPacket(v[j])
               PROVE  Earlier(v[i], v[j])
    BY <1>3 DEF OrderOk
  <2>1. CASE j \in 1 .. m + 1
    <3>1. i \in 1 .. m + 1
      BY <1>1, <2>1
    <3>2. i \in DOMAIN w /\ j \in DOMAIN w /\ v[i] = w[i] /\ v[j] = w[j]
      BY <1>8, <2>1, <3>1
    <3> QED
      BY <1>4, <3>2 DEF OrderOk
  <2>2. ASSUME NEW u \in 1 .. k + 1, j = m + 1 + u PROVE Earlier(v[i], v[j])
    <3>0. v[j] = new[u]
      BY <1>9, <2>2
    <3>1. CASE i \in 1 .. m + 1
      <4>1. v[i] = w[i] /\ IsPacket(w[i])
        BY <1>8, <3>1
      <4>2. Earlier(w[i], y) /\ w[i].num \in Nat /\ w[i].epoch \in Nat /\ y.epoch \in Nat
        BY <1>15, <3>1, <4>1
      <4> QED
        BY <1>7, <1>10, <3>0, <4>1, <4>2 DEF Earlier
    <3>2. ASSUME NEW t \in 1 .. k + 1, i = m + 1 + t PROVE Earlier(v[i], v[j])
      <4>1. t < u /\ v[i] = new[t]
        BY <1>1, <1>9, <2>2, <3>2
      <4> QED
        BY <1>10, <1>11, <3>0, <4>1 DEF Earlier
    <3> QED
      BY <1>14, <3>1, <3>2
  <2> QED
    BY <1>14, <2>1, <2>2
<1>18. GapOk(c, v, a)
  <2> SUFFICES ASSUME NEW i \in 1 .. m + k + 2, NEW j \in 1 .. m + k + 2, Follows(v, i, j)
               PROVE  Excused(c, v[i], v[j]) \/ (i = 1 /\ a)
    BY <1>3, Zenon DEF GapOk
  <2>0. i < j /\ IsPacket(v[i]) /\ IsPacket(v[j])
        /\ \A h \in (i + 1) .. (j - 1) : ~IsPacket(v[h])
    BY DEF Follows
  <2>1. CASE j \in 1 .. m + 1
    <3>1. i \in 1 .. m + 1
      BY <1>1, <2>0, <2>1
    <3>2. i \in DOMAIN w /\ j \in DOMAIN w /\ v[i] = w[i] /\ v[j] = w[j]
      BY <1>8, <2>1, <3>1
    <3>3. \A h \in (i + 1) .. (j - 1) : v[h] = w[h]
      <4> SUFFICES ASSUME NEW h \in (i + 1) .. (j - 1) PROVE v[h] = w[h]
        OBVIOUS
      <4>1. h \in 1 .. m + 1
        BY <1>1, <2>1, <3>1
      <4> QED
        BY <1>8, <4>1
    <3>4. Follows(w, i, j)
      BY <2>0, <3>2, <3>3 DEF Follows
    <3> QED
      BY <1>4, <3>2, <3>4, Zenon DEF GapOk
  <2>2. CASE j = m + 2
    <3>1. i \in 1 .. m + 1 /\ v[i] = w[i] /\ i \in DOMAIN w /\ m + 2 \in DOMAIN w
      BY <1>1, <1>2, <1>8, <2>0, <2>2
    <3>2. v[j] = new[1] /\ 1 \in 1 .. k + 1
      <4>1. 1 \in 1 .. k + 1 /\ m + 1 + 1 = m + 2
        BY <1>1
      <4> QED
        BY <1>9, <2>2, <4>1
    <3>3. Follows(w, i, m + 2)
      <4>1. ASSUME NEW h \in (i + 1) .. ((m + 2) - 1) PROVE ~IsPacket(w[h])
        <5>1. h \in 1 .. m + 1 /\ h \in (i + 1) .. (j - 1)
          BY <1>1, <2>2, <3>1
        <5>2. v[h] = w[h]
          BY <1>8, <5>1
        <5> QED
          BY <2>0, <5>1, <5>2
      <4> QED
        BY <1>2, <2>0, <2>2, <3>1, <4>1 DEF Follows
    <3>4. Excused(c, w[i], w[m + 2]) \/ (i = 1 /\ a)
      BY <1>4, <3>1, <3>3, Zenon DEF GapOk
    <3>5. ASSUME Missing(c, w[i], y) = {}, ~new[1].jumped PROVE Missing(c, w[i], new[1]) = {}
      <4>1. w[i].num \in Nat /\ new[1].num \in Nat /\ new[1].epoch = y.epoch
            /\ y.num <= new[1].num
        BY <1>10, <1>15, <2>0, <3>1, <3>2
      <4>2. ASSUME NEW n \in (w[i].num + 1) .. (new[1].num - 1), w[i].epoch = new[1].epoch,
                   Wanted(c, RecordAt(w[i].epoch, n))
            PROVE  FALSE
        <5>1. CASE n < y.num
          <6>1. n \in (w[i].num + 1) .. (y.num - 1) /\ w[i].epoch = y.epoch
            BY <1>7, <4>1, <4>2, <5>1
          <6>2. n \in Missing(c, w[i], y)
            BY <4>2, <6>1 DEF Missing
          <6> QED
            BY <3>5, <6>2
        <5>2. CASE n >= y.num
          <6>1. k + 1 \in 1 .. k + 1 /\ new[k + 1] = z
            BY <1>1, <1>5, SMTT(30)
          <6>2. new[1].num <= z.num
            BY <1>1, <1>10, <1>11, <3>2, <6>1, SMTT(30)
          <6>3. n \in y.num .. (z.num - 1) /\ Wanted(c, RecordAt(y.epoch, n))
            BY <1>7, <4>1, <4>2, <5>2, <6>2
          <6>4. ~(k = 0 /\ z.jumped)
            BY <1>5, <3>2, <3>5
          <6>5. PICK t \in 1 .. k : new[t].num = n
            BY <1>12, <6>3, <6>4
          <6>6. t \in 1 .. k + 1 /\ (t = 1 \/ 1 < t)
            BY <1>1
          <6> QED
            BY <1>11, <3>2, <4>1, <4>2, <6>5, <6>6
        <5> QED
          BY <1>7, <4>1, <5>1, <5>2
      <4> QED
        BY <4>2 DEF Missing
    <3> QED
      BY <1>2, <1>13, <3>1, <3>2, <3>4, <3>5 DEF Excused
  <2>3. ASSUME NEW u \in 2 .. k + 1, j = m + 1 + u PROVE Excused(c, v[i], v[j])
    <3>1. u \in 1 .. k + 1 /\ u - 1 \in 1 .. k + 1 /\ v[j] = new[u]
      BY <1>1, <1>9, <2>3
    <3>2. v[m + 1 + (u - 1)] = new[u - 1] /\ m + 1 + (u - 1) = j - 1
      BY <1>1, <1>9, <2>3, <3>1
    <3>3. i = j - 1
      <4>1. IsPacket(v[j - 1])
        BY <1>10, <3>1, <3>2
      <4>2. i \in Int /\ j \in Int /\ i < j
        BY <2>0
      <4>3. j - 1 \notin (i + 1) .. (j - 1)
        BY <2>0, <4>1
      <4> QED
        BY <4>2, <4>3
    <3>4. Missing(c, new[u - 1], new[u]) = {}
      <4>1. u - 1 \in 1 .. k /\ (u - 1) + 1 = u
        BY <1>1
      <4> QED
        BY <1>16, <4>1
    <3> QED
      BY <3>1, <3>2, <3>3, <3>4 DEF Excused
  <2>4. j \in 1 .. m + 1 \/ j = m + 2 \/ \E u \in 2 .. k + 1 : j = m + 1 + u
    <3>1. ASSUME NEW u \in 1 .. k + 1, j = m + 1 + u
          PROVE  j = m + 2 \/ \E t \in 2 .. k + 1 : j = m + 1 + t
      <4>1. u = 1 \/ u \in 2 .. k + 1
        BY <1>1
      <4> QED
        BY <1>1, <3>1, <4>1
    <3> QED
      BY <1>14, <3>1
  <2> QED
    BY <2>1, <2>2, <2>3, <2>4
<1>19. Linked(c, v, a)
  BY <1>17, <1>18 DEF Linked
<1> QED
  BY <1>19 DEF v, e

-----------------------------------------------------------------------------
(* The subscription: what the greeting of a client makes of its connection.*)

StationNames == UNION {Range(Wants[c].stations) : c \in Client}

Selectors == UNION {Range(Wants[c].selectors) : c \in Client}

Conn == [streaming : BOOLEAN, open : BOOLEAN, cursor : Nat,
         stations : Seq([sta : StationNames, selectors : Seq(Selectors)]),
         uniSelectors : Seq(Selectors), at : Nat, asked : Nat, jumped : BOOLEAN]

Order == [cmd : {"SELECT"}, sel : Selectors] \union [cmd : {"STATION"}, sta : StationNames]

(* A sequence over its own elements is one over any set that has them.     *)
LEMMA SeqOver ==
  ASSUME NEW s, NEW T, NEW S, s \in Seq(T), Range(s) \subseteq S
  PROVE  s \in Seq(S)
<1>1. Len(s) \in Nat /\ s = [i \in 1 .. Len(s) |-> s[i]] /\ DOMAIN s = 1 .. Len(s)
  OBVIOUS
<1>2. \A i \in 1 .. Len(s) : s[i] \in S
  BY <1>1 DEF Range
<1> QED
  BY <1>1, <1>2

(* What client c asks for.                                                 *)
LEMMA WantsType ==
  ASSUME NEW c \in Client
  PROVE  /\ Wants[c].stations \in Seq(StationNames)
         /\ Wants[c].selectors \in Seq(Selectors)
         /\ \A i \in 1 .. Len(Wants[c].selectors) : Wants[c].selectors[i].kind # "reset"
<1> DEFINE w == Wants[c]
<1>1. /\ w.stations \in Seq(Range(w.stations)) /\ w.selectors \in Seq(Range(w.selectors))
      /\ \A i \in DOMAIN w.selectors : w.selectors[i].kind \in {"pos", "neg", "bad"}
  BY LinkAssumption
<1>2. Range(w.stations) \subseteq StationNames /\ Range(w.selectors) \subseteq Selectors
  BY DEF StationNames, Selectors
<1> HIDE DEF w
<1>3. w.stations \in Seq(StationNames) /\ w.selectors \in Seq(Selectors)
  BY <1>1, <1>2, SeqOver
<1>4. \A i \in 1 .. Len(w.selectors) : w.selectors[i].kind # "reset"
  BY <1>1
<1> QED
  BY <1>3, <1>4 DEF w

(* The place of the j-th command about station i.                          *)
Place(c, i, j) == (i - 1) * (Len(Wants[c].selectors) + 1) + j + 1

LEMMA GreetingFacts ==
  ASSUME NEW c \in Client
  PROVE  LET n == Len(Wants[c].stations)
             m == Len(Wants[c].selectors)
             g == Greeting(c)
         IN
         /\ Subscription(c) \in Seq(Order) /\ g = <<Command("HELLO")>> \o Subscription(c)
         /\ n \in Nat /\ m \in Nat /\ Len(g) \in Nat \ {0} /\ g[1] = Command("HELLO")
         /\ Len(g) = (IF n = 0 THEN m ELSE n * (m + 1)) + 1
         /\ n = 0 => \A j \in 1 .. m : g[j + 1] = SelectCommand(Wants[c].selectors[j])
         /\ \A i \in 1 .. n :
              /\ g[Place(c, i, 1)] = StationCommand(Wants[c].stations[i])
              /\ \A j \in 1 .. m : g[Place(c, i, j + 1)] = SelectCommand(Wants[c].selectors[j])
<1> DEFINE st == Wants[c].stations
           sel == Wants[c].selectors
           n == Len(st)
           m == Len(sel)
           u == Subscription(c)
           g == Greeting(c)
<1>1. st \in Seq(StationNames) /\ sel \in Seq(Selectors) /\ n \in Nat /\ m \in Nat
  BY WantsType
<1>2. /\ SendSelectors(c) \in Seq(Order) /\ Len(SendSelectors(c)) = m
      /\ \A j \in 1 .. m : SendSelectors(c)[j] = SelectCommand(sel[j])
  <2>1. DOMAIN sel = 1 .. m
    BY <1>1
  <2>2. \A j \in 1 .. m : SelectCommand(sel[j]) \in Order
    BY <1>1 DEF SelectCommand, Order
  <2>3. SendSelectors(c) = [j \in 1 .. m |-> SelectCommand(sel[j])]
    BY <2>1 DEF SendSelectors
  <2> HIDE DEF m, sel
  <2>4. [j \in 1 .. m |-> SelectCommand(sel[j])] \in Seq(Order)
    BY <1>1, <2>2
  <2> QED
    BY <1>1, <2>2, <2>3, <2>4
<1>3. CASE n = 0
  <2>1. u = SendSelectors(c)
    BY <1>1, <1>3 DEF Subscription
  <2>2. g = <<Command("HELLO")>> \o u
    BY DEF Greeting
  <2> HIDE DEF g, u, m, n, st, sel
  <2>3. Len(g) = m + 1 /\ g[1] = Command("HELLO") /\ \A j \in 1 .. m : g[j + 1] = u[j]
    BY <1>1, <1>2, <2>1, <2>2
  <2>4. u \in Seq(Order) /\ \A j \in 1 .. m : g[j + 1] = SelectCommand(sel[j])
    BY <1>2, <2>1, <2>3
  <2>5. 1 .. n = {} /\ Len(g) = (IF n = 0 THEN m ELSE n * (m + 1)) + 1
        /\ Len(g) \in Nat \ {0}
    BY <1>1, <1>3, <2>3
  <2> QED
    BY <1>1, <2>2, <2>3, <2>4, <2>5 DEF g, u, m, n, st, sel
<1>4. CASE n # 0
  <2> DEFINE piece == [i \in 1 .. n |-> <<StationCommand(st[i])>> \o SendSelectors(c)]
             d == m + 1
  <2>1. u = FlattenSeq(piece)
    <3>1. st # << >> /\ DOMAIN st = 1 .. n
      BY <1>1, <1>4
    <3> QED
      BY <3>1 DEF Subscription
  <2>2. ASSUME NEW i \in 1 .. n
        PROVE  /\ piece[i] \in Seq(Order) /\ Len(piece[i]) = d
               /\ piece[i][1] = StationCommand(st[i])
               /\ \A j \in 1 .. m : piece[i][j + 1] = SelectCommand(sel[j])
    <3>1. StationCommand(st[i]) \in Order
      BY <1>1 DEF StationCommand, Order
    <3> DEFINE t == SendSelectors(c)
               x == StationCommand(st[i])
    <3>2. piece[i] = <<x>> \o t
      OBVIOUS
    <3>3. x \in Order /\ t \in Seq(Order)
      BY <1>2, <3>1
    <3> HIDE DEF piece, t, x
    <3>4. <<x>> \o t \in Seq(Order) /\ Len(<<x>> \o t) = Len(t) + 1 /\ (<<x>> \o t)[1] = x
          /\ \A j \in 1 .. Len(t) : (<<x>> \o t)[j + 1] = t[j]
      BY <3>3
    <3> QED
      BY <1>2, <3>2, <3>4 DEF t, x
  <2>3. piece \in [1 .. n -> Seq(Order)]
    BY <2>2
  <2>4. n \in Nat \ {0} /\ d \in Nat
    BY <1>1, <1>4
  <2> HIDE DEF piece, d, n
  <2>5. /\ FlattenSeq(piece) \in Seq(Order) /\ Len(FlattenSeq(piece)) = n * d
        /\ \A i \in 1 .. n, j \in 1 .. d : FlattenSeq(piece)[(i - 1) * d + j] = piece[i][j]
    BY <2>2, <2>3, <2>4, FlattenEqual, SMTT(30)
  <2>6. u \in Seq(Order) /\ Len(u) = n * d /\ n * d \in Nat \ {0} /\ n * d >= 0
    <3>1. n * d \in Nat \ {0}
      <4>1. d > 0
        BY <1>1 DEF d
      <4> QED
        BY <2>4, <4>1
    <3> QED
      BY <2>1, <2>5, <3>1
  <2>7. g = <<Command("HELLO")>> \o u
    BY DEF Greeting
  <2> HIDE DEF g, u
  <2>8. Len(g) = Len(u) + 1 /\ g[1] = Command("HELLO") /\ \A j \in 1 .. Len(u) : g[j + 1] = u[j]
    BY <2>6, <2>7
  <2>9. ASSUME NEW i \in 1 .. n, NEW j \in 1 .. d PROVE g[Place(c, i, j)] = piece[i][j]
    <3> DEFINE x == (i - 1) * d
    <3>1. x \in Nat /\ x + d <= n * d
      <4>1. i - 1 \in Nat /\ i - 1 < n
        BY <2>4
      <4> QED
        BY <2>4, <4>1, Blocks
    <3>2. Place(c, i, j) = (x + j) + 1
      BY DEF Place, d
    <3>5. u[x + j] = piece[i][j]
      BY <2>1, <2>5
    <3> HIDE DEF x
    <3>3. x + j \in 1 .. Len(u)
      <4> DEFINE z == n * d
      <4>1. z \in Nat /\ x + d <= z /\ Len(u) = z
        BY <2>6, <3>1
      <4> HIDE DEF z
      <4> QED
        BY <2>4, <3>1, <4>1
    <3>4. g[(x + j) + 1] = u[x + j]
      BY <2>8, <3>3
    <3> QED
      BY <3>2, <3>4, <3>5
  <2>10. ASSUME NEW i \in 1 .. n
         PROVE  /\ g[Place(c, i, 1)] = StationCommand(st[i])
                /\ \A j \in 1 .. m : g[Place(c, i, j + 1)] = SelectCommand(sel[j])
    <3>1. 1 \in 1 .. d /\ \A j \in 1 .. m : j + 1 \in 1 .. d
      BY <1>1 DEF d
    <3> QED
      BY <2>2, <2>9, <3>1
  <2>11. n # 0 /\ Len(g) = n * (m + 1) + 1 /\ Len(g) \in Nat \ {0}
    <3>1. Len(g) = n * d + 1
      BY <2>6, <2>8
    <3> DEFINE z == n * d
    <3>2. z \in Nat /\ Len(g) = z + 1
      BY <2>6, <3>1
    <3> HIDE DEF z
    <3>3. Len(g) \in Nat \ {0}
      BY <3>2
    <3> QED
      BY <1>4, <3>1, <3>3 DEF d
  <2> QED
    BY <1>1, <2>6, <2>7, <2>8, <2>10, <2>11 DEF g, u, n
<1> QED
  BY <1>3, <1>4

(* The stations of a connection that has read j commands about station i.  *)
Scoped(c, i, j) ==
  [h \in 1 .. i |->
     [sta |-> Wants[c].stations[h],
      selectors |-> SubSeq(Wants[c].selectors, 1,
                           IF h < i THEN Len(Wants[c].selectors) ELSE j - 1)]]

(* A connection that has read k commands of the greeting.                  *)
Built(c, k, cl) ==
  /\ cl \in Conn /\ cl.open /\ ~cl.streaming
  /\ IF Len(Wants[c].stations) = 0
     THEN /\ cl.stations = << >>
          /\ cl.uniSelectors = SubSeq(Wants[c].selectors, 1, IF k = 0 THEN 0 ELSE k - 1)
     ELSE \/ k <= 1 /\ cl.stations = << >>
          \/ \E i \in 1 .. Len(Wants[c].stations), j \in 1 .. Len(Wants[c].selectors) + 1 :
               k = Place(c, i, j) /\ cl.stations = Scoped(c, i, j)

(* One more selector of the prefix.                                        *)
LEMMA PrefixGrows ==
  ASSUME NEW S, NEW s \in Seq(S), NEW j \in 1 .. Len(s)
  PROVE  /\ Append(SubSeq(s, 1, j - 1), s[j]) = SubSeq(s, 1, j)
         /\ SubSeq(s, 1, Len(s)) = s /\ SubSeq(s, 1, j - 1) \in Seq(S)
OBVIOUS

(* The fields of a station and new selectors for it.                       *)
LEMMA StationFields ==
  ASSUME NEW r, NEW a, NEW b, r = [sta |-> a, selectors |-> b]
  PROVE  r.sta = a /\ r.selectors = b
OBVIOUS

LEMMA Reselected ==
  ASSUME NEW a, NEW b, NEW e
  PROVE  [[sta |-> a, selectors |-> b] EXCEPT !.selectors = e] = [sta |-> a, selectors |-> e]
OBVIOUS

(* The four kinds of line.                                                 *)
LEMMA CommandCases ==
  ASSUME NEW cl, NEW line
  PROVE  /\ line.cmd = "SELECT" /\ cl.stations = << >> =>
              AfterCommand(cl, line) =
                [cl EXCEPT !.uniSelectors = WithSelector(@, line.sel)]
         /\ line.cmd = "SELECT" /\ cl.stations # << >> =>
              AfterCommand(cl, line) =
                [cl EXCEPT !.stations[Len(cl.stations)].selectors = WithSelector(@, line.sel)]
         /\ line.cmd = "STATION" =>
              AfterCommand(cl, line) =
                [cl EXCEPT !.stations = Append(@, [sta |-> line.sta, selectors |-> << >>])]
         /\ line.cmd = "DATA" => AfterCommand(cl, line) = Started(cl, line)
         /\ line.cmd = "HELLO" => AfterCommand(cl, line) = cl
<1>1. ASSUME line.cmd = "SELECT"
      PROVE  AfterCommand(cl, line) =
               IF cl.stations = << >>
               THEN [cl EXCEPT !.uniSelectors = WithSelector(@, line.sel)]
               ELSE [cl EXCEPT !.stations[Len(cl.stations)].selectors
                                                     = WithSelector(@, line.sel)]
  BY <1>1 DEF AfterCommand
<1>2. ASSUME line.cmd = "STATION"
      PROVE  AfterCommand(cl, line) =
               [cl EXCEPT !.stations = Append(@, [sta |-> line.sta, selectors |-> << >>])]
  BY <1>2 DEF AfterCommand
<1>3. ASSUME line.cmd = "DATA" PROVE AfterCommand(cl, line) = Started(cl, line)
  BY <1>3 DEF AfterCommand
<1>4. ASSUME line.cmd = "HELLO" PROVE AfterCommand(cl, line) = cl
  BY <1>4 DEF AfterCommand
<1> QED
  BY <1>1, <1>2, <1>3, <1>4, Zenon

LEMMA BuiltStart ==
  ASSUME NEW c \in Client
  PROVE  Built(c, 0, NewConn)
<1>1. NewConn \in Conn /\ NewConn.open /\ ~NewConn.streaming /\ NewConn.stations = << >>
      /\ NewConn.uniSelectors = << >>
  BY DEF NewConn, Conn
<1>2. SubSeq(Wants[c].selectors, 1, 0) = << >>
  BY WantsType
<1> QED
  BY <1>1, <1>2 DEF Built

(* Each command of the greeting builds the next state: SELECT extends the  *)
(* selectors of the station that was named last.                           *)
LEMMA BuiltStep ==
  ASSUME NEW c \in Client, NEW k \in Nat, NEW cl, Built(c, k, cl), k < Len(Greeting(c))
  PROVE  Built(c, k + 1, AfterCommand(cl, Greeting(c)[k + 1]))
<1> DEFINE st == Wants[c].stations
           sel == Wants[c].selectors
           n == Len(st)
           m == Len(sel)
           g == Greeting(c)
           line == g[k + 1]
           next == AfterCommand(cl, line)
<1>1. /\ n \in Nat /\ m \in Nat /\ Len(g) \in Nat \ {0} /\ g[1] = Command("HELLO")
      /\ Len(g) = (IF n = 0 THEN m ELSE n * (m + 1)) + 1
      /\ n = 0 => \A j \in 1 .. m : g[j + 1] = SelectCommand(sel[j])
      /\ \A i \in 1 .. n :
           /\ g[Place(c, i, 1)] = StationCommand(st[i])
           /\ \A j \in 1 .. m : g[Place(c, i, j + 1)] = SelectCommand(sel[j])
  BY GreetingFacts
<1>2. st \in Seq(StationNames) /\ sel \in Seq(Selectors)
      /\ \A j \in 1 .. m : sel[j].kind # "reset" /\ sel[j] \in Selectors
  BY WantsType
<1>3. cl \in Conn /\ cl.open /\ ~cl.streaming
  BY DEF Built
<1> HIDE DEF st, sel, n, m, g, line, next
<1>4. ASSUME NEW x \in Selectors, x.kind # "reset", NEW s
      PROVE  WithSelector(s, x) = Append(s, x)
  BY <1>4 DEF WithSelector
<1>5. CASE k = 0
  <2>1. line = Command("HELLO")
    BY <1>1, <1>5 DEF line
  <2>2. next = cl
    BY <2>1, CommandCases DEF next, Command
  <2>3. k + 1 = 1 /\ (IF k + 1 = 0 THEN 0 ELSE (k + 1) - 1) = 0 /\ (IF k = 0 THEN 0 ELSE k - 1) = 0
    BY <1>5
  <2>4. n # 0 => cl.stations = << >>
    <3>1. ASSUME NEW i \in 1 .. n, NEW j \in 1 .. m + 1 PROVE Place(c, i, j) # 0
      <4>1. i - 1 \in Nat /\ m + 1 \in Nat /\ j \in Nat
        BY <1>1
      <4>2. (i - 1) * (m + 1) \in Nat
        BY <4>1, Blocks
      <4>3. Place(c, i, j) = (i - 1) * (m + 1) + j + 1
        BY DEF Place, m, sel
      <4> DEFINE x == (i - 1) * (m + 1)
      <4> HIDE DEF x
      <4>4. x + j + 1 # 0
        BY <4>1, <4>2 DEF x
      <4> QED
        BY <4>3, <4>4 DEF x
    <3> QED
      BY <1>5, <3>1 DEF Built, n, m, st, sel
  <2>5. n = 0 => cl.stations = << >> /\ cl.uniSelectors = SubSeq(sel, 1, 0)
    BY <2>3 DEF Built, n, st, sel
  <2>6. Built(c, k + 1, cl)
    BY <1>3, <2>3, <2>4, <2>5 DEF Built, n, st, sel
  <2> QED
    BY <2>2, <2>6 DEF next, line, g
<1>6. CASE k # 0 /\ n = 0
  <2>1. /\ line = SelectCommand(sel[k]) /\ k \in 1 .. m
        /\ cl.stations = << >> /\ cl.uniSelectors = SubSeq(sel, 1, k - 1)
    BY <1>1, <1>6 DEF Built, line, g, sel, n, st
  <2>2. next = [cl EXCEPT !.uniSelectors = WithSelector(@, sel[k])]
    BY <2>1, CommandCases DEF next, SelectCommand
  <2>3. /\ WithSelector(cl.uniSelectors, sel[k]) = SubSeq(sel, 1, k)
        /\ SubSeq(sel, 1, k) \in Seq(Selectors)
    <3>1. /\ Append(SubSeq(sel, 1, k - 1), sel[k]) = SubSeq(sel, 1, k)
          /\ SubSeq(sel, 1, k) \in Seq(Selectors)
      BY <1>2, <2>1, PrefixGrows, PrefixParts DEF m
    <3> QED
      BY <1>2, <1>4, <2>1, <3>1
  <2>4. /\ next \in Conn /\ next.open /\ ~next.streaming /\ next.stations = << >>
        /\ next.uniSelectors = SubSeq(sel, 1, k)
    BY <1>3, <2>1, <2>2, <2>3 DEF Conn
  <2> QED
    BY <1>6, <2>4 DEF Built, next, line, g, n, st, sel
<1>7. CASE k # 0 /\ n # 0
  <2>0. /\ Len(g) = n * (m + 1) + 1 /\ n >= 1
        /\ \/ k <= 1 /\ cl.stations = << >>
           \/ \E i \in 1 .. n, j \in 1 .. m + 1 :
                k = Place(c, i, j) /\ cl.stations = Scoped(c, i, j)
    BY <1>1, <1>7 DEF Built, n, m, st, sel
  <2>1. ASSUME NEW i \in 1 .. n, line = StationCommand(st[i]), k + 1 = Place(c, i, 1),
               i = 1 => cl.stations = << >>,
               i # 1 => cl.stations = Scoped(c, i - 1, m + 1)
        PROVE  Built(c, k + 1, next)
    <3>1. next = [cl EXCEPT !.stations = Append(@, [sta |-> st[i], selectors |-> << >>])]
      BY <2>1, CommandCases DEF next, StationCommand
    <3>2. Append(cl.stations, [sta |-> st[i], selectors |-> << >>]) = Scoped(c, i, 1)
      <4>0. SubSeq(sel, 1, 0) = << >> /\ SubSeq(sel, 1, m) = sel
        BY <1>1, <1>2 DEF m
      <4>1. Len(cl.stations) = i - 1
            /\ \A h \in 1 .. i - 1 : cl.stations[h] = [sta |-> st[h], selectors |-> sel]
        <5>1. CASE i = 1
          BY <2>1, <5>1
        <5>2. CASE i # 1
          <6>1. cl.stations = [h \in 1 .. i - 1 |->
                     [sta |-> st[h], selectors |-> SubSeq(sel, 1, IF h < i - 1 THEN m
                                                                  ELSE (m + 1) - 1)]]
            BY <2>1, <5>2 DEF Scoped, st, sel, m
          <6>2. (m + 1) - 1 = m
            BY <1>1
          <6> QED
            BY <1>1, <4>0, <6>1, <6>2
        <5> QED
          BY <5>1, <5>2
      <4>2. cl.stations \in Seq([sta : StationNames, selectors : Seq(Selectors)])
        BY <1>3 DEF Conn
      <4>3. st[i] \in StationNames
        BY <1>2 DEF n
      <4> DEFINE T == [sta : StationNames, selectors : Seq(Selectors)]
                 x == [sta |-> st[i], selectors |-> << >>]
                 a == Append(cl.stations, x)
      <4>4. x \in T
        BY <4>3
      <4> HIDE DEF T, x
      <4>5. a \in Seq(T) /\ Len(a) = i /\ a[i] = x /\ \A h \in 1 .. i - 1 : a[h] = cl.stations[h]
        <5>1. cl.stations \in Seq(T)
          BY <4>2 DEF T
        <5> QED
          BY <4>1, <4>4, <5>1
      <4> HIDE DEF a
      <4>6. a = [h \in 1 .. i |-> a[h]]
        BY <4>5
      <4>7. \A h \in 1 .. i :
              a[h] = [sta |-> st[h],
                      selectors |-> SubSeq(sel, 1, IF h < i THEN m ELSE 1 - 1)]
        <5> SUFFICES ASSUME NEW h \in 1 .. i
                     PROVE  a[h] = [sta |-> st[h],
                                    selectors |-> SubSeq(sel, 1, IF h < i THEN m ELSE 1 - 1)]
          OBVIOUS
        <5>1. CASE h = i
          <6>1. 1 - 1 = 0 /\ ~(i < i)
            OBVIOUS
          <6> QED
            BY <4>0, <4>5, <5>1, <6>1 DEF x
        <5>2. CASE h # i
          <6>1. h \in 1 .. i - 1 /\ h < i
            BY <5>2
          <6> QED
            BY <4>0, <4>1, <4>5, <6>1
        <5> QED
          BY <5>1, <5>2
      <4>8. a = Scoped(c, i, 1)
        BY <4>6, <4>7 DEF Scoped, st, sel, m
      <4> QED
        BY <4>8 DEF a, x
    <3>3. Scoped(c, i, 1) \in Seq([sta : StationNames, selectors : Seq(Selectors)])
      <4>1. st[i] \in StationNames /\ << >> \in Seq(Selectors)
        BY <1>2 DEF n
      <4> DEFINE x == [sta |-> st[i], selectors |-> << >>]
                 T == [sta : StationNames, selectors : Seq(Selectors)]
      <4>2. x \in T
        BY <4>1
      <4>3. cl.stations \in Seq(T)
        BY <1>3 DEF Conn
      <4>4. Append(cl.stations, x) = Scoped(c, i, 1)
        BY <3>2
      <4> HIDE DEF x, T
      <4>5. Append(cl.stations, x) \in Seq(T)
        BY <4>2, <4>3
      <4> QED
        BY <4>4, <4>5 DEF T
    <3>4. next \in Conn /\ next.open /\ ~next.streaming /\ next.stations = Scoped(c, i, 1)
      BY <1>3, <3>1, <3>2, <3>3 DEF Conn
    <3>5. 1 \in 1 .. m + 1
      BY <1>1
    <3> QED
      BY <1>7, <2>1, <3>4, <3>5 DEF Built, n, m, st, sel
  <2>2. CASE k <= 1 /\ cl.stations = << >>
    <3>1. k = 1 /\ 1 \in 1 .. n /\ Place(c, 1, 1) = k + 1
      BY <1>1, <1>7, <2>0, <2>2 DEF Place
    <3>2. line = StationCommand(st[1])
      BY <1>1, <3>1 DEF line
    <3>3. Built(c, k + 1, next)
      BY <2>1, <2>2, <3>1, <3>2
    <3> QED
      BY <3>3 DEF next, line, g
  <2>3. ASSUME NEW i \in 1 .. n, NEW j \in 1 .. m + 1,
               k = Place(c, i, j), cl.stations = Scoped(c, i, j)
        PROVE  Built(c, k + 1, next)
    <3> DEFINE x == (i - 1) * (m + 1)
    <3>1. x \in Nat /\ Place(c, i, j) = x + j + 1 /\ i * (m + 1) = x + (m + 1)
      <4>1. i - 1 \in Nat /\ (i - 1) + 1 = i /\ m + 1 \in Nat
        BY <1>1
      <4>2. (i - 1) * (m + 1) \in Nat /\ ((i - 1) + 1) * (m + 1) = (i - 1) * (m + 1) + (m + 1)
        BY <4>1, Blocks
      <4> QED
        BY <4>1, <4>2 DEF Place, m, sel
    <3> HIDE DEF x
    <3>2. CASE j = m + 1
      <4>1. i < n
        <5> DEFINE y == n * (m + 1)
        <5>1. y \in Nat /\ k < y + 1
          <6>1. y \in Nat
            BY <1>1
          <6> QED
            BY <2>0, <6>1 DEF g
        <5>2. i = n => y = x + (m + 1)
          BY <3>1
        <5> HIDE DEF y
        <5> QED
          BY <1>1, <2>3, <3>1, <3>2, <5>1, <5>2
      <4>2. i + 1 \in 1 .. n /\ (i + 1) - 1 = i /\ i + 1 # 1
        BY <1>1, <4>1
      <4>3. Place(c, i + 1, 1) = k + 1
        <5>1. Place(c, i + 1, 1) = i * (m + 1) + 1 + 1
          BY <4>2 DEF Place, m, sel
        <5> QED
          BY <1>1, <2>3, <3>1, <3>2, <5>1
      <4>4. line = StationCommand(st[i + 1])
        BY <1>1, <4>2, <4>3 DEF line
      <4> QED
        BY <2>1, <2>3, <3>2, <4>2, <4>3, <4>4
    <3>3. CASE j \in 1 .. m
      <4>1. line = SelectCommand(sel[j])
        <5>1. Place(c, i, j + 1) = k + 1
          <6>1. Place(c, i, j + 1) = x + (j + 1) + 1
            BY <3>1 DEF Place, x, m, sel
          <6> QED
            BY <1>1, <2>3, <3>1, <6>1
        <5> QED
          BY <1>1, <3>3, <5>1 DEF line
      <4>2. DOMAIN cl.stations = 1 .. i /\ Len(cl.stations) = i /\ cl.stations # << >>
            /\ cl.stations = [h \in 1 .. i |->
                 [sta |-> st[h], selectors |-> SubSeq(sel, 1, IF h < i THEN m ELSE j - 1)]]
        <5>1. cl.stations = [h \in 1 .. i |->
                [sta |-> st[h], selectors |-> SubSeq(sel, 1, IF h < i THEN m ELSE j - 1)]]
          BY <2>3 DEF Scoped, st, sel, m
        <5>2. i \in Nat /\ i # 0
          BY <1>1
        <5> HIDE DEF st, sel, m
        <5>3. DOMAIN cl.stations = 1 .. i
          BY <5>1
        <5>4. Len(cl.stations) = i /\ cl.stations # << >>
          BY <5>1, <5>2
        <5> QED
          BY <5>1, <5>3, <5>4
      <4>3. next = [cl EXCEPT !.stations[i].selectors = WithSelector(@, sel[j])]
        <5>1. line.cmd = "SELECT" /\ line.sel = sel[j]
          BY <4>1 DEF SelectCommand
        <5>2. next = [cl EXCEPT !.stations[Len(cl.stations)].selectors
                                                           = WithSelector(@, line.sel)]
          BY <4>2, <5>1, CommandCases, Zenon DEF next
        <5>3. Len(cl.stations) = i
          BY <4>2
        <5> QED
          BY <5>1, <5>2, <5>3, Zenon
      <4>4. cl.stations[i].selectors = SubSeq(sel, 1, j - 1) /\ cl.stations[i].sta = st[i]
        BY <4>2
      <4>5. /\ Append(SubSeq(sel, 1, j - 1), sel[j]) = SubSeq(sel, 1, j)
            /\ SubSeq(sel, 1, j) \in Seq(Selectors)
        BY <1>2, <3>3, PrefixGrows, PrefixParts DEF m
      <4>6. WithSelector(cl.stations[i].selectors, sel[j]) = SubSeq(sel, 1, j)
        BY <1>2, <1>4, <3>3, <4>4, <4>5
      <4>7. (j + 1) - 1 = j /\ j + 1 \in 1 .. m + 1 /\ k + 1 = Place(c, i, j + 1)
        <5>1. Place(c, i, j + 1) = x + (j + 1) + 1
          BY <3>1 DEF Place, x, m, sel
        <5> QED
          BY <1>1, <2>3, <3>1, <3>3, <5>1
      <4> DEFINE T == [sta : StationNames, selectors : Seq(Selectors)]
                 e == [cl.stations[i] EXCEPT !.selectors = SubSeq(sel, 1, j)]
                 s == [cl.stations EXCEPT ![i] = e]
      <4>8. cl.stations \in Seq(T) /\ i \in 1 .. Len(cl.stations) /\ cl.stations[i] \in T
        <5>1. cl.stations \in Seq(T)
          BY <1>3 DEF Conn
        <5>2. i \in 1 .. Len(cl.stations)
          <6>1. i \in Nat /\ Len(cl.stations) = i
            BY <1>1, <4>2
          <6> QED
            BY <6>1
        <5> HIDE DEF T
        <5> QED
          BY <5>1, <5>2
      <4>9. e \in T /\ e = [sta |-> st[i], selectors |-> SubSeq(sel, 1, j)]
        <5>1. cl.stations[i] = [sta |-> st[i], selectors |-> SubSeq(sel, 1, j - 1)]
          BY <4>2
        <5>2. e = [sta |-> st[i], selectors |-> SubSeq(sel, 1, j)]
          <6>1. e = [[sta |-> st[i], selectors |-> SubSeq(sel, 1, j - 1)]
                       EXCEPT !.selectors = SubSeq(sel, 1, j)]
            BY <5>1, Zenon
          <6> QED
            BY <6>1, Reselected, Zenon
        <5>3. st[i] \in StationNames
          BY <1>2 DEF n
        <5> QED
          BY <4>5, <5>2, <5>3
      <4>10. s \in Seq(T)
        <5> HIDE DEF T, e
        <5> QED
          BY <4>8, <4>9
      <4>11. s = [h \in 1 .. i |->
                   [sta |-> st[h],
                    selectors |-> SubSeq(sel, 1, IF h < i THEN m ELSE (j + 1) - 1)]]
        <5>1. s = [h \in 1 .. i |-> IF h = i THEN e ELSE cl.stations[h]]
          BY <4>2
        <5>2. ASSUME NEW h \in 1 .. i
              PROVE  (IF h = i THEN e ELSE cl.stations[h])
                       = [sta |-> st[h],
                          selectors |-> SubSeq(sel, 1, IF h < i THEN m ELSE (j + 1) - 1)]
          <6>1. CASE h = i
            BY <4>7, <4>9, <6>1
          <6>2. CASE h # i
            <7>1. h < i
              BY <6>2
            <7>2. cl.stations[h]
                    = [sta |-> st[h],
                       selectors |-> SubSeq(sel, 1, IF h < i THEN m ELSE j - 1)]
              BY <4>2
            <7> QED
              BY <6>2, <7>1, <7>2
          <6> QED
            BY <6>1, <6>2
        <5> QED
          BY <5>1, <5>2
      <4>12. s = Scoped(c, i, j + 1)
        BY <4>11 DEF Scoped, st, sel, m
      <4>13. next = [cl EXCEPT !.stations = s]
        BY <1>3, <4>3, <4>6
      <4>14. next \in Conn /\ next.open /\ ~next.streaming /\ next.stations = s
        <5> HIDE DEF s
        <5> QED
          BY <1>3, <4>10, <4>13 DEF Conn
      <4> QED
        BY <1>7, <4>7, <4>12, <4>14 DEF Built, n, m, st, sel
    <3> QED
      BY <1>1, <3>2, <3>3
  <2> QED
    BY <2>0, <2>2, <2>3 DEF next, line, g
<1> QED
  BY <1>5, <1>6, <1>7

(* After the whole greeting the server sends what the client wants.        *)
LEMMA BuiltAll ==
  ASSUME NEW c \in Client, NEW cl, Built(c, Len(Greeting(c)), cl)
  PROVE  \A rec \in Record : Accepts(cl, rec) <=> Wanted(c, rec)
<1> DEFINE st == Wants[c].stations
           sel == Wants[c].selectors
           n == Len(st)
           m == Len(sel)
           L == Len(Greeting(c))
<1>1. /\ n \in Nat /\ m \in Nat /\ L \in Nat \ {0}
      /\ L = (IF n = 0 THEN m ELSE n * (m + 1)) + 1
  BY GreetingFacts
<1>2. st \in Seq(StationNames) /\ sel \in Seq(Selectors) /\ SubSeq(sel, 1, m) = sel
      /\ DOMAIN st = 1 .. n
  BY WantsType
<1> HIDE DEF st, sel, n, m, L
<1>3. CASE n = 0
  <2>1. cl.stations = << >> /\ cl.uniSelectors = sel
    <3>1. L = m + 1 /\ L # 0 /\ L - 1 = m
      BY <1>1, <1>3
    <3>2. cl.stations = << >> /\ cl.uniSelectors = SubSeq(sel, 1, L - 1)
      BY <1>3, <3>1 DEF Built, n, st, sel, L
    <3> QED
      BY <1>2, <3>1, <3>2
  <2>2. st = << >>
    BY <1>2, <1>3 DEF n
  <2> QED
    BY <2>1, <2>2 DEF Accepts, Wanted, st, sel
<1>4. CASE n # 0
  <2>1. \/ L <= 1 /\ cl.stations = << >>
        \/ \E i \in 1 .. n, j \in 1 .. m + 1 : L = Place(c, i, j) /\ cl.stations = Scoped(c, i, j)
    BY <1>4 DEF Built, n, st, m, sel, L
  <2>2. n * (m + 1) \in Nat \ {0}
    BY <1>1, <1>4
  <2>3. PICK i \in 1 .. n, j \in 1 .. m + 1 : L = Place(c, i, j) /\ cl.stations = Scoped(c, i, j)
    BY <1>1, <1>4, <2>1, <2>2
  <2>4. i = n /\ j = m + 1
    <3> DEFINE x == (i - 1) * (m + 1)
               z == (n - 1) * (m + 1)
               y == n * (m + 1)
    <3>1. i - 1 \in Nat /\ n - 1 \in Nat /\ (n - 1) + 1 = n /\ m + 1 \in Nat
      BY <1>1, <1>4
    <3>2. x \in Nat /\ z \in Nat /\ y = z + (m + 1) /\ (i - 1 < n - 1 => x + (m + 1) <= z)
      BY <3>1, Blocks, SMTT(30)
    <3>3. L = y + 1 /\ L = x + j + 1
      BY <1>1, <1>4, <2>3 DEF Place, m, sel
    <3>4. i = n => x = z
      OBVIOUS
    <3> HIDE DEF x, y, z
    <3> QED
      BY <1>1, <3>2, <3>3, <3>4
  <2>5. cl.stations = [h \in 1 .. n |-> [sta |-> st[h], selectors |-> sel]]
    <3>1. Scoped(c, i, j) = [h \in 1 .. n |-> [sta |-> st[h],
                                 selectors |-> SubSeq(sel, 1, IF h < n THEN m ELSE j - 1)]]
      BY <2>4 DEF Scoped, st, sel, m
    <3>2. j - 1 = m
      BY <1>1, <2>4
    <3>3. \A h \in 1 .. n : SubSeq(sel, 1, IF h < n THEN m ELSE j - 1) = sel
      BY <1>2, <3>2
    <3> QED
      BY <2>3, <3>1, <3>3
  <2>6. DOMAIN cl.stations = 1 .. n /\ cl.stations # << >> /\ st # << >>
        /\ \A h \in 1 .. n : cl.stations[h].sta = st[h] /\ cl.stations[h].selectors = sel
    <3>1. DOMAIN cl.stations = 1 .. n
      BY <2>5
    <3>2. 1 \in 1 .. n
      BY <1>1, <1>4
    <3>3. \A h \in 1 .. n : cl.stations[h] = [sta |-> st[h], selectors |-> sel]
      BY <2>5
    <3>4. cl.stations # << >> /\ st # << >>
      <4>1. n \in Nat /\ n # 0
        BY <1>1, <1>4
      <4> HIDE DEF st, sel
      <4>2. cl.stations # << >>
        BY <2>5, <4>1
      <4>3. st # << >>
        BY <1>2, <4>1 DEF n
      <4> QED
        BY <4>2, <4>3
    <3>5. ASSUME NEW h \in 1 .. n
          PROVE  cl.stations[h].sta = st[h] /\ cl.stations[h].selectors = sel
      <4>1. cl.stations[h] = [sta |-> st[h], selectors |-> sel]
        BY <3>3
      <4> QED
        BY <4>1, StationFields
    <3> QED
      BY <3>1, <3>4, <3>5
  <2> QED
    BY <1>2, <2>6 DEF Accepts, Wanted, st, sel
<1> QED
  BY <1>3, <1>4

-----------------------------------------------------------------------------
(* What one tick of the pump sends.                                        *)

Packets == [kind : {"pkt"}, epoch : 1 .. MaxEpoch, num : Nat, asked : Nat, wire : Nat,
            rec : Record, jumped : BOOLEAN]

(* The packet of record n.                                                 *)
PacketOf(n) == [kind |-> "pkt", epoch |-> epoch, num |-> n, asked |-> n,
                wire |-> n % SeqSpace, rec |-> RecordAt(epoch, n), jumped |-> FALSE]

LEMMA ModPlus ==
  ASSUME NEW m \in Nat \ {0}, NEW a \in Int, NEW b \in Int
  PROVE  ((a % m) + b) % m = (a + b) % m
<1> DEFINE r == a % m
<1>1. PICK k \in Int : a = m * k + r
  BY DivMod
<1>2. r \in Int
  BY DivMod
<1> HIDE DEF r
<1>3. PICK l \in Int : r + b = m * l + ((r + b) % m)
  <2>1. r + b \in Int
    BY <1>2
  <2> QED
    BY <2>1, DivMod
<1> DEFINE s == (r + b) % m
<1>4. s \in 0 .. (m - 1)
  <2>1. r + b \in Int
    BY <1>2
  <2> QED
    BY <2>1, DivMod
<1>5. a + b = m * (k + l) + s
  <2> DEFINE x == m * k
             y == m * l
  <2>1. m * (k + l) = x + y /\ x \in Int /\ y \in Int
    OBVIOUS
  <2>2. a = x + r /\ r + b = y + s
    BY <1>1, <1>3
  <2> HIDE DEF x, y, s
  <2> QED
    BY <1>2, <1>4, <2>1, <2>2
<1>6. k + l \in Int
  OBVIOUS
<1> HIDE DEF s
<1>7. (m * (k + l) + s) % m = s
  BY <1>4, <1>6, ModOf
<1> QED
  BY <1>5, <1>7 DEF s, r

(* The packets the inner loop of the pump meets, one after the other.      *)
LEMMA PacketsMet ==
  ASSUME RingInv, NEW n \in Nat, InHorizon(n), n <= produced, NEW q, q = n % SeqSpace,
         PacketResult(q) = "Ok"
  PROVE  /\ Oldest <= n /\ n < produced
         /\ count - Forward(q) = produced - n
         /\ \A i \in 1 .. produced - n :
              /\ Packet((q + i - 1) % SeqSpace, n + i - 1) = PacketOf(n + i - 1)
              /\ PacketOf(n + i - 1) \in Packets
<1>1. /\ Oldest \in Nat /\ produced \in Nat /\ count \in Nat /\ Oldest + count = produced
      /\ SeqSpace \in Nat \ {0} /\ Half \in Nat /\ count <= Cap /\ Cap < Half /\ Cap \in Nat
  BY RingFields, RingBounds
<1>2. Oldest <= n /\ n < produced
  <2>1. n >= produced => PacketResult(q) = "Future"
    BY RingAnswers
  <2>2. n < Oldest => PacketResult(q) = "TooOld"
    BY RingAnswers
  <2> QED
    BY <1>1, <2>1, <2>2
<1>3. count - Forward(q) = produced - n
  <2>1. Forward(q) = n - Oldest
    BY <1>2, ForwardOf
  <2> QED
    BY <1>1, <2>1
<1>4. ASSUME NEW i \in 1 .. produced - n
      PROVE  Packet((q + i - 1) % SeqSpace, n + i - 1) = PacketOf(n + i - 1) /\ PacketOf(n + i - 1) \in Packets
  <2> DEFINE k == n + i - 1
  <2>1. k \in Nat /\ Oldest <= k /\ k < produced
    BY <1>1, <1>2
  <2>2. (q + i - 1) % SeqSpace = k % SeqSpace
    <3>1. ((n % SeqSpace) + (i - 1)) % SeqSpace = (n + (i - 1)) % SeqSpace
      <4>1. i - 1 \in Int /\ n \in Int /\ SeqSpace \in Nat \ {0}
        BY <1>1
      <4> QED
        BY <4>1, ModPlus, Zenon
    <3>2. n % SeqSpace \in Int
      BY <1>1, DivMod
    <3>3. (n % SeqSpace) + (i - 1) = q + i - 1 /\ n + (i - 1) = k
      BY <1>1, <3>2
    <3> QED
      BY <3>1, <3>3
  <2>3. InHorizon(k)
    BY <1>1, <2>1, RingBounds DEF InHorizon
  <2> HIDE DEF k
  <2>4. SlotOf(k % SeqSpace)
          = [abs |-> k, wire |-> k % SeqSpace, rec |-> RecordAt(epoch, k)]
    BY <2>1, <2>3, RingAnswers
  <2>5. Packet(k % SeqSpace, k) = PacketOf(k)
    <3>1. /\ SlotOf(k % SeqSpace).abs = k /\ SlotOf(k % SeqSpace).wire = k % SeqSpace
          /\ SlotOf(k % SeqSpace).rec = RecordAt(epoch, k)
      BY <2>4
    <3> QED
      BY <3>1, Zenon DEF Packet, PacketOf
  <2>6. PacketOf(k) \in Packets
    <3>1. epoch \in 1 .. MaxEpoch /\ k \in 0 .. MaxProduced - 1
      BY <2>1, LinkAssumption DEF RingInv
    <3>2. RecordAt(epoch, k) \in Record
      BY <3>1, LinkAssumption
    <3>3. k % SeqSpace \in Nat
      BY <1>1, <2>1, DivMod
    <3> QED
      BY <2>1, <3>1, <3>2, <3>3 DEF PacketOf, Packets
  <2> QED
    BY <2>2, <2>5, <2>6 DEF k
<1> QED
  BY <1>2, <1>3, <1>4

(* The loop of the pump: from one turn to the next, one more packet that   *)
(* the subscription accepts.                                               *)
LEMMA WrittenSteps ==
  ASSUME NEW cl, Fresh(cl) \in Nat,
         \A i \in 1 .. Fresh(cl) : Packet((cl.cursor + i - 1) % SeqSpace, cl.asked + i - 1) \in Packets
  PROVE  /\ Written(cl)[0] = << >>
         /\ \A i \in 0 .. Fresh(cl) : Written(cl)[i] \in Seq(Packets)
         /\ \A i \in 1 .. Fresh(cl) :
              LET p == Packet((cl.cursor + i - 1) % SeqSpace, cl.asked + i - 1) IN
              Written(cl)[i] = IF Accepts(cl, p.rec) THEN Append(Written(cl)[i - 1], p)
                               ELSE Written(cl)[i - 1]
<1> DEFINE n == Fresh(cl)
           T == Seq(Packets)
           p == [i \in 1 .. n |-> Packet((cl.cursor + i - 1) % SeqSpace, cl.asked + i - 1)]
           g == [i \in 1 .. n |-> [t \in T |-> IF Accepts(cl, p[i].rec) THEN Append(t, p[i]) ELSE t]]
           H(h) == h = [i \in 0 .. n |->
                         IF i = 0 THEN << >>
                         ELSE LET q == Packet((cl.cursor + i - 1) % SeqSpace, cl.asked + i - 1)
                              IN  IF Accepts(cl, q.rec) THEN Append(h[i - 1], q) ELSE h[i - 1]]
<1>1. \A i \in 1 .. n : p[i] = Packet((cl.cursor + i - 1) % SeqSpace, cl.asked + i - 1) /\ p[i] \in Packets
  OBVIOUS
<1> HIDE DEF p
<1>2. \A i \in 1 .. n : \A t \in T : Append(t, p[i]) \in T
  BY <1>1
<1>3. g \in [1 .. n -> [T -> T]]
  BY <1>2
<1>4. \A i \in 1 .. n : \A t \in T :
        g[i][t] = IF Accepts(cl, p[i].rec) THEN Append(t, p[i]) ELSE t
  OBVIOUS
<1>5. << >> \in T /\ n \in Nat
  OBVIOUS
<1> HIDE DEF g, T, H, n
<1>6. PICK e \in [0 .. n -> T] : StepsTo(e, n, << >>, g)
  <2>1. CanStepTo(T, n, << >>, g)
    BY <1>3, <1>5, Iteration
  <2> QED
    BY <2>1 DEF CanStepTo
<1>7. ASSUME NEW i \in 1 .. n
      PROVE  /\ e[i] = IF Accepts(cl, p[i].rec) THEN Append(e[i - 1], p[i]) ELSE e[i - 1]
             /\ i - 1 \in 0 .. n /\ e[i - 1] \in T
  <2>1. i - 1 \in 0 .. n
    BY <1>5
  <2>2. e[i - 1] \in T
    BY <2>1
  <2> QED
    BY <1>4, <1>6, <2>1, <2>2 DEF StepsTo
<1>8. H(e)
  <2>1. \A i \in 0 .. n :
          e[i] = IF i = 0 THEN << >>
                 ELSE LET q == Packet((cl.cursor + i - 1) % SeqSpace, cl.asked + i - 1)
                      IN  IF Accepts(cl, q.rec) THEN Append(e[i - 1], q) ELSE e[i - 1]
    <3> SUFFICES ASSUME NEW i \in 0 .. n
                 PROVE  e[i] = IF i = 0 THEN << >>
                         ELSE LET q == Packet((cl.cursor + i - 1) % SeqSpace, cl.asked + i - 1)
                              IN  IF Accepts(cl, q.rec) THEN Append(e[i - 1], q) ELSE e[i - 1]
      OBVIOUS
    <3>1. i = 0 \/ i \in 1 .. n
      BY <1>5
    <3>2. e[0] = << >>
      BY <1>6 DEF StepsTo
    <3>3. i \in 1 .. n => p[i] = Packet((cl.cursor + i - 1) % SeqSpace, cl.asked + i - 1) /\ i # 0
      BY <1>1
    <3> QED
      BY <1>7, <3>1, <3>2, <3>3, Zenon
  <2>2. e = [i \in 0 .. n |-> e[i]]
    BY <1>6
  <2> QED
    BY <2>1, <2>2, Zenon DEF H
<1>9. H(Written(cl))
  <2>1. H(CHOOSE h : H(h))
    BY <1>8, Zenon
  <2>2. Written(cl) = CHOOSE h : H(h)
    BY DEF Written, H, n
  <2> QED
    BY <2>1, <2>2, Zenon
<1> DEFINE w == Written(cl)
<1>10. /\ w[0] = << >>
       /\ \A i \in 1 .. n : w[i] = IF Accepts(cl, p[i].rec) THEN Append(w[i - 1], p[i])
                                   ELSE w[i - 1]
  <2>1. w = [i \in 0 .. n |->
               IF i = 0 THEN << >>
               ELSE LET q == Packet((cl.cursor + i - 1) % SeqSpace, cl.asked + i - 1)
                    IN  IF Accepts(cl, q.rec) THEN Append(w[i - 1], q) ELSE w[i - 1]]
    BY <1>9 DEF H
  <2> HIDE DEF w
  <2>2. \A i \in 0 .. n :
          w[i] = IF i = 0 THEN << >>
                 ELSE LET q == Packet((cl.cursor + i - 1) % SeqSpace, cl.asked + i - 1)
                      IN  IF Accepts(cl, q.rec) THEN Append(w[i - 1], q) ELSE w[i - 1]
    BY <2>1, Zenon
  <2>3. 0 \in 0 .. n /\ \A i \in 1 .. n : i \in 0 .. n /\ i # 0
    BY <1>5
  <2> QED
    BY <1>1, <2>2, <2>3, Zenon
<1> DEFINE P == {i \in 0 .. n : w[i] = e[i]}
<1>11. 0 \in P /\ \A i \in 0 + 1 .. n : i - 1 \in P => i \in P
  <2>1. 0 \in P
    BY <1>5, <1>6, <1>10 DEF StepsTo
  <2>2. ASSUME NEW i \in 1 .. n, i - 1 \in P PROVE w[i] = e[i]
    BY <1>7, <1>10, <2>2
  <2> QED
    BY <2>1, <2>2
<1>12. \A i \in 0 .. n : i \in P
  <2> HIDE DEF P
  <2> QED
    BY <1>5, <1>11, Ascent
<1>13. \A i \in 0 .. n : w[i] \in T
  BY <1>12
<1> QED
  BY <1>1, <1>10, <1>13 DEF n, T

(* Genuine packets of this epoch, as the ring hands them out.              *)
Fits(c, p, from, to) ==
  /\ p.epoch = epoch /\ p.num \in from .. (to - 1)
  /\ p.rec = RecordAt(epoch, p.num) /\ p.wire = p.num % SeqSpace /\ p.asked = p.num
  /\ Wanted(c, p.rec)

(* A streaming connection of client c that is not too far behind.          *)
Ready(c, cl) ==
  /\ cl \in Conn /\ cl.open /\ cl.streaming
  /\ cl.at <= produced /\ InHorizon(cl.at) /\ cl.cursor = cl.at % SeqSpace
  /\ cl.asked = cl.at
  /\ \A rec \in Record : Accepts(cl, rec) <=> Wanted(c, rec)

LEMMA DeliversNothing ==
  ASSUME NEW c, NEW b, NEW e, NEW from, NEW to, DOMAIN b = {}, from .. (to - 1) = {}
  PROVE  Delivers(c, b, e, from, to)
BY DEF Delivers

LEMMA WrittenFacts ==
  ASSUME RingInv, NEW c \in Client, NEW cl, Ready(c, cl), PacketResult(cl.cursor) = "Ok"
  PROVE  LET w == Written(cl)[Fresh(cl)] IN
         /\ w \in Seq(Packets) /\ Delivers(c, w, epoch, cl.at, produced)
         /\ \A j \in 1 .. Len(w) : Fits(c, w[j], cl.at, produced)
<1> DEFINE from == cl.at
           n == Fresh(cl)
           w == Written(cl)
           p == [i \in 1 .. n |-> PacketOf(from + i - 1)]
<1>1. from \in Nat /\ produced \in Nat
  BY RingFields DEF Ready, Conn
<1>2. /\ from < produced /\ n = produced - from /\ n \in Nat
      /\ \A i \in 1 .. n :
           /\ Packet((cl.cursor + i - 1) % SeqSpace, cl.asked + i - 1) = PacketOf(from + i - 1)
           /\ PacketOf(from + i - 1) \in Packets
  <2>1. /\ InHorizon(from) /\ from <= produced /\ cl.cursor = from % SeqSpace
        /\ from \in Nat
    BY <1>1 DEF Ready
  <2> DEFINE q == cl.cursor
  <2>2. q = from % SeqSpace /\ PacketResult(q) = "Ok"
    BY <2>1
  <2> HIDE DEF q, from
  <2>3. /\ from < produced /\ count - Forward(q) = produced - from
        /\ \A i \in 1 .. produced - from :
             /\ Packet((q + i - 1) % SeqSpace, from + i - 1) = PacketOf(from + i - 1)
             /\ PacketOf(from + i - 1) \in Packets
    BY <2>1, <2>2, PacketsMet
  <2>4. n = count - Forward(q)
    BY <2>2 DEF Fresh, q
  <2>5. produced - from \in Nat
    BY <1>1, <2>3
  <2>6. cl.asked = from
    BY DEF Ready, from
  <2> QED
    BY <2>3, <2>4, <2>5, <2>6 DEF q
<1>3. /\ w[0] = << >> /\ \A i \in 0 .. n : w[i] \in Seq(Packets)
      /\ \A i \in 1 .. n :
           w[i] = IF Accepts(cl, p[i].rec) THEN Append(w[i - 1], p[i]) ELSE w[i - 1]
  <2>1. Fresh(cl) \in Nat
        /\ \A i \in 1 .. Fresh(cl) : Packet((cl.cursor + i - 1) % SeqSpace, cl.asked + i - 1) \in Packets
    BY <1>2
  <2>2. /\ Written(cl)[0] = << >>
        /\ \A i \in 0 .. Fresh(cl) : Written(cl)[i] \in Seq(Packets)
        /\ \A i \in 1 .. Fresh(cl) :
              LET q == Packet((cl.cursor + i - 1) % SeqSpace, cl.asked + i - 1) IN
              Written(cl)[i] = IF Accepts(cl, q.rec) THEN Append(Written(cl)[i - 1], q)
                               ELSE Written(cl)[i - 1]
    BY <2>1, WrittenSteps
  <2>3. \A i \in 1 .. n : p[i] = Packet((cl.cursor + i - 1) % SeqSpace, cl.asked + i - 1)
    BY <1>2
  <2> QED
    BY <2>2, <2>3
<1>4. ASSUME NEW i \in 1 .. n
      PROVE  /\ p[i] \in Packets /\ IsPacket(p[i]) /\ p[i].num = from + i - 1
             /\ p[i].epoch = epoch /\ p[i].rec = RecordAt(epoch, from + i - 1)
             /\ (Wanted(c, p[i].rec) => Fits(c, p[i], from, produced))
  <2>1. p[i] = PacketOf(from + i - 1) /\ p[i] \in Packets
    BY <1>2
  <2>2. /\ PacketOf(from + i - 1).kind = "pkt" /\ PacketOf(from + i - 1).num = from + i - 1
        /\ PacketOf(from + i - 1).epoch = epoch
        /\ PacketOf(from + i - 1).rec = RecordAt(epoch, from + i - 1)
        /\ PacketOf(from + i - 1).wire = (from + i - 1) % SeqSpace
        /\ PacketOf(from + i - 1).asked = from + i - 1
    BY DEF PacketOf
  <2>3. from + i - 1 \in from .. (produced - 1)
    BY <1>1, <1>2
  <2> HIDE DEF p
  <2> QED
    BY <2>1, <2>2, <2>3 DEF IsPacket, Fits
<1>5. \A rec \in Record : Accepts(cl, rec) <=> Wanted(c, rec)
  BY DEF Ready
<1> HIDE DEF from, n, w, p
<1> DEFINE Good(i) == /\ Delivers(c, w[i], epoch, from, from + i)
                      /\ \A j \in 1 .. Len(w[i]) : Fits(c, w[i][j], from, produced)
           P == {i \in 0 .. n : Good(i)}
<1>6. 0 \in P
  <2>1. Len(w[0]) = 0 /\ DOMAIN w[0] = {} /\ 0 \in 0 .. n /\ from .. (from + 0 - 1) = {}
    BY <1>1, <1>2, <1>3
  <2>2. Delivers(c, w[0], epoch, from, from + 0)
    <3> DEFINE v == w[0]
               to == from + 0
    <3>0. w[0] = << >>
      BY <1>3
    <3>1. DOMAIN v = {} /\ from .. (to - 1) = {}
      <4>1. DOMAIN v = {}
        BY <3>0
      <4>2. from .. (to - 1) = {}
        BY <1>1
      <4> QED
        BY <4>1, <4>2
    <3> HIDE DEF v, to
    <3>2. Delivers(c, v, epoch, from, to)
      BY <3>1, DeliversNothing
    <3> QED
      BY <3>2 DEF v, to
  <2>3. \A j \in 1 .. Len(w[0]) : Fits(c, w[0][j], from, produced)
    BY <2>1
  <2> QED
    BY <2>1, <2>2, <2>3
<1>7. ASSUME NEW i \in 1 .. n, i - 1 \in 0 .. n, Good(i - 1) PROVE Good(i)
  <2> DEFINE v == w[i - 1]
             x == p[i]
             to == from + (i - 1)
  <2>0. /\ v \in Seq(Packets) /\ Len(v) \in Nat /\ DOMAIN v = 1 .. Len(v) /\ to \in Nat
        /\ from + i = to + 1 /\ Delivers(c, v, epoch, from, to)
        /\ \A j \in 1 .. Len(v) : Fits(c, v[j], from, produced)
    BY <1>1, <1>2, <1>3, <1>7
  <2>1. /\ x \in Packets /\ IsPacket(x) /\ x.num = to /\ x.epoch = epoch
        /\ x.rec = RecordAt(epoch, to)
        /\ (Wanted(c, x.rec) => Fits(c, x, from, produced))
    <3>1. from + i - 1 = to
      BY <1>1
    <3> QED
      BY <1>4, <3>1
  <2>4. /\ w[i] = IF Wanted(c, x.rec) THEN Append(v, x) ELSE v
    <3>1. x.rec \in Record
      BY <2>1 DEF Packets
    <3> HIDE DEF x, v
    <3>2. w[i] = IF Accepts(cl, x.rec) THEN Append(v, x) ELSE v
      BY <1>3 DEF x, v
    <3> QED
      BY <1>5, <3>1, <3>2
  <2>5. \A j \in 1 .. Len(v) : IsPacket(v[j]) /\ v[j].epoch = epoch /\ v[j].num \in from .. (to - 1)
    BY <2>0 DEF Delivers
  <2>6. from .. ((to + 1) - 1) = (from .. (to - 1)) \union {to} /\ to \in from .. ((to + 1) - 1)
    BY <1>1
  <2> HIDE DEF v, x, to
  <2>2. CASE ~Wanted(c, x.rec)
    <3>1. w[i] = v
      BY <2>2, <2>4
    <3>2. Delivers(c, v, epoch, from, to + 1)
      <4>1. \A j \in DOMAIN v : v[j].num \in from .. ((to + 1) - 1)
        BY <2>0, <2>5, <2>6
      <4>2. \A k \in from .. ((to + 1) - 1) :
              Wanted(c, RecordAt(epoch, k)) => \E j \in DOMAIN v : v[j].num = k
        BY <2>0, <2>1, <2>2, <2>6 DEF Delivers
      <4> QED
        BY <2>0, <2>5, <4>1, <4>2 DEF Delivers
    <3> QED
      BY <2>0, <3>1, <3>2
  <2>3. CASE Wanted(c, x.rec)
    <3> DEFINE u == Append(v, x)
               m == Len(v)
    <3>1. w[i] = u /\ Len(u) = m + 1 /\ DOMAIN u = 1 .. m + 1 /\ u[m + 1] = x
          /\ \A j \in 1 .. m : u[j] = v[j]
      BY <2>0, <2>1, <2>3, <2>4, AppendParts
    <3>2. m \in Nat
      BY <2>0
    <3> HIDE DEF u, m
    <3>3. \A j \in 1 .. m + 1 : j \in 1 .. m \/ j = m + 1
      BY <3>2
    <3>4. Delivers(c, u, epoch, from, to + 1)
      <4>1. ASSUME NEW j \in 1 .. m + 1
            PROVE  IsPacket(u[j]) /\ u[j].epoch = epoch /\ u[j].num \in from .. ((to + 1) - 1)
        BY <2>1, <2>5, <2>6, <3>1, <3>3 DEF m
      <4>2. ASSUME NEW h \in 1 .. m + 1, NEW j \in 1 .. m + 1, h < j
            PROVE  u[h].num < u[j].num
        <5>1. h \in 1 .. m
          BY <3>2, <4>2
        <5>2. u[h] = v[h] /\ v[h].num \in from .. (to - 1)
          BY <2>5, <3>1, <5>1 DEF m
        <5>3. CASE j = m + 1
          BY <1>1, <2>0, <2>1, <3>1, <5>2, <5>3
        <5>4. CASE j \in 1 .. m
          <6>1. u[j] = v[j] /\ h \in DOMAIN v /\ j \in DOMAIN v
            BY <2>0, <3>1, <5>1, <5>4 DEF m
          <6> QED
            BY <2>0, <4>2, <5>2, <6>1 DEF Delivers
        <5> QED
          BY <3>3, <5>3, <5>4
      <4>3. ASSUME NEW k \in from .. ((to + 1) - 1), Wanted(c, RecordAt(epoch, k))
            PROVE  \E j \in 1 .. m + 1 : u[j].num = k
        <5>1. CASE k = to
          <6>1. m + 1 \in 1 .. m + 1
            BY <3>2
          <6> QED
            BY <2>1, <3>1, <5>1, <6>1
        <5>2. CASE k \in from .. (to - 1)
          <6>1. PICK j \in DOMAIN v : v[j].num = k
            BY <2>0, <4>3, <5>2 DEF Delivers
          <6>2. j \in 1 .. m /\ j \in 1 .. m + 1
            BY <2>0, <3>2 DEF m
          <6> QED
            BY <3>1, <6>1, <6>2
        <5> QED
          BY <2>6, <5>1, <5>2
      <4> QED
        BY <3>1, <4>1, <4>2, <4>3 DEF Delivers
    <3>5. \A j \in 1 .. m + 1 : Fits(c, u[j], from, produced)
      BY <2>0, <2>1, <2>3, <3>1, <3>3 DEF m
    <3> QED
      BY <2>0, <3>1, <3>4, <3>5
  <2> QED
    BY <2>2, <2>3
<1>8. \A i \in 0 + 1 .. n : i - 1 \in P => i \in P
  <2> SUFFICES ASSUME NEW i \in 1 .. n, i - 1 \in P PROVE i \in P
    OBVIOUS
  <2>1. i - 1 \in 0 .. n /\ Good(i - 1) /\ i \in 0 .. n
    BY <1>2
  <2>2. Good(i)
    BY <1>7, <2>1
  <2> QED
    BY <2>1, <2>2
<1>9. n \in P
  <2> HIDE DEF P
  <2>1. n \in Nat /\ n \in 0 .. n
    BY <1>2
  <2> QED
    BY <1>6, <1>8, <2>1, Ascent
<1>10. Good(n) /\ from + n = produced /\ w[n] \in Seq(Packets)
  <2>1. from + n = produced /\ n \in 0 .. n
    BY <1>1, <1>2
  <2> QED
    BY <1>3, <1>9, <2>1
<1> QED
  BY <1>10 DEF from, n, w

(* One tick for one client.                                                *)
LEMMA PumpFacts ==
  ASSUME RingInv, NEW c \in Client, NEW cl, Ready(c, cl)
  PROVE  LET b == Batch(cl)
             next == Pumped(cl)
         IN
         /\ b \in Seq(Packets) /\ \A j \in 1 .. Len(b) : Fits(c, b[j], cl.at, produced)
         /\ Ready(c, next) /\ next.at = produced /\ next.jumped \in BOOLEAN
         /\ (Len(b) = 0 /\ next.jumped) \/ Delivers(c, b, epoch, cl.at, produced)
         /\ cl.jumped => IF Len(b) = 0 THEN next.jumped ELSE b[1].jumped
<1> DEFINE b == Batch(cl)
           next == Pumped(cl)
           w == Written(cl)[Fresh(cl)]
           r == PacketResult(cl.cursor)
<1>1. /\ cl \in Conn /\ cl.at \in Nat /\ produced \in Nat /\ cl.at <= produced /\ cl.open
      /\ InHorizon(cl.at) /\ cl.cursor = cl.at % SeqSpace /\ cl.streaming /\ cl.asked = cl.at
      /\ cl.jumped \in BOOLEAN
      /\ \A rec \in Record : Accepts(cl, rec) <=> Wanted(c, rec)
  BY RingFields DEF Ready, Conn
<1>2. /\ cl.at >= produced => r = "Future"
      /\ cl.at < Oldest => r = "TooOld"
      /\ Oldest <= cl.at /\ cl.at < produced => r = "Ok"
  <2> DEFINE n == cl.at
  <2>1. n \in Nat /\ InHorizon(n) /\ cl.cursor = n % SeqSpace
    BY <1>1
  <2> HIDE DEF n
  <2>2. /\ n >= produced => PacketResult(n % SeqSpace) = "Future"
        /\ n < Oldest => PacketResult(n % SeqSpace) = "TooOld"
        /\ Oldest <= n /\ n < produced => PacketResult(n % SeqSpace) = "Ok"
    BY <2>1, RingAnswers
  <2> QED
    BY <2>1, <2>2 DEF n
<1>3. Oldest \in Nat /\ Oldest <= produced
  BY RingFields
<1>4. NextSeq = produced % SeqSpace /\ InHorizon(produced) /\ NextSeq \in Nat
  <2>1. produced \in Nat /\ SeqSpace \in Nat \ {0}
    BY RingFields, RingBounds
  <2>2. produced % SeqSpace \in Nat
    BY <2>1, DivMod
  <2>3. InHorizon(produced)
    BY RingFields, RingBounds DEF InHorizon
  <2> QED
    BY <2>2, <2>3 DEF NextSeq
<1>5. b = IF cl.jumped /\ w # << >> THEN [w EXCEPT ![1].jumped = TRUE] ELSE w
  BY DEF Batch, MarkFirst
<1>6. r # "Ok" => w = << >>
  <2>1. ASSUME r # "Ok" PROVE w = << >>
    <3>1. Fresh(cl) = 0
      BY <2>1 DEF Fresh
    <3>2. Written(cl)[0] = << >>
      BY <3>1, WrittenSteps
    <3> QED
      BY <3>1, <3>2
  <2> QED
    BY <2>1
<1>7. r # "Ok" => b = << >>
  BY <1>5, <1>6
<1> HIDE DEF b, w
<1>8. CASE r = "Future"
  <2>1. next = cl /\ b = << >> /\ cl.at = produced
    BY <1>1, <1>2, <1>3, <1>7, <1>8 DEF Pumped
  <2>2. Delivers(c, b, epoch, cl.at, produced)
    <3>1. DOMAIN b = {} /\ cl.at .. (produced - 1) = {}
      BY <1>1, <2>1
    <3> QED
      BY <3>1, DeliversNothing
  <2>3. Len(b) = 0 /\ b \in Seq(Packets) /\ 1 .. Len(b) = {}
    BY <2>1
  <2> QED
    BY <1>1, <2>1, <2>2, <2>3 DEF b
<1>9. ASSUME r # "Future"
      PROVE  /\ next = [cl EXCEPT !.cursor = NextSeq, !.at = produced, !.asked = produced,
                              !.jumped = (r = "TooOld") \/ (cl.jumped /\ b = << >>)]
             /\ Ready(c, next) /\ next.at = produced /\ next.jumped \in BOOLEAN
             /\ next.jumped = ((r = "TooOld") \/ (cl.jumped /\ b = << >>))
  <2>1. next = [cl EXCEPT !.cursor = NextSeq, !.at = produced, !.asked = produced,
                              !.jumped = (r = "TooOld") \/ (cl.jumped /\ b = << >>)]
    BY <1>9 DEF Pumped, b
  <2> DEFINE j == (r = "TooOld") \/ (cl.jumped /\ b = << >>)
  <2>2. j \in BOOLEAN
    BY <1>1
  <2>3. next = [cl EXCEPT !.cursor = NextSeq, !.at = produced, !.asked = produced,
                          !.jumped = j]
    BY <2>1
  <2> HIDE DEF j, next
  <2>4. /\ next \in Conn /\ next.open /\ next.streaming /\ next.at = produced
        /\ next.cursor = produced % SeqSpace /\ next.asked = produced /\ next.jumped = j
        /\ next.stations = cl.stations /\ next.uniSelectors = cl.uniSelectors
    BY <1>1, <1>4, <2>2, <2>3 DEF Conn
  <2>5. \A rec : Accepts(next, rec) <=> Accepts(cl, rec)
    BY <2>4 DEF Accepts
  <2>6. Ready(c, next)
    BY <1>1, <1>4, <2>4, <2>5 DEF Ready
  <2> QED
    BY <2>1, <2>2, <2>4, <2>6 DEF j, next
<1>10. CASE r = "TooOld"
  <2>1. b = << >> /\ Len(b) = 0 /\ b \in Seq(Packets) /\ 1 .. Len(b) = {}
    BY <1>7, <1>10
  <2>2. next.jumped
    BY <1>9, <1>10
  <2> QED
    BY <1>9, <1>10, <2>1, <2>2 DEF b
<1>11. CASE r = "Ok"
  <2>1. /\ w \in Seq(Packets) /\ Delivers(c, w, epoch, cl.at, produced)
        /\ \A j \in 1 .. Len(w) : Fits(c, w[j], cl.at, produced)
    BY <1>11, WrittenFacts DEF w
  <2>2. CASE ~(cl.jumped /\ w # << >>)
    <3>1. b = w
      BY <1>5, <2>2
    <3>2. cl.jumped => Len(b) = 0 /\ b = << >>
      BY <2>2, <3>1
    <3>3. cl.jumped => next.jumped
      BY <1>9, <1>11, <3>2
    <3> QED
      BY <1>9, <1>11, <2>1, <3>1, <3>2, <3>3 DEF b
  <2>3. CASE cl.jumped /\ w # << >>
    <3> DEFINE x == [w[1] EXCEPT !.jumped = TRUE]
    <3>1. b = [w EXCEPT ![1] = x]
      BY <1>5, <2>3
    <3>2. Len(w) \in Nat \ {0} /\ 1 \in 1 .. Len(w) /\ w[1] \in Packets /\ DOMAIN w = 1 .. Len(w)
      BY <2>1, <2>3
    <3>3. /\ x \in Packets /\ x.jumped /\ x.kind = w[1].kind /\ x.num = w[1].num
          /\ x.epoch = w[1].epoch /\ x.rec = w[1].rec /\ x.wire = w[1].wire
          /\ x.asked = w[1].asked
      BY <3>2 DEF Packets
    <3> HIDE DEF x
    <3>4. /\ b \in Seq(Packets) /\ Len(b) = Len(w) /\ DOMAIN b = 1 .. Len(w) /\ b[1] = x
          /\ \A j \in 1 .. Len(w) : j # 1 => b[j] = w[j]
      BY <2>1, <3>1, <3>2, <3>3
    <3>5. \A j \in 1 .. Len(w) : /\ b[j].kind = w[j].kind /\ b[j].num = w[j].num
                                 /\ b[j].epoch = w[j].epoch /\ b[j].rec = w[j].rec
                                 /\ b[j].wire = w[j].wire /\ b[j].asked = w[j].asked
      BY <3>3, <3>4
    <3>6. Delivers(c, b, epoch, cl.at, produced)
      BY <2>1, <3>2, <3>4, <3>5 DEF Delivers, IsPacket
    <3>7. \A j \in 1 .. Len(b) : Fits(c, b[j], cl.at, produced)
      BY <2>1, <3>4, <3>5 DEF Fits
    <3>8. b[1].jumped /\ Len(b) # 0
      BY <3>2, <3>3, <3>4
    <3> QED
      BY <1>9, <1>11, <3>4, <3>6, <3>7, <3>8 DEF b
  <2> QED
    BY <2>2, <2>3
<1> QED
  <2>1. r = "Ok" \/ r = "TooOld" \/ r = "Future"
    BY <1>1, <1>2, <1>3
  <2> QED
    BY <1>8, <1>10, <1>11, <2>1

-----------------------------------------------------------------------------
(* The inductive invariant.                                                *)

Texts == [kind : {"text"}, ok : BOOLEAN]

Message == Packets \union Texts

(* What may stand on the way of a client, its cursor included.             *)
Items == Message \union {NoPacket}
           \union [kind : {"pkt"}, epoch : 1 .. MaxEpoch, num : Nat, jumped : BOOLEAN]

LinkTypes ==
  /\ conn \in [Client -> Conn \union {NoConn}]
  /\ link \in [Client -> {"up", "lost", "none"}]
  /\ up \in [Client -> Seq(CommandType)]
  /\ down \in [Client -> Seq(Message)]
  /\ phase \in [Client -> {"handshake", "loop"}]
  /\ step \in [Client -> Nat]
  /\ wired \in [Client -> BOOLEAN]
  /\ timers \in [Client -> Nat]
  /\ seen \in [Client -> Packets \union {NoPacket}]
  /\ ate \in [Client -> BOOLEAN] /\ muted \in [Client -> BOOLEAN]

(* The two ends of a link agree on whether it is there.                    *)
EndsAgree(c) ==
  /\ conn[c].open <=> link[c] = "up"
  /\ link[c] # "up" => conn[c] = NoConn /\ up[c] = << >>
  /\ link[c] = "none" => down[c] = << >>
  /\ step[c] \in IF phase[c] = "loop" THEN {0} ELSE 1 .. LastStep(c)

(* The server has read k commands, m were sent.                            *)
Halfway(c, k, m) ==
  /\ Built(c, k, conn[c])
  /\ m - k <= Len(up[c]) /\ (m < LastStep(c) => Len(up[c]) = m - k)
  /\ \A i \in 1 .. m - k : up[c][i] = CommandAt(c, k + i)
  /\ phase[c] = "handshake" => m = step[c]

(* The handshake in between: what the server has not read is on its way,   *)
(* in order, and nothing was streamed yet.                                 *)
Greets(c) ==
  link[c] = "up" /\ ~conn[c].streaming =>
    /\ \E k \in 0 .. LastStep(c) - 1 : \E m \in k .. LastStep(c) : Halfway(c, k, m)
    /\ \A i \in 1 .. Len(down[c]) : ~IsPacket(down[c][i])

Streams(c) == conn[c].streaming => Ready(c, conn[c])

(* A packet the client has is the record it asked for, and the server can  *)
(* still tell the number after it.                                         *)
Kept(c, p) ==
  /\ p.rec = RecordAt(p.epoch, p.num) /\ p.wire = p.num % SeqSpace /\ Wanted(c, p.rec)
  /\ p.asked = p.num
  /\ p.epoch <= epoch
  /\ p.epoch = epoch => p.num < produced /\ InHorizon(p.num + 1)

Holds(c) == \A p \in Received(c) : Kept(c, p)

Joined(c) == Linked(c, Path(c), ate[c])

Found(c) ==
  phase[c] = "loop" =>
    \/ timers[c] > 0
    \/ muted[c]
    \/ wired[c] /\ link[c] = "lost"
    \/ wired[c] /\ link[c] = "up"
         /\ (conn[c].streaming \/ \E i \in DOMAIN up[c] : up[c][i].cmd = "DATA")

ClientInv(c) ==
  /\ EndsAgree(c) /\ Greets(c) /\ Streams(c) /\ Holds(c)
  /\ Joined(c) /\ Found(c)

LinkInv == RingInv /\ LinkTypes /\ \A c \in Client : ClientInv(c)

-----------------------------------------------------------------------------
(* What the definitions say of the types.                                  *)

(* The commands of a handshake.                                            *)
LEMMA CommandFacts ==
  ASSUME NEW c \in Client, LinkTypes
  PROVE  /\ Len(Greeting(c)) \in Nat \ {0} /\ LastStep(c) = Len(Greeting(c)) + 1
         /\ \A i \in 1 .. LastStep(c) : CommandAt(c, i) \in CommandType
         /\ \A i \in 1 .. Len(Greeting(c)) : /\ CommandAt(c, i) = Greeting(c)[i]
                                             /\ CommandAt(c, i).cmd # "DATA"
         /\ CommandAt(c, LastStep(c)) = DataCommand(c)
         /\ Command("HELLO") \in CommandType /\ Command("END") \in CommandType
<1> DEFINE g == Greeting(c)
           u == Subscription(c)
<1>1. /\ u \in Seq(Order) /\ g = <<Command("HELLO")>> \o u
      /\ Len(g) \in Nat \ {0} /\ g[1] = Command("HELLO")
  BY GreetingFacts
<1>2. LastStep(c) = Len(g) + 1 /\ CommandAt(c, LastStep(c)) = DataCommand(c)
  BY DEF LastStep, CommandAt
<1>3. Command("HELLO") \in CommandType /\ Command("END") \in CommandType
  BY DEF Command, CommandType, Nowhere
<1>4. DataCommand(c) \in CommandType
  <2>1. seen[c] # NoPacket => (seen[c].wire + 1) % SeqSpace \in Wire
    <3>1. SUFFICES ASSUME seen[c] # NoPacket PROVE (seen[c].wire + 1) % SeqSpace \in Wire
      OBVIOUS
    <3>2. seen[c] \in Packets
      BY <3>1 DEF LinkTypes
    <3>3. seen[c].wire + 1 \in Int
      BY <3>2 DEF Packets
    <3> QED
      BY <3>3, RingBounds, DivMod DEF Wire
  <2>2. seen[c] # NoPacket => seen[c].epoch \in Nat /\ seen[c].num + 1 \in Nat
    BY LinkAssumption DEF LinkTypes, Packets
  <2>3. CASE seen[c] = NoPacket
    <3>1. DataCommand(c) = [cmd |-> "DATA", seq |-> NoSeq, from |-> [epoch |-> 0, num |-> 0]]
      BY <2>3 DEF DataCommand, Command, Nowhere
    <3> QED
      BY <3>1 DEF CommandType
  <2>4. CASE seen[c] # NoPacket
    <3>1. DataCommand(c) = [cmd |-> "DATA", seq |-> (seen[c].wire + 1) % SeqSpace,
                            from |-> [epoch |-> seen[c].epoch, num |-> seen[c].num + 1]]
      BY <2>4 DEF DataCommand
    <3> QED
      BY <2>1, <2>2, <2>4, <3>1 DEF CommandType
  <2> QED
    BY <2>3, <2>4
<1> HIDE DEF g, u
<1>5. /\ Len(g) = Len(u) + 1 /\ Len(u) \in Nat /\ DOMAIN u = 1 .. Len(u)
      /\ \A j \in 1 .. Len(u) : g[j + 1] = u[j] /\ u[j] \in Order
  BY <1>1
<1>6. ASSUME NEW i \in 1 .. Len(g) PROVE g[i] \in CommandType /\ g[i].cmd # "DATA"
  <2>1. CASE i = 1
    BY <1>1, <1>3, <2>1 DEF Command
  <2>2. CASE i # 1
    <3>1. i - 1 \in 1 .. Len(u) /\ (i - 1) + 1 = i
      BY <1>5, <2>2
    <3>2. g[i] = u[i - 1] /\ u[i - 1] \in Order
      BY <1>5, <3>1
    <3>3. u[i - 1] \in Range(u)
      BY <1>5, <3>1 DEF Range
    <3>4. u[i - 1] \in CommandType
      BY <3>3 DEF CommandType, u
    <3>5. u[i - 1].cmd # "DATA"
      BY <3>2 DEF Order
    <3> QED
      BY <3>2, <3>4, <3>5
  <2> QED
    BY <2>1, <2>2
<1>7. \A i \in 1 .. Len(g) : CommandAt(c, i) = g[i] /\ i # LastStep(c)
  <2> SUFFICES ASSUME NEW i \in 1 .. Len(g) PROVE CommandAt(c, i) = g[i] /\ i # LastStep(c)
    OBVIOUS
  <2>1. i # LastStep(c)
    BY <1>1, <1>2
  <2> QED
    BY <2>1 DEF CommandAt, g
<1>8. ASSUME NEW i \in 1 .. LastStep(c) PROVE CommandAt(c, i) \in CommandType
  <2>1. i = LastStep(c) \/ i \in 1 .. Len(g)
    BY <1>1, <1>2
  <2> QED
    BY <1>2, <1>4, <1>6, <1>7, <2>1
<1> QED
  BY <1>1, <1>2, <1>3, <1>6, <1>7, <1>8 DEF g

(* The way of a client is made of items.                                   *)
LEMMA ItemTypes ==
  /\ \A p \in Items : IsPacket(p) => p.num \in Nat /\ p.epoch \in Nat
  /\ NoPacket \in Items /\ ~IsPacket(NoPacket)
  /\ \A p \in Packets : p \in Items /\ IsPacket(p)
  /\ \A p \in Texts : p \in Items /\ ~IsPacket(p)
  /\ \A s \in Seq(Message) : s \in Seq(Items)
  /\ \A s \in Seq(Packets) : s \in Seq(Items) /\ s \in Seq(Message)
<1>1. \A p \in Packets : IsPacket(p) /\ p.num \in Nat /\ p.epoch \in Nat
  BY LinkAssumption DEF Packets, IsPacket
<1>2. \A p \in Texts : ~IsPacket(p)
  BY DEF Texts, IsPacket
<1>3. ~IsPacket(NoPacket)
  BY DEF NoPacket, IsPacket
<1>4. \A p \in [kind : {"pkt"}, epoch : 1 .. MaxEpoch, num : Nat, jumped : BOOLEAN] :
        p.num \in Nat /\ p.epoch \in Nat
  BY LinkAssumption
<1>5. Packets \subseteq Message /\ Message \subseteq Items /\ Texts \subseteq Items
      /\ NoPacket \in Items
  BY DEF Message, Items
<1>6. \A p \in Items : IsPacket(p) => p.num \in Nat /\ p.epoch \in Nat
  BY <1>1, <1>2, <1>3, <1>4, Zenon DEF Items, Message
<1>7. \A s \in Seq(Message) : s \in Seq(Items)
  BY <1>5
<1>8. \A s \in Seq(Packets) : s \in Seq(Items) /\ s \in Seq(Message)
  BY <1>5
<1> QED
  BY <1>1, <1>2, <1>3, <1>5, <1>6, <1>7, <1>8

CursorOf(cl, e) ==
  IF cl.streaming
  THEN [kind |-> "pkt", epoch |-> e, num |-> cl.at, jumped |-> cl.jumped]
  ELSE NoPacket

LEMMA CursorItem ==
  ASSUME NEW cl \in Conn \union {NoConn}, NEW e \in 1 .. MaxEpoch
  PROVE  /\ CursorOf(cl, e) \in Items
         /\ ~cl.streaming => CursorOf(cl, e) = NoPacket /\ ~IsPacket(CursorOf(cl, e))
         /\ cl.streaming => /\ cl \in Conn /\ IsPacket(CursorOf(cl, e))
                            /\ CursorOf(cl, e).num = cl.at /\ cl.at \in Nat
                            /\ CursorOf(cl, e).epoch = e
                            /\ CursorOf(cl, e).jumped = cl.jumped /\ cl.jumped \in BOOLEAN
<1>1. cl.streaming => cl \in Conn
  BY DEF NoConn
<1>2. ASSUME cl.streaming
      PROVE  /\ CursorOf(cl, e) \in Items /\ IsPacket(CursorOf(cl, e))
             /\ CursorOf(cl, e).num = cl.at /\ cl.at \in Nat
             /\ CursorOf(cl, e).epoch = e
             /\ CursorOf(cl, e).jumped = cl.jumped /\ cl.jumped \in BOOLEAN
  <2>1. cl.at \in Nat /\ cl.jumped \in BOOLEAN
    BY <1>1, <1>2 DEF Conn
  <2>2. CursorOf(cl, e) = [kind |-> "pkt", epoch |-> e, num |-> cl.at, jumped |-> cl.jumped]
    BY <1>2 DEF CursorOf
  <2> QED
    BY <2>1, <2>2 DEF Items, IsPacket
<1>3. ~cl.streaming => CursorOf(cl, e) = NoPacket
  BY DEF CursorOf
<1> QED
  BY <1>1, <1>2, <1>3, ItemTypes

(* The way of a client, in either state of a step.                         *)
LEMMA PathIs ==
  /\ \A c : Path(c) = Way(seen[c], down[c], CursorOf(conn[c], epoch))
  /\ \A c : Path(c)' = Way(seen'[c], down'[c], CursorOf(conn'[c], epoch'))
BY DEF Path, Way, Cursor, CursorOf

LEMMA ItemsOf ==
  ASSUME NEW s \in Packets \union {NoPacket}, NEW d \in Seq(Message)
  PROVE  s \in Items /\ d \in Seq(Items)
BY ItemTypes

(* The packets among the last one taken and those under way.               *)
ReceivedOf(s, d) == {m \in {s} \union Range(d) : IsPacket(m)}

LEMMA ReceivedFacts ==
  ASSUME NEW s \in Packets \union {NoPacket}, NEW d \in Seq(Message)
  PROVE  /\ \A p \in ReceivedOf(s, d) : p \in Packets
         /\ \A p : p \in ReceivedOf(s, d) <=>
              IsPacket(p) /\ (p = s \/ \E i \in 1 .. Len(d) : p = d[i])
<1>1. DOMAIN d = 1 .. Len(d) /\ \A i \in 1 .. Len(d) : d[i] \in Message
  OBVIOUS
<1>2. Range(d) = {d[i] : i \in 1 .. Len(d)}
  BY <1>1 DEF Range
<1>3. \A p : p \in ReceivedOf(s, d) <=>
              IsPacket(p) /\ (p = s \/ \E i \in 1 .. Len(d) : p = d[i])
  BY <1>2 DEF ReceivedOf
<1>4. \A m \in Message : IsPacket(m) => m \in Packets
  BY ItemTypes DEF Message
<1>5. IsPacket(s) => s \in Packets
  BY ItemTypes
<1> QED
  BY <1>1, <1>3, <1>4, <1>5

-----------------------------------------------------------------------------
(* Nothing else happens to a client that takes no part in a step.          *)

SameRing == UNCHANGED <<slots, head, count, produced, epoch>>

Same(c) ==
  /\ conn'[c] = conn[c] /\ link'[c] = link[c] /\ up'[c] = up[c] /\ down'[c] = down[c]
  /\ phase'[c] = phase[c] /\ step'[c] = step[c] /\ wired'[c] = wired[c]
  /\ timers'[c] = timers[c] /\ seen'[c] = seen[c] /\ ate'[c] = ate[c]
  /\ muted'[c] = muted[c]

LEMMA RingKept ==
  ASSUME RingInv, SameRing
  PROVE  RingInv'
<1>1. Pushed' = Pushed
  BY DEF SameRing, Pushed
<1> QED
  BY <1>1 DEF RingInv, SameRing, Ring!Inv, Ring!TypeOK, Ring!WindowInv, Ring!Oldest

LEMMA HorizonKept ==
  ASSUME SameRing
  PROVE  /\ \A n : InHorizon(n)' <=> InHorizon(n)
         /\ \A c, p : Kept(c, p)' <=> Kept(c, p)
         /\ \A c, cl : Ready(c, cl)' <=> Ready(c, cl)
<1>1. Oldest' = Oldest /\ produced' = produced /\ epoch' = epoch
  BY DEF SameRing, Oldest
<1> QED
  BY <1>1 DEF InHorizon, Kept, Ready

LEMMA OthersKept ==
  ASSUME NEW c \in Client, SameRing, Same(c), ClientInv(c)
  PROVE  ClientInv(c)'
<1>1. \A i : CommandAt(c, i)' = CommandAt(c, i)
  BY DEF CommandAt, DataCommand, Same
<1>2. EndsAgree(c)'
  BY DEF ClientInv, EndsAgree, Same
<1>3. \A k, m : Halfway(c, k, m) => Halfway(c, k, m)'
  BY <1>1 DEF Halfway, Same
<1>4. Greets(c)'
  BY <1>3 DEF ClientInv, Greets, Same
<1>5. Streams(c)'
  BY HorizonKept DEF ClientInv, Streams, Same
<1>6. Holds(c)'
  BY HorizonKept DEF ClientInv, Holds, Received, Same
<1>7. Joined(c)'
  <2>1. Path(c)' = Path(c) /\ ate'[c] = ate[c]
    BY DEF Path, Cursor, Same, SameRing
  <2> QED
    BY <2>1 DEF ClientInv, Joined
<1>8. Found(c)'
  BY DEF ClientInv, Found, Same
<1> QED
  BY <1>2, <1>4, <1>5, <1>6, <1>7, <1>8 DEF ClientInv

(* A step of one client.                                                   *)
Touches(c) == SameRing /\ \A b \in Client \ {c} : Same(b)

LEMMA OneClient ==
  ASSUME LinkInv, NEW c \in Client, Touches(c), LinkTypes', ClientInv(c)'
  PROVE  LinkInv'
<1>1. RingInv'
  BY RingKept DEF LinkInv, Touches
<1>2. ASSUME NEW b \in Client PROVE ClientInv(b)'
  <2>1. CASE b = c
    BY <2>1
  <2>2. CASE b # c
    BY <2>2, OthersKept DEF LinkInv, Touches
  <2> QED
    BY <2>1, <2>2
<1> QED
  BY <1>1, <1>2 DEF LinkInv

(* Initially there is no link, and every client has its timer running.     *)
LEMMA InitInv ==
  ASSUME Init
  PROVE  LinkInv
<1>1. RingInv
  BY EmptyRing, LinkAssumption DEF Init
<1>2. LinkTypes
  BY DEF Init, LinkTypes
<1>3. ASSUME NEW c \in Client PROVE ClientInv(c)
  <2>1. /\ conn[c] = NoConn /\ link[c] = "none" /\ up[c] = << >> /\ down[c] = << >>
        /\ phase[c] = "loop" /\ step[c] = 0 /\ timers[c] = 1 /\ seen[c] = NoPacket
        /\ ate[c] = FALSE
    BY DEF Init
  <2>2. EndsAgree(c) /\ Greets(c) /\ Streams(c) /\ Found(c)
    BY <2>1 DEF EndsAgree, Greets, Streams, Found, NoConn
  <2>3. Holds(c)
    <3>1. Range(down[c]) = {} /\ ~IsPacket(seen[c])
      BY <2>1, ItemTypes DEF Range
    <3> QED
      BY <3>1 DEF Holds, Received
  <2>4. Joined(c)
    <3>1. seen[c] \in Items /\ down[c] \in Seq(Items)
      BY <1>2, ItemsOf DEF LinkTypes
    <3>2. CursorOf(conn[c], epoch) \in Items /\ ~IsPacket(CursorOf(conn[c], epoch))
      BY <1>1, <1>2, <2>1, CursorItem DEF RingInv, NoConn
    <3>3. Linked(c, Way(seen[c], down[c], CursorOf(conn[c], epoch)), ate[c])
      BY <2>1, <3>1, <3>2, LinkedEmpty
    <3> QED
      BY <3>3, PathIs DEF Joined
  <2> QED
    BY <2>2, <2>3, <2>4 DEF ClientInv
<1> QED
  BY <1>1, <1>2, <1>3 DEF LinkInv

(* The disconnected signal sets the timer.                                 *)
LEMMA DisconnectedInv ==
  ASSUME LinkInv, NEW c \in Client, Disconnected(c)
  PROVE  LinkInv'
<1>1. LinkTypes /\ ClientInv(c)
  BY DEF LinkInv
<1>2. /\ link' = [link EXCEPT ![c] = "none"] /\ timers' = [timers EXCEPT ![c] = @ + 1]
      /\ UNCHANGED <<conn, up, down, phase, step, wired, seen, ate, muted>> /\ SameRing
      /\ link[c] = "lost" /\ phase[c] = "loop" /\ down[c] = << >>
  BY DEF Disconnected, SameRing
<1>3. LinkTypes'
  BY <1>1, <1>2 DEF LinkTypes
<1>4. Touches(c)
  BY <1>1, <1>2 DEF Touches, Same, LinkTypes
<1>5. link'[c] = "none" /\ timers'[c] = timers[c] + 1 /\ timers[c] \in Nat
  BY <1>1, <1>2 DEF LinkTypes
<1>6. conn[c] = NoConn /\ up[c] = << >>
  BY <1>1, <1>2 DEF ClientInv, EndsAgree
<1>7. EndsAgree(c)' /\ Greets(c)' /\ Found(c)'
  BY <1>1, <1>2, <1>5, <1>6 DEF EndsAgree, Greets, Found, ClientInv, NoConn
<1>8. Streams(c)'
  BY <1>2, <1>6 DEF Streams, NoConn
<1>9. Holds(c)'
  BY <1>1, <1>2, HorizonKept DEF ClientInv, Holds, Received
<1>10. Joined(c)'
  <2>1. Path(c)' = Path(c) /\ ate' = ate
    BY <1>2 DEF Path, Cursor, SameRing
  <2> QED
    BY <1>1, <2>1 DEF ClientInv, Joined
<1>11. ClientInv(c)'
  BY <1>7, <1>8, <1>9, <1>10 DEF ClientInv
<1> QED
  BY <1>3, <1>4, <1>11, OneClient

(* An attempt to connect that fails, and one that succeeds.                *)
LEMMA NoWay ==
  ASSUME RingInv', LinkTypes', NEW c \in Client, ~conn'[c].streaming, down'[c] = << >>
  PROVE  Joined(c)'
<1> DEFINE x == seen'[c]
           d == down'[c]
           y == CursorOf(conn'[c], epoch')
<1>1. x \in Items /\ d \in Seq(Items)
  BY ItemsOf DEF LinkTypes
<1>2. y \in Items /\ ~IsPacket(y)
  <2>1. conn'[c] \in Conn \union {NoConn} /\ epoch' \in 1 .. MaxEpoch
    BY DEF LinkTypes, RingInv
  <2> QED
    BY <2>1, CursorItem
<1> HIDE DEF x, y, d
<1>3. Linked(c, Way(x, d, y), ate'[c])
  <2>1. d = << >>
    BY DEF d
  <2> QED
    BY <1>1, <1>2, <2>1, LinkedEmpty
<1> QED
  BY <1>3, PathIs DEF Joined, x, y, d

LEMMA ConnectFailsInv ==
  ASSUME LinkInv, NEW c \in Client, ConnectFails(c)
  PROVE  LinkInv'
<1>1. LinkTypes /\ ClientInv(c) /\ RingInv
  BY DEF LinkInv
<1>2. /\ link' = [link EXCEPT ![c] = "none"] /\ conn' = [conn EXCEPT ![c] = NoConn]
      /\ up' = [up EXCEPT ![c] = << >>] /\ down' = [down EXCEPT ![c] = << >>]
      /\ ate' = [ate EXCEPT ![c] = FALSE]
      /\ UNCHANGED <<phase, step, wired, timers, seen, muted>> /\ SameRing
      /\ timers[c] > 0
  BY DEF ConnectFails, SameRing
<1>3. LinkTypes'
  BY <1>1, <1>2 DEF LinkTypes
<1>4. Touches(c)
  BY <1>1, <1>2 DEF Touches, Same, LinkTypes
<1>5. /\ link'[c] = "none" /\ conn'[c] = NoConn /\ up'[c] = << >> /\ down'[c] = << >>
      /\ ~conn'[c].streaming /\ ~conn'[c].open
  BY <1>1, <1>2 DEF LinkTypes, NoConn
<1>6. EndsAgree(c)' /\ Greets(c)' /\ Found(c)' /\ Streams(c)'
  BY <1>1, <1>2, <1>5 DEF EndsAgree, Greets, Found, Streams, ClientInv
<1>7. Holds(c)'
  <2>1. \A p \in Received(c)' : p \in Received(c)
    <3>1. Range(down'[c]) = {}
      BY <1>5 DEF Range
    <3> QED
      BY <1>2, <3>1 DEF Received
  <2> QED
    BY <1>1, <1>2, <2>1, HorizonKept DEF ClientInv, Holds
<1>8. Joined(c)'
  BY <1>1, <1>2, <1>3, <1>5, RingKept, NoWay
<1>9. ClientInv(c)'
  BY <1>6, <1>7, <1>8 DEF ClientInv
<1> QED
  BY <1>3, <1>4, <1>9, OneClient

LEMMA ConnectInv ==
  ASSUME LinkInv, NEW c \in Client, Connect(c)
  PROVE  LinkInv'
<1>1. LinkTypes /\ ClientInv(c) /\ RingInv
  BY DEF LinkInv
<1>2. /\ link' = [link EXCEPT ![c] = "up"] /\ conn' = [conn EXCEPT ![c] = NewConn]
      /\ up' = [up EXCEPT ![c] = <<CommandAt(c, 1)>>] /\ down' = [down EXCEPT ![c] = << >>]
      /\ ate' = [ate EXCEPT ![c] = FALSE] /\ muted' = [muted EXCEPT ![c] = FALSE]
      /\ timers' = [timers EXCEPT ![c] = @ - 1]
      /\ phase' = [phase EXCEPT ![c] = "handshake"] /\ step' = [step EXCEPT ![c] = 1]
      /\ UNCHANGED <<wired, seen>> /\ SameRing /\ timers[c] > 0
  BY DEF Connect, SameRing
<1>3. /\ LastStep(c) \in Nat /\ LastStep(c) > 1 /\ 1 \in 1 .. LastStep(c)
      /\ CommandAt(c, 1) \in CommandType
  BY <1>1, CommandFacts
<1>4. NewConn \in Conn /\ NewConn.open /\ ~NewConn.streaming
  BY BuiltStart DEF Built
<1>5. LinkTypes'
  <2>1. timers[c] - 1 \in Nat
    BY <1>1, <1>2 DEF LinkTypes
  <2>2. <<CommandAt(c, 1)>> \in Seq(CommandType)
    BY <1>3
  <2>3. conn' \in [Client -> Conn \union {NoConn}] /\ up' \in [Client -> Seq(CommandType)]
    BY <1>1, <1>2, <1>4, <2>2 DEF LinkTypes
  <2> QED
    BY <1>1, <1>2, <2>1, <2>3 DEF LinkTypes
<1>6. Touches(c)
  BY <1>1, <1>2 DEF Touches, Same, LinkTypes
<1>7. /\ link'[c] = "up" /\ conn'[c] = NewConn /\ up'[c] = <<CommandAt(c, 1)>>
      /\ down'[c] = << >> /\ phase'[c] = "handshake" /\ step'[c] = 1 /\ seen'[c] = seen[c]
      /\ ~conn'[c].streaming /\ conn'[c].open
  BY <1>1, <1>2, <1>4 DEF LinkTypes
<1>8. EndsAgree(c)' /\ Found(c)' /\ Streams(c)'
  BY <1>3, <1>7 DEF EndsAgree, Found, Streams
<1>9. Greets(c)'
  <2>1. \A i : CommandAt(c, i)' = CommandAt(c, i)
    BY <1>7 DEF CommandAt, DataCommand
  <2>2. Built(c, 0, conn'[c])
    BY <1>7, BuiltStart
  <2>3. Halfway(c, 0, 1)'
    <3>1. Len(up'[c]) = 1 /\ \A i \in 1 .. 1 : up'[c][i] = CommandAt(c, 0 + i)
      BY <1>7
    <3> QED
      BY <1>7, <2>1, <2>2, <3>1 DEF Halfway
  <2>4. 0 \in 0 .. LastStep(c) - 1 /\ 1 \in 0 .. LastStep(c)
    BY <1>3
  <2>5. \A i \in 1 .. Len(down'[c]) : FALSE
    BY <1>7
  <2> QED
    BY <2>3, <2>4, <2>5 DEF Greets
<1>10. Holds(c)'
  <2>1. \A p \in Received(c)' : p \in Received(c)
    <3>1. Range(down'[c]) = {}
      BY <1>7 DEF Range
    <3> QED
      BY <1>2, <3>1 DEF Received
  <2> QED
    BY <1>1, <1>2, <2>1, HorizonKept DEF ClientInv, Holds
<1>11. Joined(c)'
  BY <1>1, <1>2, <1>5, <1>7, RingKept, NoWay
<1>12. ClientInv(c)'
  BY <1>8, <1>9, <1>10, <1>11 DEF ClientInv
<1> QED
  BY <1>5, <1>6, <1>12, OneClient

(* What is left of the way when the server has dropped the connection.     *)
LEMMA CutWay ==
  ASSUME LinkTypes, LinkTypes', epoch' \in 1 .. MaxEpoch, NEW c \in Client, Joined(c),
         epoch \in 1 .. MaxEpoch,
         conn'[c] = NoConn, seen'[c] = seen[c], ate'[c] = ate[c],
         NEW n \in 0 .. Len(down[c]), down'[c] = SubSeq(down[c], 1, n)
  PROVE  Joined(c)' /\ \A p \in Received(c)' : p \in Received(c)
<1> DEFINE x == seen[c]
           d == down[c]
           y == CursorOf(conn[c], epoch)
           z == CursorOf(conn'[c], epoch')
<1>1. x \in Packets \union {NoPacket} /\ d \in Seq(Message)
  BY DEF LinkTypes
<1>2. x \in Items /\ d \in Seq(Items) /\ n \in 0 .. Len(d)
  BY <1>1, ItemsOf
<1>3. y \in Items /\ z \in Items /\ ~IsPacket(z)
  <2>1. conn[c] \in Conn \union {NoConn} /\ NoConn \in Conn \union {NoConn}
        /\ ~NoConn.streaming
    BY DEF LinkTypes, NoConn
  <2> QED
    BY <2>1, CursorItem
<1>4. Linked(c, Way(x, d, y), ate[c])
  BY PathIs DEF Joined
<1> HIDE DEF x, d, y, z
<1>5. Linked(c, Way(x, SubSeq(d, 1, n), z), ate[c])
  BY <1>2, <1>3, <1>4, LinkedCut
<1>6. Joined(c)'
  BY <1>5, PathIs DEF Joined, x, d, z
<1>7. \A p \in Range(SubSeq(d, 1, n)) : p \in Range(d)
  <2>1. /\ SubSeq(d, 1, n) \in Seq(Items) /\ Len(SubSeq(d, 1, n)) = n /\ Len(d) \in Nat
        /\ \A k \in 1 .. n : SubSeq(d, 1, n)[k] = d[k]
    BY <1>2, PrefixParts
  <2>2. DOMAIN SubSeq(d, 1, n) = 1 .. n /\ DOMAIN d = 1 .. Len(d) /\ n <= Len(d)
    BY <1>2, <2>1
  <2> QED
    BY <2>1, <2>2 DEF Range
<1>8. \A p \in Received(c)' : p \in Received(c)
  BY <1>7 DEF Received, d
<1> QED
  BY <1>6, <1>8

(* The link breaks.                                                        *)
LEMMA BreakInv ==
  ASSUME LinkInv, NEW c \in Client, Break(c)
  PROVE  LinkInv'
<1>1. LinkTypes /\ ClientInv(c) /\ RingInv
  BY DEF LinkInv
<1>2. /\ link' = [link EXCEPT ![c] = "lost"] /\ conn' = [conn EXCEPT ![c] = NoConn]
      /\ up' = [up EXCEPT ![c] = << >>]
      /\ UNCHANGED <<phase, step, wired, timers, seen, ate, muted>> /\ SameRing
      /\ link[c] = "up"
  BY DEF Break, SameRing, clientVars
<1>3. PICK n \in 0 .. Len(down[c]) : down' = [down EXCEPT ![c] = SubSeq(down[c], 1, n)]
  BY DEF Break, Prefixes
<1>4. down[c] \in Seq(Message) /\ SubSeq(down[c], 1, n) \in Seq(Message)
  BY <1>1, PrefixParts DEF LinkTypes
<1>5. LinkTypes'
  BY <1>1, <1>2, <1>3, <1>4 DEF LinkTypes
<1>6. Touches(c)
  BY <1>1, <1>2, <1>3 DEF Touches, Same, LinkTypes
<1>7. /\ link'[c] = "lost" /\ conn'[c] = NoConn /\ up'[c] = << >>
      /\ down'[c] = SubSeq(down[c], 1, n)
      /\ ~conn'[c].streaming /\ ~conn'[c].open
  BY <1>1, <1>2, <1>3 DEF LinkTypes, NoConn
<1>8. EndsAgree(c)' /\ Greets(c)' /\ Found(c)' /\ Streams(c)'
  BY <1>1, <1>2, <1>7 DEF EndsAgree, Greets, Found, Streams, ClientInv
<1>9. Joined(c)' /\ \A p \in Received(c)' : p \in Received(c)
  BY <1>1, <1>2, <1>5, <1>7, CutWay DEF ClientInv, RingInv, SameRing
<1>10. Holds(c)'
  BY <1>1, <1>2, <1>9, HorizonKept DEF ClientInv, Holds
<1>11. ClientInv(c)'
  BY <1>8, <1>9, <1>10 DEF ClientInv
<1> QED
  BY <1>5, <1>6, <1>11, OneClient

(* The server restarts: all it knew of its clients is gone, and the        *)
(* numbers of the packets they have belong to an earlier incarnation.      *)
LEMMA RestartInv ==
  ASSUME LinkInv, Restart
  PROVE  LinkInv'
<1>1. LinkTypes /\ RingInv /\ \A c \in Client : ClientInv(c)
  BY DEF LinkInv
<1>2. /\ epoch < MaxEpoch /\ epoch' = epoch + 1 /\ RingReset
      /\ conn' = [c \in Client |-> NoConn] /\ up' = [c \in Client |-> << >>]
      /\ link' = [c \in Client |-> IF link[c] = "up" THEN "lost" ELSE link[c]]
      /\ UNCHANGED <<phase, step, wired, timers, seen, ate, muted>>
  BY DEF Restart, clientVars
<1>3. PICK rest \in [Client -> UNION {Prefixes(down[c]) : c \in Client}] :
        (\A c \in Client : rest[c] \in Prefixes(down[c])) /\ down' = rest
  BY DEF Restart
<1>4. epoch \in 1 .. MaxEpoch /\ epoch' \in 1 .. MaxEpoch /\ MaxEpoch \in Nat
  BY <1>1, <1>2, LinkAssumption DEF RingInv
<1>5. RingInv'
  <2>1. RingInit'
    BY <1>2 DEF RingReset, RingInit
  <2>2. Pushed' = << >>
    BY <2>1 DEF RingInit, Pushed
  <2>3. Ring!Init'
    BY <2>1, <2>2 DEF Ring!Init, RingInit, Ring!RingInit, SlotIndex, Ring!SlotIndex,
                      EmptySlot, Ring!EmptySlot
  <2>4. produced' = 0 /\ MaxProduced \in Nat
    BY <2>1, LinkAssumption DEF RingInit
  <2>5. Ring!Inv'
    BY <2>3, RingRestarts
  <2> QED
    BY <1>4, <2>4, <2>5 DEF RingInv
<1>6. ASSUME NEW c \in Client
      PROVE  \E n \in 0 .. Len(down[c]) : down'[c] = SubSeq(down[c], 1, n)
  BY <1>3 DEF Prefixes
<1>7. ASSUME NEW c \in Client PROVE down[c] \in Seq(Message) /\ down'[c] \in Seq(Message)
  <2>1. down[c] \in Seq(Message)
    BY <1>1 DEF LinkTypes
  <2>2. PICK n \in 0 .. Len(down[c]) : down'[c] = SubSeq(down[c], 1, n)
    BY <1>6
  <2> QED
    BY <2>1, <2>2, PrefixParts
<1>8. LinkTypes'
  <2>1. down' \in [Client -> Seq(Message)]
    BY <1>3, <1>7
  <2>2. link' \in [Client -> {"up", "lost", "none"}]
    <3> SUFFICES ASSUME NEW c \in Client PROVE link'[c] \in {"up", "lost", "none"}
      BY <1>2
    <3>1. link[c] \in {"up", "lost", "none"}
      BY <1>1 DEF LinkTypes
    <3> QED
      BY <1>2, <3>1
  <2>3. up' \in [Client -> Seq(CommandType)]
    <3>1. << >> \in Seq(CommandType)
      OBVIOUS
    <3> QED
      BY <1>2, <3>1, Zenon
  <2>4. conn' \in [Client -> Conn \union {NoConn}]
    BY <1>2
  <2>5. /\ phase' \in [Client -> {"handshake", "loop"}] /\ step' \in [Client -> Nat]
        /\ wired' \in [Client -> BOOLEAN] /\ timers' \in [Client -> Nat]
        /\ seen' \in [Client -> Packets \union {NoPacket}] /\ ate' \in [Client -> BOOLEAN]
        /\ muted' \in [Client -> BOOLEAN]
    BY <1>1, <1>2 DEF LinkTypes
  <2> QED
    BY <2>1, <2>2, <2>3, <2>4, <2>5 DEF LinkTypes
<1>9. ASSUME NEW c \in Client PROVE ClientInv(c)'
  <2>1. /\ conn'[c] = NoConn /\ up'[c] = << >> /\ seen'[c] = seen[c] /\ ate'[c] = ate[c]
        /\ link'[c] = (IF link[c] = "up" THEN "lost" ELSE link[c])
        /\ ~conn'[c].streaming /\ ~conn'[c].open
        /\ link[c] \in {"up", "lost", "none"}
    BY <1>1, <1>2 DEF NoConn, LinkTypes
  <2>2. PICK n \in 0 .. Len(down[c]) : down'[c] = SubSeq(down[c], 1, n)
    BY <1>6
  <2>3. link'[c] = "none" => down'[c] = << >>
    <3>1. SUFFICES ASSUME link'[c] = "none" PROVE down'[c] = << >>
      OBVIOUS
    <3>2. link[c] = "none"
      BY <2>1, <3>1
    <3>3. down[c] = << >>
      BY <1>1, <3>2 DEF ClientInv, EndsAgree
    <3> QED
      BY <2>2, <3>3
  <2>4. EndsAgree(c)'
    BY <1>1, <1>2, <2>1, <2>3 DEF EndsAgree, ClientInv
  <2>5. Greets(c)' /\ Found(c)' /\ Streams(c)'
    BY <1>1, <1>2, <2>1 DEF Greets, Found, Streams, ClientInv
  <2>6. Joined(c)' /\ \A p \in Received(c)' : p \in Received(c)
    BY <1>1, <1>4, <1>8, <2>1, <2>2, CutWay DEF ClientInv
  <2>7. Holds(c)'
    <3> SUFFICES ASSUME NEW p \in Received(c)' PROVE Kept(c, p)'
      BY DEF Holds
    <3>1. Kept(c, p)
      BY <1>1, <2>6 DEF ClientInv, Holds
    <3>2. p.epoch \in Nat
      <4>1. p \in Received(c) /\ seen[c] \in Packets \union {NoPacket} /\ down[c] \in Seq(Message)
        BY <1>1, <2>6 DEF LinkTypes
      <4>2. p \in Packets
        BY <4>1, ReceivedFacts DEF Received, ReceivedOf
      <4> QED
        BY <4>2, LinkAssumption DEF Packets
    <3>3. p.epoch <= epoch /\ p.epoch < epoch'
      BY <1>2, <1>4, <3>1, <3>2 DEF Kept
    <3>4. p.epoch <= epoch' /\ p.epoch # epoch'
      BY <1>4, <3>2, <3>3
    <3> QED
      BY <3>1, <3>4 DEF Kept
  <2> QED
    BY <2>4, <2>5, <2>6, <2>7 DEF ClientInv
<1> QED
  BY <1>5, <1>8, <1>9 DEF LinkInv

(* The client reads one message.                                           *)
LEMMA ReadyReadInv ==
  ASSUME LinkInv, NEW c \in Client, ReadyRead(c)
  PROVE  LinkInv'
<1>1. LinkTypes /\ ClientInv(c) /\ RingInv
  BY DEF LinkInv
<1> DEFINE x == seen[c]
           d == down[c]
           y == CursorOf(conn[c], epoch)
<1>2. /\ down' = [down EXCEPT ![c] = Tail(d)] /\ d # << >> /\ phase[c] = "loop"
      /\ UNCHANGED <<conn, link, up, phase, step, wired, timers, muted>> /\ SameRing
      /\ IF IsPacket(Head(d))
         THEN seen' = [seen EXCEPT ![c] = Head(d)] /\ ate' = [ate EXCEPT ![c] = FALSE]
         ELSE seen' = seen /\ ate' = ate
  BY DEF ReadyRead, SameRing
<1>3. x \in Packets \union {NoPacket} /\ d \in Seq(Message) /\ x \in Items /\ d \in Seq(Items)
      /\ ate[c] \in BOOLEAN
  <2>1. x \in Packets \union {NoPacket} /\ d \in Seq(Message) /\ ate[c] \in BOOLEAN
    BY <1>1 DEF LinkTypes
  <2> QED
    BY <2>1, ItemsOf
<1>4. y \in Items
  <2>1. conn[c] \in Conn \union {NoConn} /\ epoch \in 1 .. MaxEpoch
    BY <1>1 DEF LinkTypes, RingInv
  <2> QED
    BY <2>1, CursorItem
<1>5. /\ Tail(d) \in Seq(Message) /\ Len(Tail(d)) = Len(d) - 1 /\ Len(d) \in Nat \ {0}
      /\ Head(d) = d[1] /\ Head(d) \in Message
      /\ \A k \in 1 .. Len(d) - 1 : Tail(d)[k] = d[k + 1]
  BY <1>2, <1>3, TailParts
<1>6. IsPacket(Head(d)) => Head(d) \in Packets
  BY <1>5, ItemTypes DEF Message
<1>7. Linked(c, Way(x, d, y), ate[c])
  BY <1>1, PathIs DEF ClientInv, Joined
<1>8. /\ down'[c] = Tail(d) /\ conn'[c] = conn[c] /\ epoch' = epoch
      /\ IsPacket(Head(d)) => seen'[c] = Head(d) /\ ate'[c] = FALSE
      /\ ~IsPacket(Head(d)) => seen'[c] = x /\ ate'[c] = ate[c]
  BY <1>1, <1>2 DEF LinkTypes, SameRing
<1>9. LinkTypes'
  <2>1. down' \in [Client -> Seq(Message)]
    BY <1>1, <1>2, <1>5 DEF LinkTypes
  <2>2. seen' \in [Client -> Packets \union {NoPacket}] /\ ate' \in [Client -> BOOLEAN]
    BY <1>1, <1>2, <1>6 DEF LinkTypes
  <2> QED
    BY <1>1, <1>2, <2>1, <2>2 DEF LinkTypes
<1>10. Touches(c)
  BY <1>1, <1>2 DEF Touches, Same, LinkTypes
<1>11. Joined(c)'
  <2> HIDE DEF x, d, y
  <2>1. CASE IsPacket(Head(d))
    <3>1. Linked(c, Way(Head(d), Tail(d), y), FALSE)
      BY <1>2, <1>3, <1>4, <1>7, LinkedTake
    <3> QED
      BY <1>8, <2>1, <3>1, PathIs DEF Joined, y
  <2>2. CASE ~IsPacket(Head(d))
    <3>1. 1 \in 0 .. Len(d)
      BY <1>5
    <3>2. Linked(c, Way(x, SubSeq(d, 1 + 1, Len(d)), y),
                 ate[c] \/ \E i \in 1 .. 1 : IsPacket(d[i]))
      BY <1>3, <1>4, <1>7, <3>1, LinkedDrop
    <3>3. SubSeq(d, 1 + 1, Len(d)) = Tail(d)
      BY <1>2, <1>3
    <3>4. (ate[c] \/ \E i \in 1 .. 1 : IsPacket(d[i])) = ate[c]
      BY <1>3, <1>5, <2>2
    <3>5. Linked(c, Way(x, Tail(d), y), ate[c])
      BY <3>2, <3>3, <3>4
    <3> QED
      BY <1>8, <2>2, <3>5, PathIs DEF Joined, x, y
  <2> QED
    BY <2>1, <2>2
<1>12. ASSUME NEW p \in Received(c)' PROVE p \in Received(c)
  <2> DEFINE xx == seen'[c]
             dd == down'[c]
  <2>1. xx \in Packets \union {NoPacket} /\ dd \in Seq(Message)
    BY <1>9 DEF LinkTypes
  <2>2. p \in ReceivedOf(xx, dd)
    BY <1>12 DEF Received, ReceivedOf
  <2>3. IsPacket(p) /\ (p = seen'[c] \/ \E i \in 1 .. Len(down'[c]) : p = down'[c][i])
    <3>1. \A s \in Packets \union {NoPacket}, t \in Seq(Message) : \A m \in ReceivedOf(s, t) :
            IsPacket(m) /\ (m = s \/ \E i \in 1 .. Len(t) : m = t[i])
      BY ReceivedFacts
    <3> QED
      BY <2>1, <2>2, <3>1, Zenon
  <2>4. p = x \/ \E i \in 1 .. Len(d) : p = d[i]
    <3>1. 1 \in 1 .. Len(d) /\ \A i \in 1 .. Len(Tail(d)) : i + 1 \in 1 .. Len(d)
                                                             /\ Tail(d)[i] = d[i + 1]
      BY <1>5
    <3>2. seen'[c] = x \/ seen'[c] = d[1]
      BY <1>5, <1>8
    <3> QED
      BY <1>8, <2>3, <3>1, <3>2
  <2>5. p \in ReceivedOf(x, d)
    BY <1>3, <2>3, <2>4, ReceivedFacts
  <2> QED
    BY <2>5 DEF Received, ReceivedOf
<1>13. Holds(c)'
  BY <1>1, <1>2, <1>12, HorizonKept DEF ClientInv, Holds
<1>14. Streams(c)' /\ Found(c)'
  BY <1>1, <1>2, HorizonKept DEF ClientInv, Streams, Found
<1>15. EndsAgree(c)'
  <2>1. link'[c] # "none"
    BY <1>1, <1>2 DEF ClientInv, EndsAgree
  <2> QED
    BY <1>1, <1>2, <2>1 DEF ClientInv, EndsAgree
<1>16. Greets(c)'
  <2> SUFFICES ASSUME link[c] = "up", ~conn[c].streaming PROVE Greets(c)'
    BY <1>2 DEF Greets
  <2>1. /\ \E k \in 0 .. LastStep(c) - 1 : \E m \in k .. LastStep(c) : Halfway(c, k, m)
        /\ \A i \in 1 .. Len(d) : ~IsPacket(d[i])
    BY <1>1 DEF ClientInv, Greets
  <2>2. ~IsPacket(Head(d))
    BY <1>5, <2>1
  <2>3. \A i : CommandAt(c, i)' = CommandAt(c, i)
    BY <1>8, <2>2 DEF CommandAt, DataCommand
  <2>4. \A k, m : Halfway(c, k, m) => Halfway(c, k, m)'
    BY <1>2, <2>3 DEF Halfway
  <2>5. \A i \in 1 .. Len(down'[c]) : ~IsPacket(down'[c][i])
    <3>1. \A i \in 1 .. Len(Tail(d)) : i + 1 \in 1 .. Len(d) /\ Tail(d)[i] = d[i + 1]
      BY <1>5
    <3> QED
      BY <1>8, <2>1, <3>1
  <2> QED
    BY <2>1, <2>4, <2>5 DEF Greets
<1>17. ClientInv(c)'
  BY <1>11, <1>13, <1>14, <1>15, <1>16 DEF ClientInv
<1> QED
  BY <1>9, <1>10, <1>17, OneClient

(* DATA is the first to put a packet on a way that has none but x.         *)
LEMMA LinkedFirst ==
  ASSUME NEW c, NEW S, NEW x \in S, NEW d \in Seq(S), NEW z \in S, NEW a,
         \A i \in 1 .. Len(d) : ~IsPacket(d[i]),
         IsPacket(x) /\ IsPacket(z) => Earlier(x, z) /\ Excused(c, x, z)
  PROVE  Linked(c, Way(x, d, z), a)
<1> DEFINE w == Way(x, d, z)
<1>1. /\ DOMAIN w = 1 .. Len(d) + 2 /\ Len(d) \in Nat /\ w[1] = x /\ w[Len(d) + 2] = z
      /\ \A i \in 2 .. Len(d) + 1 : w[i] = d[i - 1]
  BY WayParts
<1> HIDE DEF w
<1>2. \A i \in 2 .. Len(d) + 1 : ~IsPacket(w[i])
  <2> SUFFICES ASSUME NEW i \in 2 .. Len(d) + 1 PROVE ~IsPacket(w[i])
    OBVIOUS
  <2>1. i - 1 \in 1 .. Len(d)
    BY <1>1
  <2> QED
    BY <1>1, <2>1
<1>3. ASSUME NEW i \in DOMAIN w, NEW j \in DOMAIN w, i < j, IsPacket(w[i]), IsPacket(w[j])
      PROVE  w[i] = x /\ w[j] = z /\ Earlier(x, z) /\ Excused(c, x, z)
  <2>1. i = 1 /\ j = Len(d) + 2
    <3>1. i \notin 2 .. Len(d) + 1 /\ j \notin 2 .. Len(d) + 1
      BY <1>2, <1>3
    <3> QED
      BY <1>1, <1>3, <3>1
  <2> QED
    BY <1>1, <1>3, <2>1
<1>4. OrderOk(w) /\ GapOk(c, w, a)
  BY <1>3 DEF OrderOk, GapOk, Follows
<1> QED
  BY <1>4 DEF Linked, w

(* Where DATA starts a connection that has read the whole greeting: at the *)
(* number after that of the packet s, or, if the ring has lost it, at the  *)
(* oldest record with the loss on record.                                  *)
LEMMA StartedFacts ==
  ASSUME RingInv, NEW c \in Client, NEW cl, Built(c, Len(Greeting(c)), cl),
         NEW s \in Packets \union {NoPacket}, s # NoPacket => Kept(c, s),
         NEW line, line.seq = IF s = NoPacket THEN NoSeq ELSE (s.wire + 1) % SeqSpace,
         line.from = IF s = NoPacket THEN Nowhere ELSE [epoch |-> s.epoch, num |-> s.num + 1]
  PROVE  /\ Ready(c, Started(cl, line))
         /\ s # NoPacket /\ s.epoch = epoch =>
              \/ Started(cl, line).at = s.num + 1
              \/ Started(cl, line).at > s.num /\ Started(cl, line).jumped
<1> DEFINE q == line.seq
           next == Started(cl, line)
           cursor == IF q = NoSeq THEN NextSeq ELSE ResumeCursor(q)
           at == AbsOf(cursor)
           asked == Meant(line.from, cursor)
           j == q # NoSeq /\ PacketResult(q) = "TooOld"
<1>1. next = [cl EXCEPT !.streaming = TRUE, !.cursor = cursor, !.at = at, !.asked = asked,
                          !.jumped = j]
  BY DEF Started
<1>0. q = IF s = NoPacket THEN NoSeq ELSE (s.wire + 1) % SeqSpace
  OBVIOUS
<1>2. /\ cl \in Conn /\ cl.open
      /\ \A rec \in Record : Accepts(cl, rec) <=> Wanted(c, rec)
  BY BuiltAll DEF Built
<1>3. /\ produced \in Nat /\ Oldest \in Nat /\ count \in Nat /\ count <= Cap
      /\ Oldest + count = produced /\ Half \in Nat /\ Cap < Half /\ Half < SeqSpace
      /\ SeqSpace \in Nat \ {0} /\ Cap \in Nat
  BY RingFields, RingBounds
<1>4. s # NoPacket => /\ s.wire + 1 \in Int /\ q \in Wire /\ q # NoSeq
                      /\ s.num \in Nat /\ q = (s.num + 1) % SeqSpace
  <2> SUFFICES ASSUME s # NoPacket
               PROVE  /\ s.wire + 1 \in Int /\ q \in Wire /\ q # NoSeq
                      /\ s.num \in Nat /\ q = (s.num + 1) % SeqSpace
    OBVIOUS
  <2>1. s.wire \in Nat /\ s.num \in Nat /\ s.wire = s.num % SeqSpace
    BY DEF Packets, Kept
  <2>0. q = (s.wire + 1) % SeqSpace
    BY <1>0
  <2>2. (s.wire + 1) % SeqSpace = (s.num + 1) % SeqSpace
    <3>0. s.num \in Int /\ SeqSpace \in Nat \ {0}
      BY <2>1, RingBounds
    <3>1. ((s.num % SeqSpace) + 1) % SeqSpace = (s.num + 1) % SeqSpace
      BY <3>0, ModSucc
    <3> QED
      BY <2>1, <3>1
  <2>3. (s.num + 1) % SeqSpace \in 0 .. SeqSpace - 1
    <3>1. s.num + 1 \in Int
      BY <2>1
    <3> QED
      BY <1>3, <3>1, DivMod
  <2>4. q = (s.num + 1) % SeqSpace
    BY <2>0, <2>2
  <2> HIDE DEF q
  <2>5. s.wire + 1 \in Int
    BY <2>1
  <2>6. q \in Wire
    BY <2>3, <2>4 DEF Wire
  <2>7. q # NoSeq
    BY <1>3, <2>3, <2>4 DEF NoSeq
  <2> QED
    BY <2>1, <2>4, <2>5, <2>6, <2>7
<1>5. at \in Oldest .. produced /\ cursor = at % SeqSpace
  <2>1. CASE q = NoSeq
    <3>1. 0 \in Wire
      BY <1>3 DEF Wire
    <3>2. AbsOf(NextSeq) = produced /\ NextSeq = produced % SeqSpace
      BY <3>1, ResumeAny DEF NextSeq
    <3>3. cursor = NextSeq /\ at = AbsOf(NextSeq)
      BY <2>1
    <3> HIDE DEF cursor, at
    <3> QED
      BY <1>3, <3>2, <3>3
  <2>2. CASE q # NoSeq
    <3>1. q \in Wire /\ cursor = ResumeCursor(q) /\ at = AbsOf(ResumeCursor(q))
      BY <1>4, <2>2
    <3> HIDE DEF cursor, at
    <3> QED
      BY <3>1, ResumeAny
  <2> QED
    BY <2>1, <2>2
<1>6. s # NoPacket /\ s.epoch = epoch => at = s.num + 1 \/ (at > s.num /\ j)
  <2> SUFFICES ASSUME s # NoPacket, s.epoch = epoch
               PROVE  at = s.num + 1 \/ (at > s.num /\ j)
    OBVIOUS
  <2> DEFINE n == s.num + 1
  <2>1. n \in Nat /\ q = n % SeqSpace /\ q # NoSeq /\ n <= produced /\ InHorizon(n)
    BY <1>3, <1>4 DEF Kept
  <2>2. cursor = ResumeCursor(q) /\ at = AbsOf(ResumeCursor(q))
        /\ (j <=> PacketResult(q) = "TooOld")
    BY <2>1
  <2> HIDE DEF n, cursor, at, j, q
  <2>3. /\ n >= Oldest => AbsOf(ResumeCursor(n % SeqSpace)) = n
        /\ n < Oldest => PacketResult(n % SeqSpace) = "TooOld"
                         /\ AbsOf(ResumeCursor(n % SeqSpace)) = Oldest
    BY <2>1, ResumeExact
  <2>4. at = n \/ (at > n /\ j)
    BY <1>3, <2>1, <2>2, <2>3
  <2>5. at \in Int
    BY <1>3, <1>5
  <2>6. s.num \in Nat /\ n = s.num + 1
    BY <1>4 DEF n
  <2> QED
    BY <2>4, <2>5, <2>6
<1>12. asked = at
  <2>1. CASE s # NoPacket /\ s.epoch = epoch
    <3> DEFINE n == s.num + 1
    <3>1. n \in Nat /\ q = n % SeqSpace /\ q # NoSeq /\ n <= produced /\ InHorizon(n)
      BY <1>3, <1>4, <2>1 DEF Kept
    <3>2. line.from.epoch = epoch /\ line.from.num = n
      BY <2>1
    <3>3. cursor = ResumeCursor(q) /\ at = AbsOf(ResumeCursor(q))
      BY <3>1
    <3>4. asked = IF n >= Oldest THEN n ELSE Oldest
      BY <3>2 DEF Meant
    <3> HIDE DEF n, cursor, at, q, asked
    <3>5. /\ n >= Oldest => AbsOf(ResumeCursor(n % SeqSpace)) = n
          /\ n < Oldest => AbsOf(ResumeCursor(n % SeqSpace)) = Oldest
      BY <3>1, ResumeExact
    <3> QED
      BY <1>3, <3>1, <3>3, <3>4, <3>5
  <2>2. CASE ~(s # NoPacket /\ s.epoch = epoch)
    <3>1. line.from.epoch # epoch
      <4>1. s = NoPacket => line.from.epoch = 0
        BY DEF Nowhere
      <4>2. s # NoPacket => line.from.epoch = s.epoch
        OBVIOUS
      <4>3. epoch # 0
        BY DEF RingInv
      <4> QED
        BY <2>2, <4>1, <4>2, <4>3
    <3> QED
      BY <3>1 DEF Meant
  <2> QED
    BY <2>1, <2>2
<1>7. cursor \in Nat /\ at \in Nat /\ j \in BOOLEAN
  <2>1. at \in Nat
    BY <1>3, <1>5
  <2>2. at % SeqSpace \in Nat
    <3> HIDE DEF at
    <3> QED
      BY <1>3, <2>1, DivMod
  <2> QED
    BY <1>5, <2>1, <2>2
<1> HIDE DEF cursor, at, j, next, asked
<1>8. /\ next \in Conn /\ next.open /\ next.streaming /\ next.at = at /\ next.cursor = cursor
      /\ next.jumped = j /\ next.asked = at
      /\ next.stations = cl.stations /\ next.uniSelectors = cl.uniSelectors
  BY <1>1, <1>2, <1>7, <1>12 DEF Conn
<1>9. \A rec : Accepts(next, rec) <=> Accepts(cl, rec)
  BY <1>8 DEF Accepts
<1>10. InHorizon(at) /\ at <= produced
  BY <1>3, <1>5, <1>7 DEF InHorizon
<1>11. Ready(c, next)
  BY <1>2, <1>5, <1>8, <1>9, <1>10 DEF Ready
<1> QED
  BY <1>6, <1>8, <1>11 DEF next

(* A line that has been read is gone, whatever it was.                     *)
ReadLine(c, u) ==
  /\ up' = [up EXCEPT ![c] = Tail(u)]
  /\ UNCHANGED <<link, phase, step, wired, timers, seen, ate, muted>> /\ SameRing

(* The server reads a line of a streaming connection.                      *)
LEMMA DiscardInv ==
  ASSUME LinkInv, NEW c \in Client, up[c] # << >>, ReadLine(c, up[c]),
         conn[c].streaming, UNCHANGED <<conn, down>>
  PROVE  LinkTypes' /\ ClientInv(c)'
<1>1. LinkTypes /\ ClientInv(c) /\ RingInv
  BY DEF LinkInv
<1>2. Tail(up[c]) \in Seq(CommandType)
  BY <1>1, TailParts DEF LinkTypes
<1>3. LinkTypes'
  <2>1. up' \in [Client -> Seq(CommandType)]
    BY <1>1, <1>2 DEF LinkTypes, ReadLine
  <2> QED
    BY <1>1, <2>1 DEF LinkTypes, ReadLine
<1>4. link[c] = "up"
  BY <1>1 DEF ClientInv, EndsAgree, LinkTypes, NoConn
<1>5. EndsAgree(c)' /\ Found(c)' /\ Greets(c)'
  BY <1>1, <1>4 DEF ClientInv, EndsAgree, Found, Greets, ReadLine
<1>6. Streams(c)' /\ Holds(c)'
  BY <1>1, HorizonKept DEF ClientInv, Streams, Holds, Received, ReadLine
<1>7. Joined(c)'
  BY <1>1, PathIs DEF ClientInv, Joined, ReadLine, SameRing
<1> QED
  BY <1>3, <1>5, <1>6, <1>7 DEF ClientInv

(* The line at the head is the next command of the handshake.              *)
LEMMA NextLine ==
  ASSUME LinkTypes, NEW c \in Client, up[c] # << >>,
         NEW k \in 0 .. LastStep(c) - 1, NEW m \in k .. LastStep(c), Halfway(c, k, m)
  PROVE  /\ m >= k + 1 /\ Head(up[c]) = CommandAt(c, k + 1)
         /\ Len(Tail(up[c])) = Len(up[c]) - 1 /\ Len(up[c]) \in Nat \ {0}
         /\ \A i \in 1 .. Len(up[c]) - 1 : Tail(up[c])[i] = up[c][i + 1]
         /\ Tail(up[c]) \in Seq(CommandType) /\ LastStep(c) \in Nat
<1> DEFINE u == up[c]
           last == LastStep(c)
<1>1. u \in Seq(CommandType) /\ last \in Nat
  <2>1. u \in Seq(CommandType)
    BY DEF LinkTypes
  <2>2. last = Len(Greeting(c)) + 1 /\ Len(Greeting(c)) \in Nat
    BY CommandFacts
  <2> QED
    BY <2>1, <2>2
<1>2. /\ m - k <= Len(u) /\ (m < last => Len(u) = m - k)
      /\ \A i \in 1 .. m - k : u[i] = CommandAt(c, k + i)
      /\ k \in 0 .. last - 1 /\ m \in k .. last
  BY DEF Halfway
<1> HIDE DEF u, last
<1>3. /\ Tail(u) \in Seq(CommandType) /\ Len(Tail(u)) = Len(u) - 1 /\ Len(u) \in Nat \ {0}
      /\ Head(u) = u[1]
      /\ \A i \in 1 .. Len(u) - 1 : Tail(u)[i] = u[i + 1]
  <2>1. u # << >>
    BY DEF u
  <2> QED
    BY <1>1, <2>1, TailParts
<1>4. m >= k + 1
  BY <1>1, <1>2, <1>3
<1>5. u[1] = CommandAt(c, k + 1)
  <2>1. 1 \in 1 .. m - k
    BY <1>1, <1>2, <1>4
  <2> QED
    BY <1>2, <2>1
<1> QED
  BY <1>1, <1>3, <1>4, <1>5 DEF u, last

(* What the server answers with a text: nothing new for the client.        *)
LEMMA Answered ==
  ASSUME LinkTypes, NEW c \in Client, NEW ok \in BOOLEAN,
         \A i \in 1 .. Len(down[c]) : ~IsPacket(down[c][i]),
         seen'[c] = seen[c], down'[c] = Append(down[c], Text(ok)), SameRing, Holds(c)
  PROVE  /\ Append(down[c], Text(ok)) \in Seq(Message)
         /\ \A i \in 1 .. Len(down'[c]) : ~IsPacket(down'[c][i])
         /\ Holds(c)'
<1> DEFINE d == down[c]
           t == Text(ok)
<1>1. d \in Seq(Message) /\ \A i \in 1 .. Len(d) : ~IsPacket(d[i])
  BY DEF LinkTypes
<1>2. t \in Message /\ ~IsPacket(t)
  <2>1. t \in Texts
    BY DEF Text, Texts
  <2> QED
    BY <2>1, ItemTypes DEF Message
<1> HIDE DEF d, t
<1>3. /\ Append(d, t) \in Seq(Message) /\ Len(Append(d, t)) = Len(d) + 1 /\ Len(d) \in Nat
      /\ \A i \in 1 .. Len(d) : Append(d, t)[i] = d[i]
      /\ Append(d, t)[Len(d) + 1] = t
  BY <1>1, <1>2, AppendParts
<1>4. \A i \in 1 .. Len(d) + 1 : ~IsPacket(Append(d, t)[i])
  <2> SUFFICES ASSUME NEW i \in 1 .. Len(d) + 1 PROVE ~IsPacket(Append(d, t)[i])
    OBVIOUS
  <2>1. i \in 1 .. Len(d) \/ i = Len(d) + 1
    BY <1>3
  <2> QED
    BY <1>1, <1>2, <1>3, <2>1
<1>5. \A i \in 1 .. Len(down'[c]) : ~IsPacket(down'[c][i])
  BY <1>3, <1>4 DEF d, t
<1>6. Holds(c)'
  <2>1. \A p \in Range(Append(d, t)) : ~IsPacket(p)
    <3>1. DOMAIN Append(d, t) = 1 .. Len(d) + 1
      BY <1>3
    <3> QED
      BY <1>4, <3>1 DEF Range
  <2>2. \A p \in Received(c)' : p \in Received(c)
    BY <2>1 DEF Received, d, t
  <2> QED
    BY <2>2, HorizonKept DEF Holds
<1> QED
  BY <1>3, <1>5, <1>6 DEF d, t

(* The server reads a line of a connection in its handshake.               *)
Handled(c) ==
  /\ conn' = [conn EXCEPT ![c] = AfterCommand(conn[c], Head(up[c]))]
  /\ down' = [down EXCEPT ![c] = Append(down[c], Text(Head(up[c]).cmd # "HELLO"))]

(* One of the greeting: the connection is built one command further.       *)
LEMMA GreetedInv ==
  ASSUME LinkInv, NEW c \in Client, up[c] # << >>, ReadLine(c, up[c]), Handled(c),
         link[c] = "up", ~conn[c].streaming,
         NEW k \in 0 .. LastStep(c) - 1, NEW m \in k .. LastStep(c), Halfway(c, k, m),
         k + 1 # LastStep(c)
  PROVE  LinkTypes' /\ ClientInv(c)'
<1> DEFINE next == AfterCommand(conn[c], Head(up[c]))
           ok == Head(up[c]).cmd # "HELLO"
<1>1. LinkTypes /\ ClientInv(c) /\ RingInv
  BY DEF LinkInv
<1>2. /\ m >= k + 1 /\ Head(up[c]) = CommandAt(c, k + 1)
      /\ Len(Tail(up[c])) = Len(up[c]) - 1 /\ Len(up[c]) \in Nat \ {0}
      /\ \A i \in 1 .. Len(up[c]) - 1 : Tail(up[c])[i] = up[c][i + 1]
      /\ Tail(up[c]) \in Seq(CommandType) /\ LastStep(c) \in Nat
  BY <1>1, NextLine
<1>3. /\ k + 1 \in 1 .. Len(Greeting(c)) /\ k < Len(Greeting(c)) /\ k \in Nat
      /\ CommandAt(c, k + 1) = Greeting(c)[k + 1] /\ CommandAt(c, k + 1).cmd # "DATA"
      /\ k + 1 \in 0 .. LastStep(c) - 1 /\ m \in (k + 1) .. LastStep(c) /\ m \in Nat
  <2>1. Len(Greeting(c)) \in Nat /\ LastStep(c) = Len(Greeting(c)) + 1
    BY <1>1, CommandFacts
  <2>2. /\ k + 1 \in 1 .. Len(Greeting(c)) /\ k < Len(Greeting(c)) /\ k \in Nat
        /\ k + 1 \in 0 .. LastStep(c) - 1 /\ m \in (k + 1) .. LastStep(c) /\ m \in Nat
    BY <1>2, <2>1
  <2> QED
    BY <1>1, <2>2, CommandFacts
<1>4. Built(c, k + 1, next)
  <2>1. Built(c, k, conn[c])
    BY DEF Halfway
  <2>2. Built(c, k + 1, AfterCommand(conn[c], Greeting(c)[k + 1]))
    BY <1>3, <2>1, BuiltStep
  <2> QED
    BY <1>2, <1>3, <2>2
<1>5. next \in Conn /\ next.open /\ ~next.streaming
  BY <1>4 DEF Built
<1>6. \A i \in 1 .. Len(down[c]) : ~IsPacket(down[c][i])
  BY <1>1 DEF ClientInv, Greets
<1> HIDE DEF next, ok
<1>7. ok \in BOOLEAN
  BY DEF ok
<1>8. /\ conn' = [conn EXCEPT ![c] = next] /\ down' = [down EXCEPT ![c] = Append(down[c], Text(ok))]
      /\ up' = [up EXCEPT ![c] = Tail(up[c])]
      /\ UNCHANGED <<link, phase, step, wired, timers, seen, ate, muted>> /\ SameRing
  BY DEF ReadLine, Handled, next, ok
<1>9. /\ conn'[c] = next /\ down'[c] = Append(down[c], Text(ok)) /\ up'[c] = Tail(up[c])
      /\ epoch' = epoch
  BY <1>1, <1>8 DEF LinkTypes, SameRing
<1>10. /\ Append(down[c], Text(ok)) \in Seq(Message) /\ Holds(c)'
       /\ \A i \in 1 .. Len(down'[c]) : ~IsPacket(down'[c][i])
  BY <1>1, <1>6, <1>7, <1>8, <1>9, Answered DEF ClientInv
<1>11. LinkTypes'
  <2>1. conn' \in [Client -> Conn \union {NoConn}]
    BY <1>1, <1>5, <1>8 DEF LinkTypes
  <2>2. up' \in [Client -> Seq(CommandType)] /\ down' \in [Client -> Seq(Message)]
    BY <1>1, <1>2, <1>8, <1>10 DEF LinkTypes
  <2> QED
    BY <1>1, <1>8, <2>1, <2>2 DEF LinkTypes
<1>12. EndsAgree(c)' /\ Streams(c)'
  BY <1>1, <1>5, <1>8, <1>9 DEF ClientInv, EndsAgree, Streams
<1>13. Found(c)'
  <2> SUFFICES ASSUME phase[c] = "loop", ~(timers[c] > 0), ~muted[c]
               PROVE  wired[c] /\ \E i \in DOMAIN up'[c] : up'[c][i].cmd = "DATA"
    BY <1>8 DEF Found
  <2>1. wired[c] /\ \E i \in DOMAIN up[c] : up[c][i].cmd = "DATA"
    BY <1>1 DEF ClientInv, Found
  <2>2. PICK i \in DOMAIN up[c] : up[c][i].cmd = "DATA"
    BY <2>1
  <2>3. up[c] \in Seq(CommandType)
    BY <1>1 DEF LinkTypes
  <2>4. up[c][1] = Head(up[c]) /\ DOMAIN up[c] = 1 .. Len(up[c])
        /\ DOMAIN Tail(up[c]) = 1 .. Len(up[c]) - 1
    BY <1>2, <2>3
  <2>5. i # 1
    BY <1>2, <1>3, <2>2, <2>4
  <2>6. i - 1 \in 1 .. Len(up[c]) - 1 /\ (i - 1) + 1 = i
    BY <1>2, <2>2, <2>4, <2>5
  <2>7. Tail(up[c])[i - 1] = up[c][i]
    BY <1>2, <2>6
  <2> QED
    BY <1>9, <2>1, <2>2, <2>4, <2>6, <2>7
<1>14. Greets(c)'
  <2>1. \A i : CommandAt(c, i)' = CommandAt(c, i)
    BY <1>8 DEF CommandAt, DataCommand
  <2>2. Halfway(c, k + 1, m)'
    <3>1. /\ m - k <= Len(up[c]) /\ (m < LastStep(c) => Len(up[c]) = m - k)
          /\ \A i \in 1 .. m - k : up[c][i] = CommandAt(c, k + i)
          /\ phase[c] = "handshake" => m = step[c]
      BY DEF Halfway
    <3>2. \A i \in 1 .. m - (k + 1) : Tail(up[c])[i] = CommandAt(c, (k + 1) + i)
      <4> SUFFICES ASSUME NEW i \in 1 .. m - (k + 1)
                   PROVE  Tail(up[c])[i] = CommandAt(c, (k + 1) + i)
        OBVIOUS
      <4>1. i \in 1 .. Len(up[c]) - 1 /\ i + 1 \in 1 .. m - k /\ k + (i + 1) = (k + 1) + i
        <5>1. m \in Nat /\ k \in Nat /\ Len(up[c]) \in Nat /\ m - k <= Len(up[c])
          BY <1>2, <1>3, <3>1
        <5> QED
          BY <5>1
      <4>2. up[c][i + 1] = CommandAt(c, k + (i + 1))
        BY <3>1, <4>1
      <4> QED
        BY <1>2, <4>1, <4>2
    <3>3. m - (k + 1) <= Len(Tail(up[c])) /\ (m < LastStep(c) => Len(Tail(up[c])) = m - (k + 1))
      BY <1>2, <1>3, <3>1
    <3> QED
      BY <1>4, <1>8, <1>9, <2>1, <3>1, <3>2, <3>3 DEF Halfway
  <2> QED
    BY <1>3, <1>10, <2>2 DEF Greets
<1>15. Joined(c)'
  <2> DEFINE x == seen[c]
             d == down[c]
             t == Text(ok)
             y == CursorOf(conn[c], epoch)
             z == CursorOf(next, epoch)
  <2>1. x \in Items /\ d \in Seq(Items)
    BY <1>1, ItemsOf DEF LinkTypes
  <2>2. t \in Items /\ ~IsPacket(t)
    <3>1. t \in Texts
      BY <1>7 DEF Text, Texts
    <3> QED
      BY <3>1, ItemTypes
  <2>3. y \in Items /\ z \in Items /\ ~IsPacket(z)
    <3>1. conn[c] \in Conn \union {NoConn} /\ next \in Conn \union {NoConn}
          /\ epoch \in 1 .. MaxEpoch
      BY <1>1, <1>5 DEF LinkTypes, RingInv
    <3> QED
      BY <1>5, <3>1, CursorItem
  <2>4. Linked(c, Way(x, d, y), ate[c])
    BY <1>1, PathIs DEF ClientInv, Joined
  <2> HIDE DEF x, d, t, y, z
  <2>5. Linked(c, Way(x, Append(d, t), z), ate[c])
    BY <2>1, <2>2, <2>3, <2>4, LinkedText
  <2> QED
    BY <1>8, <1>9, <2>5, PathIs DEF Joined, x, d, t, z
<1> QED
  BY <1>10, <1>11, <1>12, <1>13, <1>14, <1>15 DEF ClientInv

(* DATA: the connection streams from now on.                               *)
LEMMA StartedInv ==
  ASSUME LinkInv, NEW c \in Client, up[c] # << >>, ReadLine(c, up[c]), Handled(c),
         link[c] = "up", ~conn[c].streaming, Built(c, Len(Greeting(c)), conn[c]),
         Head(up[c]) = DataCommand(c)
  PROVE  LinkTypes' /\ ClientInv(c)'
<1> DEFINE s == seen[c]
           line == Head(up[c])
           next == Started(conn[c], line)
<1>1. LinkTypes /\ ClientInv(c) /\ RingInv
  BY DEF LinkInv
<1>2. s \in Packets \union {NoPacket} /\ s \in Items /\ down[c] \in Seq(Message)
      /\ down[c] \in Seq(Items) /\ conn[c] \in Conn \union {NoConn} /\ up[c] \in Seq(CommandType)
      /\ epoch \in 1 .. MaxEpoch
  <2>1. s \in Packets \union {NoPacket} /\ down[c] \in Seq(Message)
        /\ conn[c] \in Conn \union {NoConn} /\ up[c] \in Seq(CommandType)
    BY <1>1 DEF LinkTypes
  <2> QED
    BY <1>1, <2>1, ItemsOf DEF RingInv
<1>3. s # NoPacket => IsPacket(s) /\ Kept(c, s)
  <2> SUFFICES ASSUME s # NoPacket PROVE IsPacket(s) /\ Kept(c, s)
    OBVIOUS
  <2>1. IsPacket(s)
    BY <1>2, ItemTypes
  <2>2. s \in Received(c)
    BY <2>1 DEF Received
  <2> QED
    BY <1>1, <2>1, <2>2 DEF ClientInv, Holds
<1>4. /\ AfterCommand(conn[c], line) = next /\ line.cmd # "HELLO"
      /\ line.seq = IF s = NoPacket THEN NoSeq ELSE (s.wire + 1) % SeqSpace
      /\ line.from = IF s = NoPacket THEN Nowhere ELSE [epoch |-> s.epoch, num |-> s.num + 1]
  <2>1. /\ line.cmd = "DATA"
        /\ line.seq = IF s = NoPacket THEN NoSeq ELSE (s.wire + 1) % SeqSpace
        /\ line.from = IF s = NoPacket THEN Nowhere
                       ELSE [epoch |-> s.epoch, num |-> s.num + 1]
    BY DEF DataCommand, Command
  <2> HIDE DEF line
  <2>2. AfterCommand(conn[c], line) = Started(conn[c], line)
    BY <2>1, CommandCases
  <2> QED
    BY <2>1, <2>2
<1>5. /\ Ready(c, next)
      /\ s # NoPacket /\ s.epoch = epoch =>
           next.at = s.num + 1 \/ (next.at > s.num /\ next.jumped)
  <2> HIDE DEF line, s
  <2> QED
    BY <1>1, <1>2, <1>3, <1>4, StartedFacts
<1> HIDE DEF next
<1>6. next \in Conn /\ next.open /\ next.streaming
  BY <1>5 DEF Ready
<1>7. /\ conn' = [conn EXCEPT ![c] = next]
      /\ down' = [down EXCEPT ![c] = Append(down[c], Text(TRUE))]
      /\ up' = [up EXCEPT ![c] = Tail(up[c])]
      /\ UNCHANGED <<link, phase, step, wired, timers, seen, ate, muted>> /\ SameRing
  BY <1>4 DEF ReadLine, Handled
<1>8. conn'[c] = next /\ down'[c] = Append(down[c], Text(TRUE)) /\ epoch' = epoch /\ seen'[c] = s
  BY <1>1, <1>7 DEF LinkTypes, SameRing
<1>9. \A i \in 1 .. Len(down[c]) : ~IsPacket(down[c][i])
  BY <1>1 DEF ClientInv, Greets
<1>10. /\ Append(down[c], Text(TRUE)) \in Seq(Message) /\ Holds(c)'
       /\ \A i \in 1 .. Len(down'[c]) : ~IsPacket(down'[c][i])
  BY <1>1, <1>7, <1>8, <1>9, Answered DEF ClientInv
<1>11. LinkTypes'
  <2>1. conn' \in [Client -> Conn \union {NoConn}]
    BY <1>1, <1>6, <1>7 DEF LinkTypes
  <2>2. Tail(up[c]) \in Seq(CommandType)
    BY <1>2, TailParts
  <2>3. up' \in [Client -> Seq(CommandType)] /\ down' \in [Client -> Seq(Message)]
    BY <1>1, <1>7, <1>10, <2>2 DEF LinkTypes
  <2> QED
    BY <1>1, <1>7, <2>1, <2>3 DEF LinkTypes
<1>12. EndsAgree(c)' /\ Greets(c)' /\ Found(c)'
  BY <1>1, <1>6, <1>7, <1>8 DEF ClientInv, EndsAgree, Greets, Found
<1>13. Streams(c)'
  BY <1>5, <1>7, <1>8, HorizonKept DEF Streams
<1>14. Joined(c)'
  <2> DEFINE d == Append(down[c], Text(TRUE))
             z == CursorOf(next, epoch)
  <2>1. d \in Seq(Items) /\ \A i \in 1 .. Len(d) : ~IsPacket(d[i])
    BY <1>8, <1>10, ItemTypes
  <2>2. /\ z \in Items /\ z.num = next.at /\ next.at \in Nat /\ z.epoch = epoch
        /\ z.jumped = next.jumped
    <3>1. next \in Conn \union {NoConn}
      BY <1>6
    <3> QED
      BY <1>2, <1>6, <3>1, CursorItem
  <2> HIDE DEF d, z
  <2>3. IsPacket(s) => Earlier(s, z) /\ Excused(c, s, z)
    <3> SUFFICES ASSUME IsPacket(s) PROVE Earlier(s, z) /\ Excused(c, s, z)
      OBVIOUS
    <3>1. s # NoPacket /\ s \in Packets
      BY <1>2, ItemTypes
    <3>2. s.num \in Nat /\ s.epoch \in Nat /\ epoch \in Nat /\ s.epoch <= epoch
      BY <1>2, <1>3, <3>1, LinkAssumption DEF Packets, Kept
    <3>3. CASE s.epoch # epoch
      <4>1. Earlier(s, z)
        BY <2>2, <3>2, <3>3 DEF Earlier
      <4>2. Missing(c, s, z) = {}
        BY <2>2, <3>3 DEF Missing
      <4> QED
        BY <4>1, <4>2 DEF Excused
    <3>4. CASE s.epoch = epoch
      <4>1. z.num = s.num + 1 \/ (z.num > s.num /\ z.jumped)
        BY <1>5, <2>2, <3>1, <3>4
      <4>2. Earlier(s, z)
        BY <2>2, <3>2, <3>4, <4>1 DEF Earlier
      <4>3. z.num = s.num + 1 => Missing(c, s, z) = {}
        <5>1. z.num = s.num + 1 => (s.num + 1) .. (z.num - 1) = {}
          BY <2>2, <3>2
        <5> QED
          BY <5>1 DEF Missing
      <4> QED
        BY <4>1, <4>2, <4>3 DEF Excused
    <3> QED
      BY <3>3, <3>4
  <2>4. Linked(c, Way(s, d, z), ate[c])
    <3> HIDE DEF s
    <3> QED
      BY <1>2, <2>1, <2>2, <2>3, LinkedFirst
  <2> QED
    BY <1>7, <1>8, <2>4, PathIs DEF Joined, d, z
<1> QED
  BY <1>10, <1>11, <1>12, <1>13, <1>14 DEF ClientInv

(* The server reads a line.                                                *)
LEMMA ServeInv ==
  ASSUME LinkInv, NEW c \in Client, Serve(c)
  PROVE  LinkInv'
<1>1. LinkTypes /\ ClientInv(c) /\ RingInv
  BY DEF LinkInv
<1>2. /\ conn[c].open /\ up[c] # << >> /\ ReadLine(c, up[c])
      /\ conn[c].streaming => UNCHANGED <<conn, down>>
      /\ ~conn[c].streaming => Handled(c)
  BY DEF Serve, ServerRead, clientVars, ReadLine, SameRing, Handled
<1>3. link[c] = "up"
  BY <1>1, <1>2 DEF ClientInv, EndsAgree
<1>4. LinkTypes' /\ ClientInv(c)'
  <2>1. CASE conn[c].streaming
    BY <1>2, <2>1, DiscardInv
  <2>2. CASE ~conn[c].streaming
    <3>1. PICK k \in 0 .. LastStep(c) - 1 : \E m \in k .. LastStep(c) : Halfway(c, k, m)
      BY <1>1, <1>3, <2>2 DEF ClientInv, Greets
    <3>2. PICK m \in k .. LastStep(c) : Halfway(c, k, m)
      BY <3>1
    <3>3. CASE k + 1 # LastStep(c)
      BY <1>2, <1>3, <2>2, <3>2, <3>3, GreetedInv
    <3>4. CASE k + 1 = LastStep(c)
      <4>1. Head(up[c]) = CommandAt(c, k + 1)
        BY <1>1, <1>2, <3>2, NextLine
      <4>2. LastStep(c) = Len(Greeting(c)) + 1 /\ Len(Greeting(c)) \in Nat
            /\ CommandAt(c, LastStep(c)) = DataCommand(c)
        BY <1>1, CommandFacts
      <4>3. k = Len(Greeting(c))
        BY <3>4, <4>2
      <4>4. Built(c, Len(Greeting(c)), conn[c])
        BY <3>2, <4>3 DEF Halfway
      <4>5. Head(up[c]) = DataCommand(c)
        BY <3>4, <4>1, <4>2
      <4> QED
        BY <1>2, <1>3, <2>2, <4>4, <4>5, StartedInv
    <3> QED
      BY <3>3, <3>4
  <2> QED
    BY <2>1, <2>2
<1>5. Touches(c)
  <2>1. SameRing /\ up' = [up EXCEPT ![c] = Tail(up[c])]
        /\ UNCHANGED <<link, phase, step, wired, timers, seen, ate, muted>>
    BY <1>2 DEF ReadLine
  <2>2. \A b \in Client \ {c} : conn'[b] = conn[b] /\ down'[b] = down[b]
    <3>1. CASE conn[c].streaming
      BY <1>2, <3>1
    <3>2. CASE ~conn[c].streaming
      BY <1>1, <1>2, <3>2 DEF Handled, LinkTypes
    <3> QED
      BY <3>1, <3>2
  <2> QED
    BY <1>1, <2>1, <2>2 DEF Touches, Same, LinkTypes
<1> QED
  BY <1>4, <1>5, OneClient

(* One tick of the pump for a client whose connection streams.             *)
LEMMA PumpedInv ==
  ASSUME LinkInv, NEW c \in Client, conn[c].streaming, SameRing,
         UNCHANGED <<link, up, phase, step, wired, timers, seen, ate, muted>>,
         conn'[c] = Pumped(conn[c]), down'[c] = down[c] \o Batch(conn[c])
  PROVE  conn'[c] \in Conn /\ down'[c] \in Seq(Message) /\ ClientInv(c)'
<1> DEFINE cl == conn[c]
           next == Pumped(cl)
           b == Batch(cl)
           d == down[c]
           x == seen[c]
           y == CursorOf(cl, epoch)
           z == CursorOf(next, epoch)
<1>1. LinkTypes /\ ClientInv(c) /\ RingInv
  BY DEF LinkInv
<1>2. Ready(c, cl)
  BY <1>1 DEF ClientInv, Streams
<1> HIDE DEF next, b
<1>3. /\ b \in Seq(Packets) /\ \A j \in 1 .. Len(b) : Fits(c, b[j], cl.at, produced)
      /\ Ready(c, next) /\ next.at = produced /\ next.jumped \in BOOLEAN
      /\ (Len(b) = 0 /\ next.jumped) \/ Delivers(c, b, epoch, cl.at, produced)
      /\ cl.jumped => IF Len(b) = 0 THEN next.jumped ELSE b[1].jumped
  <2> HIDE DEF cl
  <2> QED
    BY <1>1, <1>2, PumpFacts DEF b, next
<1>4. /\ x \in Packets \union {NoPacket} /\ d \in Seq(Message) /\ x \in Items /\ d \in Seq(Items)
      /\ epoch \in 1 .. MaxEpoch
  <2>1. x \in Packets \union {NoPacket} /\ d \in Seq(Message)
    BY <1>1 DEF LinkTypes
  <2> QED
    BY <1>1, <2>1, ItemsOf DEF RingInv
<1>5. /\ cl \in Conn /\ next \in Conn /\ cl.open /\ next.open /\ next.streaming
      /\ cl.at \in Nat /\ cl.at <= produced /\ InHorizon(cl.at) /\ produced \in Nat
  BY <1>1, <1>2, <1>3, RingFields DEF Ready, Conn
<1>6. b \in Seq(Items) /\ b \in Seq(Message)
  BY <1>3, ItemTypes
<1>7. /\ d \o b \in Seq(Message) /\ Len(d \o b) = Len(d) + Len(b)
      /\ Len(d) \in Nat /\ Len(b) \in Nat
      /\ \A k \in 1 .. Len(d) : (d \o b)[k] = d[k]
      /\ \A k \in 1 .. Len(b) : (d \o b)[Len(d) + k] = b[k]
  BY <1>4, <1>6, ConcatParts
<1>8. conn'[c] = next /\ down'[c] = d \o b /\ epoch' = epoch /\ seen'[c] = x
  BY DEF next, b, SameRing
<1>9. EndsAgree(c)' /\ Greets(c)' /\ Found(c)'
  BY <1>1, <1>5, <1>8 DEF ClientInv, EndsAgree, Greets, Found
<1>10. Streams(c)'
  BY <1>3, <1>8, HorizonKept DEF Streams
<1>11. Holds(c)'
  <2>1. ASSUME NEW j \in 1 .. Len(b) PROVE Kept(c, b[j])
    <3>1. Fits(c, b[j], cl.at, produced) /\ b[j] \in Packets
      BY <1>3
    <3>2. b[j].num \in Nat /\ b[j].num \in cl.at .. (produced - 1)
      BY <3>1 DEF Packets, Fits
    <3>3. InHorizon(b[j].num + 1) /\ b[j].num < produced
      BY <1>1, <1>5, <3>2, RingFields, RingBounds, SMTT(30) DEF InHorizon
    <3>4. epoch <= epoch
      BY <1>4
    <3> QED
      BY <3>1, <3>3, <3>4 DEF Fits, Kept
  <2>2. \A p \in Range(d \o b) : p \in Range(d) \/ \E j \in 1 .. Len(b) : p = b[j]
    <3> SUFFICES ASSUME NEW k \in 1 .. Len(d) + Len(b)
                 PROVE  (d \o b)[k] \in Range(d) \/ \E j \in 1 .. Len(b) : (d \o b)[k] = b[j]
      BY <1>7 DEF Range
    <3>1. CASE k \in 1 .. Len(d)
      BY <1>4, <1>7, <3>1 DEF Range
    <3>2. CASE k \notin 1 .. Len(d)
      <4>1. k - Len(d) \in 1 .. Len(b) /\ Len(d) + (k - Len(d)) = k
        BY <1>7, <3>2
      <4> QED
        BY <1>7, <4>1
    <3> QED
      BY <3>1, <3>2
  <2>3. ASSUME NEW p \in Received(c)' PROVE Kept(c, p)
    <3>1. p \in Received(c) \/ \E j \in 1 .. Len(b) : p = b[j]
      BY <1>8, <2>2, <2>3 DEF Received
    <3> QED
      BY <1>1, <2>1, <3>1 DEF ClientInv, Holds
  <2> QED
    BY <2>3, HorizonKept DEF Holds
<1>12. Joined(c)'
  <2>1. /\ y \in Items /\ IsPacket(y) /\ y.num = cl.at /\ y.epoch = epoch /\ y.jumped = cl.jumped
        /\ z \in Items /\ IsPacket(z) /\ z.num = next.at /\ z.epoch = epoch
        /\ z.jumped = next.jumped
    <3>1. cl \in Conn \union {NoConn} /\ next \in Conn \union {NoConn}
      BY <1>5
    <3>2. next.streaming /\ cl.streaming
      BY <1>5
    <3> HIDE DEF cl
    <3> QED
      BY <1>4, <3>1, <3>2, CursorItem
  <2>2. Linked(c, Way(x, d, y), ate[c])
    BY <1>1, PathIs DEF ClientInv, Joined
  <2> HIDE DEF cl, d, x, y, z
  <2>3. /\ z.epoch = y.epoch /\ y.num <= z.num
        /\ (Len(b) = 0 /\ z.jumped) \/ Delivers(c, b, y.epoch, y.num, z.num)
        /\ y.jumped => IF Len(b) = 0 THEN z.jumped ELSE b[1].jumped
    BY <1>3, <1>5, <2>1
  <2>4. \A p \in Items : IsPacket(p) => p.num \in Nat /\ p.epoch \in Nat
    BY ItemTypes
  <2>5. Linked(c, Way(x, d \o b, z), ate[c])
    BY <1>4, <1>6, <2>1, <2>2, <2>3, <2>4, LinkedBatch
  <2> QED
    BY <1>8, <2>5, PathIs DEF Joined, x, d, z
<1> QED
  BY <1>5, <1>7, <1>8, <1>9, <1>10, <1>11, <1>12 DEF ClientInv

(* One tick of the pump.                                                   *)
LEMMA PumpInv ==
  ASSUME LinkInv, Pump
  PROVE  LinkInv'
<1>1. LinkTypes /\ RingInv /\ \A c \in Client : ClientInv(c)
  BY DEF LinkInv
<1>2. /\ conn' = [c \in Client |-> IF conn[c].streaming THEN Pumped(conn[c]) ELSE conn[c]]
      /\ down' = [c \in Client |-> IF conn[c].streaming THEN down[c] \o Batch(conn[c])
                                                         ELSE down[c]]
      /\ SameRing /\ UNCHANGED <<link, up, phase, step, wired, timers, seen, ate, muted>>
  BY DEF Pump, PumpClients, clientVars, SameRing
<1>3. ASSUME NEW c \in Client
      PROVE  /\ conn'[c] \in Conn \union {NoConn} /\ down'[c] \in Seq(Message)
             /\ ClientInv(c)'
  <2>1. CASE conn[c].streaming
    <3>1. conn'[c] = Pumped(conn[c]) /\ down'[c] = down[c] \o Batch(conn[c])
      BY <1>2, <2>1
    <3> QED
      BY <1>2, <2>1, <3>1, PumpedInv
  <2>2. CASE ~conn[c].streaming
    <3>1. conn'[c] = conn[c] /\ down'[c] = down[c]
      BY <1>2, <2>2
    <3>2. conn[c] \in Conn \union {NoConn} /\ down[c] \in Seq(Message)
      BY <1>1 DEF LinkTypes
    <3>3. Same(c)
      BY <1>2, <3>1 DEF Same
    <3> QED
      BY <1>1, <1>2, <3>1, <3>2, <3>3, OthersKept
  <2> QED
    BY <2>1, <2>2
<1>4. LinkTypes'
  <2>1. conn' \in [Client -> Conn \union {NoConn}] /\ down' \in [Client -> Seq(Message)]
    <3>1. DOMAIN conn' = Client /\ DOMAIN down' = Client
      BY <1>2
    <3>2. conn' = [c \in Client |-> conn'[c]] /\ down' = [c \in Client |-> down'[c]]
      BY <1>2, <3>1
    <3> QED
      BY <1>3, <3>2
  <2> QED
    BY <1>1, <1>2, <2>1 DEF LinkTypes
<1> QED
  BY <1>1, <1>2, <1>3, <1>4, RingKept DEF LinkInv

(* A record of the feed pushes the oldest one out, but no number a client  *)
(* has or stands at beyond the horizon.                                    *)
LEMMA FeedInv ==
  ASSUME LinkInv, Feed
  PROVE  LinkInv'
<1>1. LinkTypes /\ RingInv /\ \A c \in Client : ClientInv(c)
  BY DEF LinkInv
<1>2. /\ Ingest /\ UNCHANGED <<epoch, conn, link, up, down>> /\ produced' = produced + 1
      /\ UNCHANGED <<phase, step, wired, timers, seen, ate, muted>>
      /\ \A c \in Client : conn[c].streaming => Near(conn[c].at)
      /\ \A c \in Client : \A p \in Received(c) : p.epoch = epoch => Near(p.num + 1)
  BY DEF Feed, Ingest, Push, clientVars
<1>3. RingInv'
  BY <1>1, <1>2, IngestRing
<1>4. /\ produced \in Nat /\ Oldest \in Nat /\ Oldest' \in Nat /\ Oldest' >= Oldest
      /\ Cap \in Nat /\ Half \in Nat /\ SeqSpace \in Nat /\ Half < SeqSpace
      /\ Oldest' = IF produced + 1 < Cap THEN 0 ELSE produced + 1 - Cap
  <2>1. /\ produced \in Nat /\ count \in Nat
        /\ count = (IF produced < Cap THEN produced ELSE Cap)
        /\ Cap \in Nat \ {0} /\ Half \in Nat /\ SeqSpace \in Nat /\ Half < SeqSpace
    BY <1>1, RingFields, RingBounds
  <2>2. count' = IF count < Cap THEN count + 1 ELSE count
    BY <1>2 DEF Ingest, Push, NextCount
  <2> QED
    BY <1>2, <2>1, <2>2 DEF Oldest
<1>5. ASSUME NEW c \in Client PROVE ClientInv(c)'
  <2>1. EndsAgree(c)' /\ Found(c)' /\ Greets(c)'
    <3>1. \A i : CommandAt(c, i)' = CommandAt(c, i)
      BY <1>2 DEF CommandAt, DataCommand
    <3>2. \A k, m : Halfway(c, k, m) => Halfway(c, k, m)'
      BY <1>2, <3>1 DEF Halfway
    <3> QED
      BY <1>1, <1>2, <3>2 DEF ClientInv, EndsAgree, Found, Greets
  <2>2. Streams(c)'
    <3> SUFFICES ASSUME conn[c].streaming PROVE Ready(c, conn[c])'
      BY <1>2 DEF Streams
    <3>1. Ready(c, conn[c]) /\ conn[c].at \in Nat
      BY <1>1 DEF ClientInv, Streams, Ready, Conn
    <3>2. InHorizon(conn[c].at)'
      <4> DEFINE n == conn[c].at
      <4>1. n \in Nat /\ InHorizon(n) /\ Near(n) /\ n' = n
        BY <1>2, <3>1 DEF Ready
      <4> HIDE DEF n
      <4>2. Oldest' - (SeqSpace - Half) <= n /\ n < Oldest' + Half
        BY <1>4, <4>1 DEF InHorizon, Near
      <4> QED
        BY <4>1, <4>2 DEF InHorizon, n
    <3>3. conn[c].at <= produced'
      BY <1>2, <1>4, <3>1 DEF Ready
    <3> QED
      BY <1>2, <3>1, <3>2, <3>3 DEF Ready
  <2>3. Holds(c)'
    <3> SUFFICES ASSUME NEW p \in Received(c) PROVE Kept(c, p)'
      BY <1>2 DEF Holds, Received
    <3>1. Kept(c, p)
      BY <1>1 DEF ClientInv, Holds
    <3>2. p.epoch = epoch => p.num < produced' /\ InHorizon(p.num + 1)'
      <4> SUFFICES ASSUME p.epoch = epoch PROVE p.num < produced' /\ InHorizon(p.num + 1)'
        OBVIOUS
      <4>1. p \in Packets
        <5>1. seen[c] \in Packets \union {NoPacket} /\ down[c] \in Seq(Message)
          BY <1>1 DEF LinkTypes
        <5> QED
          BY <5>1, ReceivedFacts DEF Received, ReceivedOf
      <4>2. p.num \in Nat /\ p.num < produced /\ InHorizon(p.num + 1) /\ Near(p.num + 1)
        BY <1>2, <3>1, <4>1 DEF Packets, Kept
      <4>3. InHorizon(p.num + 1)'
        BY <1>4, <4>2 DEF InHorizon, Near
      <4> QED
        BY <1>2, <1>4, <4>2, <4>3
    <3> QED
      BY <1>2, <3>1, <3>2 DEF Kept
  <2>4. Joined(c)'
    <3>1. Path(c)' = Path(c) /\ ate'[c] = ate[c]
      BY <1>2 DEF Path, Cursor
    <3> QED
      BY <1>1, <3>1 DEF ClientInv, Joined
  <2> QED
    BY <2>1, <2>2, <2>3, <2>4 DEF ClientInv
<1>6. LinkTypes'
  BY <1>1, <1>2 DEF LinkTypes
<1> QED
  BY <1>3, <1>5, <1>6 DEF LinkInv

-----------------------------------------------------------------------------
(* The client waits for a reply.                                           *)

(* What it does whatever the reply means: n messages are gone, and a link  *)
(* found closed is closed, or all of it is gone with the socket.           *)
Taken(c, n) ==
  /\ phase[c] = "handshake"
  /\ Take(c, n) \/ WriteFails(c)
  /\ ate' = [ate EXCEPT ![c] = @ \/ \E i \in 1 .. n : IsPacket(down[c][i])]
  /\ UNCHANGED <<conn, seen>> /\ SameRing

LEMMA TakeInv ==
  ASSUME LinkInv, NEW c \in Client, NEW n \in 0 .. Len(down[c]), Taken(c, n), Take(c, n)
  PROVE  /\ down' \in [Client -> Seq(Message)] /\ ate' \in [Client -> BOOLEAN]
         /\ link' \in [Client -> {"up", "lost", "none"}]
         /\ link'[c] = "up" <=> link[c] = "up"
         /\ link'[c] = "none" => down'[c] = << >>
         /\ (n > 0 => link'[c] = link[c] /\ link[c] # "none")
         /\ (\A i \in 1 .. Len(down[c]) : ~IsPacket(down[c][i])) =>
              \A i \in 1 .. Len(down'[c]) : ~IsPacket(down'[c][i])
         /\ Holds(c)' /\ Joined(c)' /\ Streams(c)'
<1> DEFINE x == seen[c]
           d == down[c]
           r == SubSeq(d, n + 1, Len(d))
           y == CursorOf(conn[c], epoch)
           a == ate[c]
           b == a \/ \E i \in 1 .. n : IsPacket(d[i])
<1>1. LinkTypes /\ ClientInv(c) /\ RingInv
  BY DEF LinkInv
<1>2. /\ x \in Packets \union {NoPacket} /\ d \in Seq(Message) /\ x \in Items
      /\ d \in Seq(Items) /\ a \in BOOLEAN /\ link[c] \in {"up", "lost", "none"}
      /\ epoch \in 1 .. MaxEpoch /\ conn[c] \in Conn \union {NoConn} /\ n \in 0 .. Len(d)
  <2>1. /\ x \in Packets \union {NoPacket} /\ d \in Seq(Message) /\ a \in BOOLEAN
        /\ link[c] \in {"up", "lost", "none"} /\ conn[c] \in Conn \union {NoConn}
    BY <1>1 DEF LinkTypes
  <2> QED
    BY <1>1, <2>1, ItemsOf DEF RingInv
<1>3. y \in Items
  BY <1>2, CursorItem
<1>4. Linked(c, Way(x, d, y), a)
  BY <1>1, PathIs DEF ClientInv, Joined
<1>5. /\ down' = [down EXCEPT ![c] = r] /\ ate' = [ate EXCEPT ![c] = b]
      /\ link' = [link EXCEPT ![c] = IF n = 0 /\ link[c] = "lost" /\ d = << >> THEN "none"
                                     ELSE link[c]]
      /\ UNCHANGED <<conn, seen>> /\ SameRing
  BY DEF Taken, Take
<1>6. /\ down'[c] = r /\ ate'[c] = b /\ conn'[c] = conn[c] /\ seen'[c] = x /\ epoch' = epoch
      /\ link'[c] = IF n = 0 /\ link[c] = "lost" /\ d = << >> THEN "none" ELSE link[c]
  BY <1>1, <1>5 DEF LinkTypes, SameRing
<1> HIDE DEF x, d, r, y, a, b
<1>7. /\ r \in Seq(Message) /\ Len(r) = Len(d) - n /\ Len(d) \in Nat
      /\ \A k \in 1 .. Len(d) - n : r[k] = d[k + n]
  BY <1>2, RestParts DEF r
<1>8. b \in BOOLEAN
  BY <1>2 DEF b
<1>9. down' \in [Client -> Seq(Message)] /\ ate' \in [Client -> BOOLEAN]
      /\ link' \in [Client -> {"up", "lost", "none"}]
  BY <1>1, <1>5, <1>7, <1>8 DEF LinkTypes
<1>10. link'[c] = "up" <=> link[c] = "up"
  BY <1>2, <1>6
<1>11. link[c] = "none" => d = << >> /\ Len(d) = 0
  BY <1>1 DEF ClientInv, EndsAgree, d
<1>12. link'[c] = "none" => down'[c] = << >>
  <2> SUFFICES ASSUME link'[c] = "none" PROVE r = << >>
    BY <1>6
  <2>1. d = << >> /\ Len(d) = 0
    BY <1>6, <1>11
  <2>2. Len(r) = 0
    BY <1>2, <1>7, <2>1
  <2> QED
    BY <1>7, <2>2
<1>13. n > 0 => link'[c] = link[c] /\ link[c] # "none"
  BY <1>2, <1>6, <1>11
<1>14. \A i \in 1 .. Len(r) : i + n \in 1 .. Len(d) /\ r[i] = d[i + n]
  <2> SUFFICES ASSUME NEW i \in 1 .. Len(r) PROVE i + n \in 1 .. Len(d) /\ r[i] = d[i + n]
    OBVIOUS
  <2>1. i \in 1 .. Len(d) - n /\ i + n \in 1 .. Len(d)
    BY <1>2, <1>7
  <2> QED
    BY <1>7, <2>1
<1>15. (\A i \in 1 .. Len(down[c]) : ~IsPacket(down[c][i])) =>
          \A i \in 1 .. Len(down'[c]) : ~IsPacket(down'[c][i])
  BY <1>6, <1>14 DEF d
<1>16. Holds(c)'
  <2>1. \A p \in Range(r) : p \in Range(d)
    <3>1. DOMAIN r = 1 .. Len(r) /\ DOMAIN d = 1 .. Len(d)
      BY <1>2, <1>7
    <3> QED
      BY <1>14, <3>1 DEF Range
  <2>2. \A p \in Received(c)' : p \in Received(c)
    BY <1>6, <2>1 DEF Received, d, x
  <2> QED
    BY <1>1, <1>5, <2>2, HorizonKept DEF ClientInv, Holds
<1>17. Joined(c)'
  <2>1. Linked(c, Way(x, r, y), b)
    BY <1>2, <1>3, <1>4, LinkedDrop DEF r, b
  <2> QED
    BY <1>6, <2>1, PathIs DEF Joined, x, y
<1>18. Streams(c)'
  BY <1>1, <1>5, HorizonKept DEF ClientInv, Streams
<1> QED
  BY <1>9, <1>10, <1>12, <1>13, <1>15, <1>16, <1>17, <1>18

LEMMA WriteFailsInv ==
  ASSUME LinkInv, NEW c \in Client, NEW n \in 0 .. Len(down[c]), Taken(c, n), WriteFails(c)
  PROVE  /\ down' \in [Client -> Seq(Message)] /\ ate' \in [Client -> BOOLEAN]
         /\ link' \in [Client -> {"up", "lost", "none"}]
         /\ link'[c] = "up" <=> link[c] = "up"
         /\ link'[c] = "none" => down'[c] = << >>
         /\ link[c] = "lost" /\ link'[c] = "none"
         /\ (\A i \in 1 .. Len(down[c]) : ~IsPacket(down[c][i])) =>
              \A i \in 1 .. Len(down'[c]) : ~IsPacket(down'[c][i])
         /\ Holds(c)' /\ Joined(c)' /\ Streams(c)'
<1> DEFINE x == seen[c]
           y == CursorOf(conn[c], epoch)
<1>1. LinkTypes /\ ClientInv(c) /\ RingInv
  BY DEF LinkInv
<1>2. /\ down' = [down EXCEPT ![c] = << >>] /\ link' = [link EXCEPT ![c] = "none"]
      /\ link[c] = "lost" /\ UNCHANGED <<conn, seen>> /\ SameRing
      /\ \E b \in BOOLEAN : ate' = [ate EXCEPT ![c] = b]
  <2>1. (ate[c] \/ \E i \in 1 .. n : IsPacket(down[c][i])) \in BOOLEAN
    BY <1>1 DEF LinkTypes
  <2> QED
    BY <2>1 DEF Taken, WriteFails
<1>3. /\ down' \in [Client -> Seq(Message)] /\ ate' \in [Client -> BOOLEAN]
      /\ link' \in [Client -> {"up", "lost", "none"}]
  <2>1. << >> \in Seq(Message)
    OBVIOUS
  <2> QED
    BY <1>1, <1>2, <2>1 DEF LinkTypes
<1>4. /\ down'[c] = << >> /\ link'[c] = "none" /\ conn[c] = NoConn /\ conn' = conn
      /\ seen'[c] = x /\ epoch' = epoch /\ ~conn[c].streaming
  BY <1>1, <1>2 DEF LinkTypes, ClientInv, EndsAgree, SameRing, NoConn
<1>5. Streams(c)'
  BY <1>4 DEF Streams
<1>6. Holds(c)'
  <2>1. Range(down'[c]) = {}
    BY <1>4 DEF Range
  <2>2. \A p \in Received(c)' : p \in Received(c)
    BY <1>4, <2>1 DEF Received
  <2> QED
    BY <1>1, <1>2, <2>2, HorizonKept DEF ClientInv, Holds
<1>7. Joined(c)'
  <2>1. x \in Items /\ << >> \in Seq(Items)
    <3>1. x \in Packets \union {NoPacket}
      BY <1>1 DEF LinkTypes
    <3>2. << >> \in Seq(Message)
      OBVIOUS
    <3> HIDE DEF x
    <3> QED
      BY <3>1, <3>2, ItemsOf
  <2>2. y \in Items /\ ~IsPacket(y)
    <3>1. conn[c] \in Conn \union {NoConn} /\ epoch \in 1 .. MaxEpoch
      BY <1>1 DEF LinkTypes, RingInv
    <3> QED
      BY <1>4, <3>1, CursorItem
  <2> DEFINE d == down'[c]
  <2>3. d = << >> /\ d \in Seq(Items)
    BY <1>4, <2>1
  <2> HIDE DEF x, y, d
  <2>4. Linked(c, Way(x, d, y), ate'[c])
    BY <2>1, <2>2, <2>3, LinkedEmpty
  <2> QED
    BY <1>4, <2>4, PathIs DEF Joined, x, y, d
<1>8. \A i \in 1 .. Len(down'[c]) : ~IsPacket(down'[c][i])
  BY <1>4
<1> QED
  BY <1>2, <1>3, <1>4, <1>5, <1>6, <1>7, <1>8

LEMMA TakenInv ==
  ASSUME LinkInv, NEW c \in Client, NEW n \in 0 .. Len(down[c]), Taken(c, n)
  PROVE  /\ down' \in [Client -> Seq(Message)] /\ ate' \in [Client -> BOOLEAN]
         /\ link' \in [Client -> {"up", "lost", "none"}]
         /\ link'[c] = "up" <=> link[c] = "up"
         /\ link'[c] = "none" => down'[c] = << >>
         /\ (n > 0 => link[c] # "none" /\ (link'[c] = link[c] \/ WriteFails(c)))
         /\ (\A i \in 1 .. Len(down[c]) : ~IsPacket(down[c][i])) =>
              \A i \in 1 .. Len(down'[c]) : ~IsPacket(down'[c][i])
         /\ Holds(c)' /\ Joined(c)' /\ Streams(c)'
<1>1. CASE Take(c, n)
  BY <1>1, TakeInv
<1>2. CASE WriteFails(c)
  BY <1>2, WriteFailsInv
<1> QED
  BY <1>1, <1>2 DEF Taken

(* The handshake fails.                                                    *)
LEMMA GiveUpInv ==
  ASSUME LinkInv, NEW c \in Client, NEW n \in 0 .. Len(down[c]), Taken(c, n), GiveUp(c)
  PROVE  LinkInv'
<1>1. LinkTypes /\ ClientInv(c) /\ RingInv
  BY DEF LinkInv
<1>2. /\ phase' = [phase EXCEPT ![c] = "loop"] /\ step' = [step EXCEPT ![c] = 0]
      /\ timers' = [timers EXCEPT ![c] = @ + 1] /\ UNCHANGED <<wired, up, conn, seen, muted>>
      /\ SameRing
  BY DEF GiveUp, Taken
<1>3. /\ down' \in [Client -> Seq(Message)] /\ ate' \in [Client -> BOOLEAN]
      /\ link' \in [Client -> {"up", "lost", "none"}]
      /\ link'[c] = "up" <=> link[c] = "up"
      /\ link'[c] = "none" => down'[c] = << >>
      /\ (\A i \in 1 .. Len(down[c]) : ~IsPacket(down[c][i])) =>
           \A i \in 1 .. Len(down'[c]) : ~IsPacket(down'[c][i])
      /\ Holds(c)' /\ Joined(c)' /\ Streams(c)'
  BY TakenInv
<1>4. LinkTypes'
  <2>1. timers[c] + 1 \in Nat
    BY <1>1 DEF LinkTypes
  <2>2. timers' \in [Client -> Nat] /\ step' \in [Client -> Nat]
        /\ phase' \in [Client -> {"handshake", "loop"}]
    BY <1>1, <1>2, <2>1 DEF LinkTypes
  <2> QED
    BY <1>1, <1>2, <1>3, <2>2 DEF LinkTypes
<1>5. Touches(c)
  BY <1>1, <1>2 DEF Touches, Same, LinkTypes, Taken, Take, WriteFails
<1>6. phase'[c] = "loop" /\ step'[c] = 0 /\ timers'[c] > 0
  BY <1>1, <1>2 DEF LinkTypes
<1>7. EndsAgree(c)' /\ Found(c)'
  BY <1>1, <1>2, <1>3, <1>6 DEF ClientInv, EndsAgree, Found
<1>8. Greets(c)'
  <2>1. \A i : CommandAt(c, i)' = CommandAt(c, i)
    BY <1>2 DEF CommandAt, DataCommand
  <2>2. \A k, m : Halfway(c, k, m) => Halfway(c, k, m)'
    BY <1>2, <1>6, <2>1 DEF Halfway
  <2> QED
    BY <1>1, <1>2, <1>3, <2>2 DEF ClientInv, Greets
<1>9. ClientInv(c)'
  BY <1>3, <1>7, <1>8 DEF ClientInv
<1> QED
  BY <1>4, <1>5, <1>9, OneClient

(* What a client sends follows what is on its way already.                 *)
LEMMA SendFacts ==
  ASSUME LinkTypes, NEW c \in Client, NEW cmds \in Seq(CommandType), Send(c, cmds)
  PROVE  /\ up' \in [Client -> Seq(CommandType)]
         /\ \A b \in Client \ {c} : up'[b] = up[b]
         /\ link[c] # "up" => up'[c] = up[c]
         /\ link[c] = "up" =>
              /\ Len(up'[c]) = Len(up[c]) + Len(cmds)
              /\ Len(up[c]) \in Nat /\ Len(cmds) \in Nat
              /\ DOMAIN up'[c] = 1 .. Len(up[c]) + Len(cmds)
              /\ \A i \in 1 .. Len(up[c]) : up'[c][i] = up[c][i]
              /\ \A i \in 1 .. Len(cmds) : up'[c][Len(up[c]) + i] = cmds[i]
<1> DEFINE u == up[c]
<1>1. u \in Seq(CommandType)
  BY DEF LinkTypes
<1>2. up' = IF link[c] = "up" THEN [up EXCEPT ![c] = u \o cmds] ELSE up
  BY DEF Send
<1> HIDE DEF u
<1>3. /\ u \o cmds \in Seq(CommandType) /\ Len(u \o cmds) = Len(u) + Len(cmds)
      /\ Len(u) \in Nat /\ Len(cmds) \in Nat
      /\ \A k \in 1 .. Len(u) : (u \o cmds)[k] = u[k]
      /\ \A k \in 1 .. Len(cmds) : (u \o cmds)[Len(u) + k] = cmds[k]
  BY <1>1, ConcatParts
<1>4. DOMAIN (u \o cmds) = 1 .. Len(u) + Len(cmds)
  BY <1>3
<1>5. CASE link[c] = "up"
  <2>1. up' = [up EXCEPT ![c] = u \o cmds] /\ up \in [Client -> Seq(CommandType)]
    BY <1>2, <1>5 DEF LinkTypes
  <2>2. up'[c] = u \o cmds /\ \A b \in Client \ {c} : up'[b] = up[b]
    BY <2>1
  <2>3. up' \in [Client -> Seq(CommandType)]
    BY <1>3, <2>1
  <2> QED
    BY <1>3, <1>4, <1>5, <2>2, <2>3 DEF u
<1>6. CASE link[c] # "up"
  BY <1>2, <1>6 DEF LinkTypes
<1> QED
  BY <1>5, <1>6

(* The next command is sent.                                               *)
LEMMA ProceedInv ==
  ASSUME LinkInv, NEW c \in Client, NEW n \in 0 .. Len(down[c]), Taken(c, n), Proceed(c, n),
         step[c] < LastStep(c), UNCHANGED seen
  PROVE  LinkInv'
<1> DEFINE cmds == <<CommandAt(c, step[c] + 1)>>
<1>1. LinkTypes /\ ClientInv(c) /\ RingInv
  BY DEF LinkInv
<1>2. /\ step' = [step EXCEPT ![c] = @ + 1] /\ UNCHANGED <<phase, wired, timers, muted>>
      /\ UNCHANGED <<conn, seen>>
      /\ Send(c, cmds) /\ SameRing /\ phase[c] = "handshake"
  BY DEF Proceed, Taken
<1>3. /\ down' \in [Client -> Seq(Message)] /\ ate' \in [Client -> BOOLEAN]
      /\ link' \in [Client -> {"up", "lost", "none"}]
      /\ link'[c] = "up" <=> link[c] = "up"
      /\ link'[c] = "none" => down'[c] = << >>
      /\ (\A i \in 1 .. Len(down[c]) : ~IsPacket(down[c][i])) =>
           \A i \in 1 .. Len(down'[c]) : ~IsPacket(down'[c][i])
      /\ Holds(c)' /\ Joined(c)' /\ Streams(c)'
  BY TakenInv
<1>4. /\ step[c] \in 1 .. LastStep(c) /\ LastStep(c) \in Nat
      /\ step[c] + 1 \in 1 .. LastStep(c) /\ CommandAt(c, step[c] + 1) \in CommandType
  <2>1. LastStep(c) \in Nat
    BY <1>1, CommandFacts
  <2>2. step[c] \in 1 .. LastStep(c)
    BY <1>1, <1>2 DEF ClientInv, EndsAgree
  <2>3. step[c] + 1 \in 1 .. LastStep(c)
    BY <2>1, <2>2
  <2> QED
    BY <1>1, <2>1, <2>2, <2>3, CommandFacts
<1>5. cmds \in Seq(CommandType) /\ Len(cmds) = 1 /\ cmds[1] = CommandAt(c, step[c] + 1)
  BY <1>4
<1> HIDE DEF cmds
<1>6. /\ up' \in [Client -> Seq(CommandType)]
      /\ \A b \in Client \ {c} : up'[b] = up[b]
      /\ link[c] # "up" => up'[c] = up[c]
      /\ link[c] = "up" =>
           /\ Len(up'[c]) = Len(up[c]) + 1 /\ Len(up[c]) \in Nat
           /\ \A i \in 1 .. Len(up[c]) : up'[c][i] = up[c][i]
           /\ up'[c][Len(up[c]) + 1] = CommandAt(c, step[c] + 1)
  <2>1. /\ up' \in [Client -> Seq(CommandType)]
        /\ \A b \in Client \ {c} : up'[b] = up[b]
        /\ link[c] # "up" => up'[c] = up[c]
        /\ link[c] = "up" =>
             /\ Len(up'[c]) = Len(up[c]) + Len(cmds) /\ Len(up[c]) \in Nat
             /\ \A i \in 1 .. Len(up[c]) : up'[c][i] = up[c][i]
             /\ \A i \in 1 .. Len(cmds) : up'[c][Len(up[c]) + i] = cmds[i]
    BY <1>1, <1>2, <1>5, SendFacts
  <2>2. 1 \in 1 .. Len(cmds)
    BY <1>5
  <2> QED
    BY <1>5, <2>1, <2>2
<1>7. LinkTypes'
  <2>1. step' \in [Client -> Nat]
    BY <1>1, <1>2 DEF LinkTypes
  <2> QED
    BY <1>1, <1>2, <1>3, <1>6, <2>1 DEF LinkTypes
<1>8. Touches(c)
  BY <1>1, <1>2, <1>6 DEF Touches, Same, LinkTypes, Taken, Take, WriteFails
<1>9. phase'[c] = "handshake" /\ step'[c] = step[c] + 1 /\ step'[c] \in 1 .. LastStep(c)
  BY <1>1, <1>2, <1>4 DEF LinkTypes
<1>10. EndsAgree(c)' /\ Found(c)'
  BY <1>1, <1>2, <1>3, <1>6, <1>9 DEF ClientInv, EndsAgree, Found
<1>11. Greets(c)'
  <2> SUFFICES ASSUME link[c] = "up", ~conn[c].streaming PROVE Greets(c)'
    BY <1>2, <1>3 DEF Greets
  <2>1. PICK k \in 0 .. LastStep(c) - 1 : \E m \in k .. LastStep(c) : Halfway(c, k, m)
    BY <1>1 DEF ClientInv, Greets
  <2>2. PICK m \in k .. LastStep(c) : Halfway(c, k, m)
    BY <2>1
  <2>3. /\ Built(c, k, conn[c]) /\ Len(up[c]) = m - k /\ m \in Nat /\ k \in Nat /\ k <= m
        /\ \A i \in 1 .. m - k : up[c][i] = CommandAt(c, k + i)
        /\ m = step[c]
    BY <1>2, <1>4, <2>2 DEF Halfway
  <2>4. \A i : CommandAt(c, i)' = CommandAt(c, i)
    BY <1>2 DEF CommandAt, DataCommand
  <2>5. \A i \in 1 .. (m + 1) - k : up'[c][i] = CommandAt(c, k + i)
    <3> SUFFICES ASSUME NEW i \in 1 .. (m + 1) - k PROVE up'[c][i] = CommandAt(c, k + i)
      OBVIOUS
    <3>1. CASE i \in 1 .. m - k
      BY <1>6, <2>3, <3>1
    <3>2. CASE i \notin 1 .. m - k
      <4>1. i = (m - k) + 1 /\ k + i = m + 1
        BY <2>3, <3>2
      <4> QED
        BY <1>6, <2>3, <4>1
    <3> QED
      BY <3>1, <3>2
  <2>6. Len(up'[c]) = (m + 1) - k
    BY <1>6, <2>3
  <2>7. Halfway(c, k, m + 1)'
    <3>1. (m + 1) - k <= Len(up'[c])
      BY <2>3, <2>6
    <3> QED
      BY <1>2, <1>9, <2>3, <2>4, <2>5, <2>6, <3>1 DEF Halfway
  <2>8. m + 1 \in k .. LastStep(c)
    BY <1>4, <2>3
  <2>9. \A i \in 1 .. Len(down'[c]) : ~IsPacket(down'[c][i])
    BY <1>1, <1>3 DEF ClientInv, Greets
  <2> QED
    BY <2>1, <2>7, <2>8, <2>9 DEF Greets
<1>12. ClientInv(c)'
  BY <1>3, <1>10, <1>11 DEF ClientInv
<1> QED
  BY <1>7, <1>8, <1>12, OneClient

(* DATA is accepted: a link that is still there streams, or will when the  *)
(* server comes to the line.                                               *)
LEMMA FinishInv ==
  ASSUME LinkInv, NEW c \in Client, NEW n \in 0 .. Len(down[c]), Taken(c, n), Finish(c, n),
         step[c] = LastStep(c), n > 0, UNCHANGED seen
  PROVE  LinkInv'
<1> DEFINE cmds == IF c \in Bridge THEN <<Command("END")>> ELSE << >>
<1>1. LinkTypes /\ ClientInv(c) /\ RingInv
  BY DEF LinkInv
<1>2. /\ phase' = [phase EXCEPT ![c] = "loop"] /\ step' = [step EXCEPT ![c] = 0]
      /\ wired' = [wired EXCEPT ![c] = TRUE] /\ UNCHANGED <<timers, conn, seen>>
      /\ muted' \in {muted, [muted EXCEPT ![c] = TRUE]}
      /\ WriteFails(c) => muted' = [muted EXCEPT ![c] = TRUE]
      /\ Send(c, cmds) /\ SameRing /\ phase[c] = "handshake"
  <2>1. ASSUME WriteFails(c) PROVE muted' = [muted EXCEPT ![c] = TRUE]
    <3>1. ~Take(c, n)
      <4>1. link'[c] = "none" /\ link[c] = "lost"
        BY <1>1, <2>1 DEF WriteFails, LinkTypes
      <4>2. ASSUME Take(c, n) PROVE link'[c] = "lost"
        <5>0. ~(n = 0 /\ link[c] = "lost" /\ down[c] = << >>)
          OBVIOUS
        <5>1. link' = [link EXCEPT ![c] = link[c]]
          BY <4>2, <5>0 DEF Take
        <5> QED
          BY <1>1, <4>1, <5>1 DEF LinkTypes
      <4> QED
        BY <4>1, <4>2
    <3> QED
      BY <3>1 DEF Finish
  <2> QED
    BY <2>1 DEF Finish, Taken
<1>3. /\ down' \in [Client -> Seq(Message)] /\ ate' \in [Client -> BOOLEAN]
      /\ link' \in [Client -> {"up", "lost", "none"}]
      /\ link'[c] = "up" <=> link[c] = "up"
      /\ link'[c] = "none" => down'[c] = << >>
      /\ link[c] # "none" /\ (link'[c] = link[c] \/ WriteFails(c))
      /\ (\A i \in 1 .. Len(down[c]) : ~IsPacket(down[c][i])) =>
           \A i \in 1 .. Len(down'[c]) : ~IsPacket(down'[c][i])
      /\ Holds(c)' /\ Joined(c)' /\ Streams(c)'
  BY TakenInv
<1>4. LastStep(c) \in Nat /\ CommandAt(c, LastStep(c)).cmd = "DATA"
      /\ Command("END") \in CommandType
  <2>1. LastStep(c) = Len(Greeting(c)) + 1 /\ Len(Greeting(c)) \in Nat
        /\ CommandAt(c, LastStep(c)) = DataCommand(c) /\ Command("END") \in CommandType
    BY <1>1, CommandFacts
  <2> QED
    BY <2>1 DEF DataCommand, Command
<1>5. cmds \in Seq(CommandType)
  BY <1>4
<1> HIDE DEF cmds
<1>6. /\ up' \in [Client -> Seq(CommandType)]
      /\ \A b \in Client \ {c} : up'[b] = up[b]
      /\ link[c] # "up" => up'[c] = up[c]
      /\ link[c] = "up" =>
           /\ Len(up'[c]) >= Len(up[c]) /\ Len(up[c]) \in Nat
           /\ \A i \in 1 .. Len(up[c]) : i \in DOMAIN up'[c] /\ up'[c][i] = up[c][i]
  <2>1. /\ up' \in [Client -> Seq(CommandType)]
        /\ \A b \in Client \ {c} : up'[b] = up[b]
        /\ link[c] # "up" => up'[c] = up[c]
        /\ link[c] = "up" =>
             /\ Len(up'[c]) = Len(up[c]) + Len(cmds) /\ Len(up[c]) \in Nat /\ Len(cmds) \in Nat
             /\ DOMAIN up'[c] = 1 .. Len(up[c]) + Len(cmds)
             /\ \A i \in 1 .. Len(up[c]) : up'[c][i] = up[c][i]
    BY <1>1, <1>2, <1>5, SendFacts
  <2> QED
    BY <2>1
<1>7. LinkTypes'
  <2>1. /\ phase' \in [Client -> {"handshake", "loop"}] /\ step' \in [Client -> Nat]
        /\ wired' \in [Client -> BOOLEAN] /\ muted' \in [Client -> BOOLEAN]
    BY <1>1, <1>2 DEF LinkTypes
  <2> QED
    BY <1>1, <1>2, <1>3, <1>6, <2>1 DEF LinkTypes
<1>8. Touches(c)
  BY <1>1, <1>2, <1>6 DEF Touches, Same, LinkTypes, Taken, Take, WriteFails
<1>9. phase'[c] = "loop" /\ step'[c] = 0 /\ wired'[c] = TRUE
  BY <1>1, <1>2 DEF LinkTypes
<1>10. EndsAgree(c)'
  BY <1>1, <1>2, <1>3, <1>6, <1>9 DEF ClientInv, EndsAgree
<1>11. link[c] = "up" /\ ~conn[c].streaming =>
         \E k \in 0 .. LastStep(c) - 1 :
           /\ Halfway(c, k, LastStep(c)) /\ k \in Nat /\ LastStep(c) \in k .. LastStep(c)
           /\ LastStep(c) - k \in 1 .. Len(up[c]) /\ LastStep(c) - k \in Nat
           /\ up[c][LastStep(c) - k] = CommandAt(c, LastStep(c))
  <2> SUFFICES ASSUME link[c] = "up", ~conn[c].streaming
               PROVE  \E k \in 0 .. LastStep(c) - 1 :
                 /\ Halfway(c, k, LastStep(c)) /\ k \in Nat /\ LastStep(c) \in k .. LastStep(c)
                 /\ LastStep(c) - k \in 1 .. Len(up[c]) /\ LastStep(c) - k \in Nat
                 /\ up[c][LastStep(c) - k] = CommandAt(c, LastStep(c))
    OBVIOUS
  <2>1. PICK k \in 0 .. LastStep(c) - 1 : \E m \in k .. LastStep(c) : Halfway(c, k, m)
    BY <1>1 DEF ClientInv, Greets
  <2>2. PICK m \in k .. LastStep(c) : Halfway(c, k, m)
    BY <2>1
  <2>3. m = LastStep(c)
    BY <1>2, <2>2 DEF Halfway
  <2>4. /\ m - k <= Len(up[c]) /\ \A i \in 1 .. m - k : up[c][i] = CommandAt(c, k + i)
    BY <2>2 DEF Halfway
  <2>5. Len(up[c]) \in Nat
    BY <1>1 DEF LinkTypes
  <2>6. /\ m - k \in 1 .. Len(up[c]) /\ m - k \in 1 .. m - k /\ m - k \in Nat /\ k + (m - k) = m
        /\ k \in Nat /\ m \in k .. m
    BY <1>4, <2>3, <2>4, <2>5
  <2>7. up[c][m - k] = CommandAt(c, m)
    BY <2>4, <2>6
  <2> QED
    BY <2>2, <2>3, <2>6, <2>7
<1>12. Found(c)'
  <2>1. link[c] = "lost" \/ link[c] = "up"
    BY <1>1, <1>3 DEF LinkTypes
  <2>2. link[c] = "up" =>
          conn'[c].streaming \/ \E i \in DOMAIN up'[c] : up'[c][i].cmd = "DATA"
    BY <1>2, <1>4, <1>6, <1>11
  <2>3. WriteFails(c) => muted'[c]
    BY <1>1, <1>2 DEF LinkTypes
  <2> QED
    BY <1>3, <1>9, <2>1, <2>2, <2>3 DEF Found
<1>13. Greets(c)'
  <2> SUFFICES ASSUME link[c] = "up", ~conn[c].streaming PROVE Greets(c)'
    BY <1>2, <1>3 DEF Greets
  <2>1. PICK k \in 0 .. LastStep(c) - 1 : Halfway(c, k, LastStep(c))
                                          /\ LastStep(c) \in k .. LastStep(c)
    BY <1>11
  <2>2. \A i : CommandAt(c, i)' = CommandAt(c, i)
    BY <1>2 DEF CommandAt, DataCommand
  <2>3. Halfway(c, k, LastStep(c))'
    <3>1. /\ Built(c, k, conn[c]) /\ LastStep(c) - k <= Len(up[c])
          /\ \A i \in 1 .. LastStep(c) - k : up[c][i] = CommandAt(c, k + i)
      BY <2>1 DEF Halfway
    <3>2. LastStep(c) - k <= Len(up'[c]) /\ LastStep(c) - k \in Int
      <4>1. Len(up'[c]) \in Nat /\ Len(up'[c]) >= Len(up[c]) /\ Len(up[c]) \in Nat
        BY <1>6
      <4> QED
        BY <1>4, <3>1, <4>1
    <3>3. \A i \in 1 .. LastStep(c) - k : up'[c][i] = CommandAt(c, k + i)
      <4> SUFFICES ASSUME NEW i \in 1 .. LastStep(c) - k
                   PROVE  up'[c][i] = CommandAt(c, k + i)
        OBVIOUS
      <4>1. i \in 1 .. Len(up[c])
        BY <1>4, <1>6, <3>1
      <4> QED
        BY <1>6, <3>1, <4>1
    <3>4. ~(LastStep(c) < LastStep(c))
      BY <1>4
    <3> QED
      BY <1>2, <1>9, <2>2, <3>1, <3>2, <3>3, <3>4 DEF Halfway
  <2>4. \A i \in 1 .. Len(down'[c]) : ~IsPacket(down'[c][i])
    BY <1>1, <1>3 DEF ClientInv, Greets
  <2> QED
    BY <2>1, <2>3, <2>4 DEF Greets
<1>14. ClientInv(c)'
  BY <1>3, <1>10, <1>12, <1>13 DEF ClientInv
<1> QED
  BY <1>7, <1>8, <1>14, OneClient

LEMMA ReplyInv ==
  ASSUME LinkInv, NEW c \in Client, NEW n \in 0 .. Len(down[c]), Reply(c, n)
  PROVE  LinkInv'
<1>1. LinkTypes /\ ClientInv(c)
  BY DEF LinkInv
<1>2. Taken(c, n) /\ UNCHANGED seen
  BY DEF Reply, Taken, SameRing, Proceed, Finish
<1>3. step[c] \in 1 .. LastStep(c) /\ LastStep(c) \in Nat
      /\ CommandAt(c, LastStep(c)).cmd = "DATA"
  <2>1. LastStep(c) = Len(Greeting(c)) + 1 /\ Len(Greeting(c)) \in Nat
        /\ CommandAt(c, LastStep(c)) = DataCommand(c)
    BY <1>1, CommandFacts
  <2> QED
    BY <1>1, <1>2, <2>1 DEF ClientInv, EndsAgree, Taken, DataCommand, Command
<1> DEFINE refused == Checked(c, CommandAt(c, step[c]).cmd) /\ ~IsOk(SubSeq(down[c], 1, n))
<1>4. CASE refused
  BY <1>2, <1>4, GiveUpInv DEF Reply
<1>5. CASE ~refused /\ step[c] < LastStep(c)
  BY <1>2, <1>5, ProceedInv DEF Reply
<1>6. CASE ~refused /\ ~(step[c] < LastStep(c))
  <2>1. Finish(c, n)
    BY <1>6 DEF Reply
  <2>2. step[c] = LastStep(c)
    BY <1>3, <1>6
  <2>3. Checked(c, CommandAt(c, step[c]).cmd)
    BY <1>3, <2>2 DEF Checked
  <2>4. SubSeq(down[c], 1, n) # << >>
    BY <1>6, <2>3 DEF IsOk
  <2>5. n # 0
    <3>1. down[c] \in Seq(Message)
      BY <1>1 DEF LinkTypes
    <3>2. Len(SubSeq(down[c], 1, n)) = n /\ SubSeq(down[c], 1, n) \in Seq(Message)
      BY <3>1, PrefixParts
    <3> QED
      BY <2>4, <3>2
  <2> QED
    BY <1>2, <2>1, <2>2, <2>5, FinishInv
<1> QED
  BY <1>4, <1>5, <1>6

-----------------------------------------------------------------------------
(* The theorems.                                                           *)

LEMMA StepInv == LinkInv /\ [Next]_vars => LinkInv'
<1> SUFFICES ASSUME LinkInv, [Next]_vars PROVE LinkInv'
  OBVIOUS
<1>1. ASSUME NEW c \in Client, ReplyAny(c) PROVE LinkInv'
  BY <1>1, ReplyInv DEF ReplyAny
<1>2. CASE UNCHANGED vars
  <2>1. SameRing /\ \A c \in Client : Same(c)
    BY <1>2 DEF vars, serverVars, clientVars, SameRing, Same
  <2>2. LinkTypes'
    BY <1>2 DEF LinkInv, LinkTypes, vars, serverVars, clientVars
  <2> QED
    BY <2>1, <2>2, RingKept, OthersKept DEF LinkInv
<1>3. CASE Next
  BY <1>1, <1>3, FeedInv, PumpInv, RestartInv, ServeInv, ConnectInv, ConnectFailsInv,
     ReadyReadInv, DisconnectedInv, BreakInv DEF Next
<1> QED
  BY <1>2, <1>3

THEOREM LinkTheorem == Spec => []LinkInv
<1>1. Init => LinkInv
  BY InitInv
<1>2. LinkInv /\ [Next]_vars => LinkInv'
  BY StepInv
<1> QED
  BY <1>1, <1>2, PTL DEF Spec

(* The types, and which combinations of connection, link and phase occur:  *)
(* the server has a connection exactly where the client has a link, and    *)
(* only commands of the handshake travel up, only texts and packets down.  *)
THEOREM TypeTheorem == Spec => []TypeOK
<1>1. LinkInv => TypeOK
  <2> SUFFICES ASSUME LinkInv PROVE TypeOK
    OBVIOUS
  <2>1. RingInv /\ LinkTypes /\ \A c \in Client : ClientInv(c)
    BY DEF LinkInv
  <2>2. /\ slots \in [SlotIndex -> Slot] /\ head \in SlotIndex /\ count \in 0 .. Cap
        /\ produced \in 0 .. MaxProduced /\ epoch \in 1 .. MaxEpoch
    BY <2>1, RingFields DEF RingInv
  <2>3. ASSUME NEW c \in Client
        PROVE  /\ link[c] \in {"up", "lost", "none"} /\ (conn[c].open <=> link[c] = "up")
               /\ phase[c] \in {"handshake", "loop"}
               /\ step[c] \in IF phase[c] = "loop" THEN {0} ELSE 1 .. LastStep(c)
               /\ wired[c] \in BOOLEAN /\ ate[c] \in BOOLEAN /\ muted[c] \in BOOLEAN
               /\ timers[c] \in Nat
    BY <2>1 DEF LinkTypes, ClientInv, EndsAgree
  <2>4. ASSUME NEW c \in Client, conn[c].streaming PROVE conn[c].cursor \in Wire
    <3>1. conn[c].cursor = conn[c].at % SeqSpace /\ conn[c].at \in Nat
      BY <2>1, <2>4 DEF ClientInv, Streams, Ready, Conn
    <3> DEFINE n == conn[c].at
    <3>2. n \in Nat /\ conn[c].cursor = n % SeqSpace
      BY <3>1
    <3> HIDE DEF n
    <3>3. n % SeqSpace \in 0 .. SeqSpace - 1
      <4>1. n \in Int /\ SeqSpace \in Nat \ {0}
        BY <3>2, RingBounds
      <4> QED
        BY <4>1, DivMod
    <3> QED
      BY <3>2, <3>3 DEF Wire
  <2>5. ASSUME NEW c \in Client PROVE Range(up[c]) \subseteq CommandType
    <3>1. up[c] \in Seq(CommandType)
      BY <2>1 DEF LinkTypes
    <3> QED
      BY <3>1 DEF Range
  <2>6. ASSUME NEW c \in Client, NEW i \in DOMAIN down[c]
        PROVE  down[c][i].kind \in {"text", "pkt"}
    <3>1. down[c] \in Seq(Message)
      BY <2>1 DEF LinkTypes
    <3>2. down[c][i] \in Message
      BY <3>1
    <3> QED
      BY <3>2 DEF Message, Packets, Texts
  <2>7. ASSUME NEW c \in Client PROVE seen[c].kind \in {"none", "pkt"}
    <3>1. seen[c] \in Packets \union {NoPacket}
      BY <2>1 DEF LinkTypes
    <3> QED
      BY <3>1 DEF Packets, NoPacket
  <2> QED
    BY <2>2, <2>3, <2>4, <2>5, <2>6, <2>7 DEF TypeOK
<1> QED
  BY <1>1, LinkTheorem, PTL

(* No client receives a packet twice or out of order, over any number of   *)
(* reconnections and restarts: DATA names the number after the last one    *)
(* taken, and the cursor made of it stands behind all that is under way.   *)
THEOREM OrderTheorem == Spec => []InOrder
<1>1. LinkInv => InOrder
  BY DEF LinkInv, ClientInv, Joined, Linked, OrderOk, InOrder
<1> QED
  BY <1>1, LinkTheorem, PTL

(* What a client misses of one incarnation of the server had aged out of   *)
(* the ring, or came together with a reply of the handshake.               *)
THEOREM GapTheorem == Spec => []NoSilentGap
<1>1. LinkInv => NoSilentGap
  <2> SUFFICES ASSUME LinkInv, NEW c \in Client PROVE GapOk(c, Path(c), ate[c])
    BY DEF GapOk, Excused, NoSilentGap
  <2> QED
    BY DEF LinkInv, ClientInv, Joined, Linked
<1> QED
  BY <1>1, LinkTheorem, PTL

(* A client gets the record it means: what it asks for by a number that    *)
(* wraps is the record it meant, whatever the server did to its ring since.*)
THEOREM GenuineTheorem == Spec => []Genuine
<1>1. LinkInv => Genuine
  BY DEF LinkInv, ClientInv, Holds, Kept, Genuine
<1> QED
  BY <1>1, LinkTheorem, PTL

(* A client is sent what it asked for and nothing else: DATA is read when  *)
(* the whole greeting was, and the greeting scopes the selectors to every  *)
(* station.                                                                *)
THEOREM SubscriptionTheorem == Spec => []OnlyWanted
<1>1. LinkInv => OnlyWanted
  BY DEF LinkInv, ClientInv, Holds, Kept, OnlyWanted
<1> QED
  BY <1>1, LinkTheorem, PTL

(* A client in its event loop streams, is about to, or has a way back, but *)
(* for a tpslink whose END failed.                                         *)
THEOREM NoOrphanTheorem == Spec => []NoOrphan
<1>1. LinkInv => NoOrphan
  BY DEF LinkInv, ClientInv, Found, NoOrphan
<1> QED
  BY <1>1, LinkTheorem, PTL

=============================================================================

--------------------------- MODULE AcqFeedProofs ---------------------------
(***************************************************************************)
(* Order and account of the records of the acquisition feed, for every     *)
(* size of the backlog and of a burst, and any number of broken links.     *)
(***************************************************************************)
EXTENDS AcqFeed, Facts

(* The numbers up to last, as many as there are places in s.               *)
EndsAt(s, last) == \A i \in 1 .. Len(s) : s[i] = last - Len(s) + i

Below(s, m) == \A i \in 1 .. Len(s) : s[i] \in 1 .. m

(* A reconnect timer is armed only when the socket is not connected, and   *)
(* what is on the wire is on a link that both ends still have.             *)
LinkInv ==
  /\ sock \in {"unconnected", "connecting", "connected"}
  /\ link \in {"up", "lost"} /\ timers \in {0, 1} /\ faults \in 0 .. MaxFaults
  /\ link = "up" => sock = "connected"
  /\ link = "lost" => wire = << >>
  /\ timers = 1 => sock = "unconnected"

(* What waits is the last that was packed.                                 *)
BacklogInv ==
  /\ packed \in 0 .. MaxPacked /\ backlog \in Seq(Nat)
  /\ Len(backlog) <= packed /\ Len(backlog) <= FeedBacklog
  /\ EndsAt(backlog, packed)
  /\ sock = "connected" => backlog = << >>

(* All that has left the backlog by number m: in order, and each record    *)
(* in one place.                                                           *)
SentBy(m) ==
  /\ wire \in Seq(Nat) /\ ingested \in Seq(Nat)
  /\ Below(wire, m) /\ Below(ingested, m) /\ lost \subseteq 1 .. m
  /\ Increasing(wire) /\ Increasing(ingested)
  /\ \A i \in 1 .. Len(ingested), j \in 1 .. Len(wire) : ingested[i] < wire[j]
  /\ \A i \in 1 .. Len(ingested) : ingested[i] \notin lost
  /\ \A i \in 1 .. Len(wire) : wire[i] \notin lost

(* m records went one way or another, dropped of them counted.             *)
Balance(m, dropped) ==
  /\ IsFiniteSet(lost) /\ Cardinality(lost) \in Nat /\ dropped \in Nat
  /\ m = Len(ingested) + Len(wire) + Cardinality(lost) + dropped

FeedInv ==
  /\ LinkInv /\ BacklogInv
  /\ SentBy(packed - Len(backlog))
  /\ Balance(packed - Len(backlog), feedDropped)

-----------------------------------------------------------------------------
(* Sequences.                                                              *)

(* What ends at last is a piece of the numbering.                          *)
LEMMA RangeOfInterval ==
  ASSUME NEW s \in Seq(Nat), NEW last \in Nat, Len(s) <= last, EndsAt(s, last)
  PROVE  Increasing(s) /\ Range(s) = last - Len(s) + 1 .. last
<1>1. Len(s) \in Nat /\ DOMAIN s = 1 .. Len(s)
  OBVIOUS
<1>2. Increasing(s)
  BY <1>1 DEF EndsAt, Increasing
<1>3. Range(s) \subseteq last - Len(s) + 1 .. last
  BY <1>1 DEF EndsAt, Range
<1>4. ASSUME NEW k \in last - Len(s) + 1 .. last
      PROVE  k \in Range(s)
  <2>1. k - (last - Len(s)) \in 1 .. Len(s)
    BY <1>1
  <2>2. s[k - (last - Len(s))] = k
    BY <1>1, <2>1 DEF EndsAt
  <2> QED
    BY <1>1, <2>1, <2>2 DEF Range
<1> QED
  BY <1>2, <1>3, <1>4

(* The eviction of the oldest leaves the newest, within the limit.         *)
LEMMA EvictedProperties ==
  ASSUME NEW b \in Seq(Nat), NEW last \in Nat, Len(b) <= last, EndsAt(b, last)
  PROVE  /\ Evicted(b) \in Seq(Nat)
         /\ Len(Evicted(b)) <= Len(b) /\ Len(Evicted(b)) <= FeedBacklog
         /\ EndsAt(Evicted(b), last)
<1>1. Len(b) \in Nat /\ FeedBacklog \in Nat
  BY FeedAssumption
<1>2. CASE Len(b) <= FeedBacklog
  BY <1>1, <1>2 DEF Evicted
<1>3. CASE Len(b) > FeedBacklog
  <2> DEFINE m == Len(b) - FeedBacklog + 1
  <2>1. Evicted(b) = SubSeq(b, m, Len(b))
    BY <1>1, <1>3 DEF Evicted
  <2>2. m \in Int /\ \A i \in m .. Len(b) : b[i] \in Nat
    BY <1>1, <1>3
  <2>3. /\ SubSeq(b, m, Len(b)) \in Seq(Nat)
        /\ Len(SubSeq(b, m, Len(b))) = FeedBacklog
        /\ \A i \in 1 .. FeedBacklog : SubSeq(b, m, Len(b))[i] = b[m + i - 1]
    BY <1>1, <1>3, <2>2, SubSeqProperties
  <2>4. \A i \in 1 .. FeedBacklog : b[m + i - 1] = last - FeedBacklog + i
    BY <1>1, <1>3 DEF EndsAt
  <2>5. /\ Evicted(b) \in Seq(Nat) /\ Len(Evicted(b)) = FeedBacklog
        /\ \A i \in 1 .. FeedBacklog : Evicted(b)[i] = last - FeedBacklog + i
    BY <2>1, <2>3, <2>4
  <2>6. EndsAt(Evicted(b), last)
    BY <2>5 DEF EndsAt
  <2> QED
    BY <1>1, <1>3, <2>5, <2>6
<1> QED
  BY <1>1, <1>2, <1>3

(* A burst of new records continues the numbering.                         *)
LEMMA BurstAtEnd ==
  ASSUME NEW s \in Seq(Nat), NEW p \in Nat, Len(s) <= p, EndsAt(s, p),
         NEW t \in Seq(Nat), \A i \in 1 .. Len(t) : t[i] = p + i
  PROVE  /\ s \o t \in Seq(Nat) /\ Len(s \o t) = Len(s) + Len(t)
         /\ EndsAt(s \o t, p + Len(t))
<1>1. Len(s) \in Nat /\ Len(t) \in Nat
  OBVIOUS
<1>2. /\ s \o t \in Seq(Nat) /\ Len(s \o t) = Len(s) + Len(t)
      /\ \A i \in 1 .. Len(s) : (s \o t)[i] = s[i]
      /\ \A i \in Len(s) + 1 .. Len(s) + Len(t) : (s \o t)[i] = t[i - Len(s)]
  OBVIOUS
<1>3. ASSUME NEW i \in 1 .. Len(s \o t)
      PROVE  (s \o t)[i] = (p + Len(t)) - Len(s \o t) + i
  <2>1. CASE i \in 1 .. Len(s)
    <3>1. s[i] = p - Len(s) + i
      BY <2>1 DEF EndsAt
    <3> QED
      BY <1>1, <1>2, <2>1, <3>1
  <2>2. CASE i \in Len(s) + 1 .. Len(s) + Len(t)
    <3>1. (s \o t)[i] = t[i - Len(s)] /\ i - Len(s) \in 1 .. Len(t)
      BY <1>1, <1>2, <2>2
    <3> QED
      BY <1>1, <1>2, <3>1
  <2> QED
    BY <1>1, <1>2, <2>1, <2>2
<1> QED
  BY <1>2, <1>3 DEF EndsAt

-----------------------------------------------------------------------------
(* drainFeed.                                                              *)

(* The backlog b follows all that was sent by m; draining it, or keeping   *)
(* it for a socket that is not connected, leaves the account right.        *)
LEMMA DrainKeeps ==
  ASSUME LinkInv, sock' = sock, link' = link, ingested' = ingested,
         packed' \in 0 .. MaxPacked,
         NEW b \in Seq(Nat), Len(b) <= FeedBacklog, EndsAt(b, packed'),
         NEW m \in Nat, packed' = m + Len(b),
         SentBy(m), Balance(m, feedDropped'),
         Drain(b)
  PROVE  /\ BacklogInv' /\ (link' = "lost" => wire' = << >>)
         /\ SentBy(packed - Len(backlog))'
         /\ Balance(packed - Len(backlog), feedDropped)'
<1>1. /\ Len(b) \in Nat /\ packed' \in Nat /\ Len(b) <= packed' /\ m <= packed'
      /\ m = packed' - Len(b)
      /\ b \in [1 .. Len(b) -> Nat]
  BY FeedAssumption
<1>2. /\ wire \in Seq(Nat) /\ ingested \in Seq(Nat)
      /\ Len(wire) \in Nat /\ Len(ingested) \in Nat
  BY DEF SentBy
<1>3. Increasing(b) /\ Range(b) = m + 1 .. packed'
  BY <1>1, RangeOfInterval
<1>4. CASE sock # "connected"
  <2>1. backlog' = b /\ wire' = wire /\ lost' = lost
    BY <1>4 DEF Drain
  <2> QED
    BY <1>1, <1>4, <2>1 DEF BacklogInv, SentBy, Balance, LinkInv, Below, EndsAt
<1>5. CASE sock = "connected"
  <2>1. /\ backlog' = << >> /\ Len(backlog') = 0 /\ packed' - Len(backlog') = packed'
        /\ backlog' \in Seq(Nat)
    BY <1>1, <1>5 DEF Drain
  <2>2. BacklogInv'
    BY <1>1, <2>1, FeedAssumption DEF BacklogInv, EndsAt
  <2>3. CASE link = "up"
    <3>1. wire' = wire \o b /\ lost' = lost
      BY <1>5, <2>3 DEF Drain
    <3>2. /\ wire' \in Seq(Nat) /\ Len(wire') = Len(wire) + Len(b)
          /\ \A i \in 1 .. Len(wire) : wire'[i] = wire[i]
          /\ \A i \in Len(wire) + 1 .. Len(wire) + Len(b) : wire'[i] = b[i - Len(wire)]
      BY <1>2, <3>1
    <3>3. \A i \in Len(wire) + 1 .. Len(wire') : wire'[i] = m + (i - Len(wire))
      BY <1>1, <1>2, <3>2 DEF EndsAt
    <3>4. \A i \in 1 .. Len(wire) : wire'[i] \in 1 .. m /\ wire'[i] \notin lost
      BY <3>2 DEF SentBy, Below
    <3>5. \A i \in 1 .. Len(ingested) : ingested[i] \in 1 .. m
      BY DEF SentBy, Below
    <3>6. /\ \A i \in 1 .. Len(wire') : i \in 1 .. Len(wire) \/ i \in Len(wire) + 1 .. Len(wire')
          /\ lost' \subseteq 1 .. m
      BY <1>2, <3>1, <3>2 DEF SentBy
    <3>7. Below(wire, packed)' /\ Below(ingested, packed)' /\ lost' \subseteq 1 .. packed'
      BY <1>1, <1>2, <3>2, <3>3, <3>4, <3>5, <3>6, SMTT(30) DEF Below
    <3>8. Increasing(wire')
      <4> SUFFICES ASSUME NEW i \in 1 .. Len(wire'), NEW j \in 1 .. Len(wire'), i < j
                   PROVE  wire'[i] < wire'[j]
        BY DEF Increasing
      <4>1. CASE j \in 1 .. Len(wire)
        <5>1. i \in 1 .. Len(wire)
          BY <1>2, <4>1
        <5>2. wire'[i] = wire[i] /\ wire'[j] = wire[j]
          BY <3>2, <4>1, <5>1
        <5> QED
          BY <4>1, <5>1, <5>2 DEF SentBy, Increasing
      <4>2. CASE i \in 1 .. Len(wire) /\ j \in Len(wire) + 1 .. Len(wire')
        BY <1>1, <1>2, <3>3, <3>4, <4>2, SMTT(30)
      <4>3. CASE i \in Len(wire) + 1 .. Len(wire') /\ j \in Len(wire) + 1 .. Len(wire')
        BY <1>1, <1>2, <3>3, <4>3
      <4> QED
        BY <1>2, <3>2, <4>1, <4>2, <4>3, SMTT(30)
    <3>9. \A i \in 1 .. Len(ingested'), j \in 1 .. Len(wire') : ingested'[i] < wire'[j]
      <4> SUFFICES ASSUME NEW i \in 1 .. Len(ingested), NEW j \in 1 .. Len(wire')
                   PROVE  ingested[i] < wire'[j]
        OBVIOUS
      <4>1. CASE j \in 1 .. Len(wire)
        BY <3>2, <4>1 DEF SentBy
      <4>2. CASE j \in Len(wire) + 1 .. Len(wire')
        BY <1>1, <1>2, <3>3, <3>5, <4>2, SMTT(30)
      <4> QED
        BY <3>6, <4>1, <4>2
    <3>10. \A i \in 1 .. Len(wire') : wire'[i] \notin lost'
      BY <1>1, <1>2, <3>1, <3>3, <3>4, <3>6
    <3>11. SentBy(packed - Len(backlog))'
      BY <1>2, <2>1, <3>1, <3>2, <3>7, <3>8, <3>9, <3>10 DEF SentBy
    <3>12. Balance(packed - Len(backlog), feedDropped)'
      BY <1>1, <1>2, <2>1, <3>1, <3>2, SMTT(30) DEF Balance
    <3> QED
      BY <2>2, <2>3, <3>11, <3>12
  <2>4. CASE link = "lost"
    <3>1. wire' = wire /\ lost' = lost \union Range(b) /\ wire = << >> /\ Len(wire) = 0
      BY <1>5, <2>4 DEF Drain, LinkInv
    <3>2. IsFiniteSet(m + 1 .. packed') /\ Cardinality(m + 1 .. packed') = Len(b)
      <4>1. m + 1 \in Int /\ packed' \in Int
        BY <1>1
      <4>2. /\ IsFiniteSet(m + 1 .. packed')
            /\ Cardinality(m + 1 .. packed') = IF m + 1 > packed' THEN 0 ELSE packed' - (m + 1) + 1
        BY <4>1, FS_Interval
      <4> QED
        BY <1>1, <4>2
    <3>3. lost \subseteq 1 .. m /\ IsFiniteSet(lost) /\ Cardinality(lost) \in Nat
      BY DEF SentBy, Balance
    <3>4. lost \cap (m + 1 .. packed') = {}
      BY <1>1, <3>3
    <3>5. /\ IsFiniteSet(lost')
          /\ Cardinality(lost') = Cardinality(lost) + Len(b) - Cardinality({})
      <4>1. lost' = lost \union (m + 1 .. packed')
        BY <1>3, <3>1
      <4>2. /\ IsFiniteSet(lost \union (m + 1 .. packed'))
            /\ Cardinality(lost \union (m + 1 .. packed'))
                 = Cardinality(lost) + Cardinality(m + 1 .. packed')
                   - Cardinality(lost \cap (m + 1 .. packed'))
        BY <3>2, <3>3, FS_Union
      <4> QED
        BY <3>2, <3>4, <4>1, <4>2
    <3>6. IsFiniteSet(lost') /\ Cardinality(lost') = Cardinality(lost) + Len(b)
      BY <1>1, <3>3, <3>5, FS_EmptySet
    <3>7. \A i \in 1 .. Len(ingested) : ingested[i] \in 1 .. m /\ ingested[i] \notin lost
      BY DEF SentBy, Below
    <3>8. Below(ingested, packed)' /\ lost' \subseteq 1 .. packed'
      <4>1. Below(ingested, packed)'
        BY <1>1, <3>7 DEF Below
      <4>2. m + 1 .. packed' \subseteq 1 .. packed' /\ 1 .. m \subseteq 1 .. packed'
        BY <1>1
      <4> QED
        BY <1>3, <3>1, <3>3, <4>1, <4>2
    <3>9. \A i \in 1 .. Len(ingested') : ingested'[i] \notin lost'
      BY <1>1, <1>2, <1>3, <3>1, <3>7
    <3>10. SentBy(packed - Len(backlog))'
      BY <1>2, <2>1, <3>1, <3>8, <3>9 DEF SentBy, Below, Increasing
    <3>11. Balance(packed - Len(backlog), feedDropped)'
      BY <1>1, <1>2, <2>1, <3>1, <3>3, <3>6 DEF Balance
    <3> QED
      BY <2>2, <3>1, <3>10, <3>11
  <2> QED
    BY <2>3, <2>4 DEF LinkInv
<1> QED
  BY <1>4, <1>5

-----------------------------------------------------------------------------
(* The invariant, one step per action.                                     *)

(* What was sent by m was sent by any later number.                        *)
LEMMA SentLater ==
  ASSUME NEW m \in Nat, NEW k \in Nat, m <= k, SentBy(m)
  PROVE  SentBy(k)
<1>1. Below(wire, k)
  BY DEF SentBy, Below
<1>2. Below(ingested, k)
  BY DEF SentBy, Below
<1>3. lost \subseteq 1 .. k
  BY DEF SentBy
<1> QED
  BY <1>1, <1>2, <1>3 DEF SentBy

(* A window of samples: the burst is queued, the backlog cut, then drained.*)
LEMMA PackKeeps ==
  ASSUME FeedInv, NEW n \in 1 .. MaxBurst, Pack(n)
  PROVE  FeedInv'
<1> DEFINE burst == [i \in 1 .. n |-> packed + i]
           b     == backlog \o burst
           m     == packed + n - Len(Evicted(b))
<1>1. /\ packed \in Nat /\ n \in Nat /\ MaxPacked \in Nat /\ Len(backlog) \in Nat
      /\ backlog \in Seq(Nat) /\ Len(backlog) <= packed
      /\ packed + n <= MaxPacked /\ packed' = packed + n
  BY FeedAssumption DEF FeedInv, BacklogInv, Pack, Flush
<1>2. burst \in Seq(Nat) /\ Len(burst) = n /\ \A i \in 1 .. n : burst[i] = packed + i
  BY <1>1
<1>3. Len(b) = Len(backlog) + n /\ b \in Seq(Nat) /\ EndsAt(b, packed + n)
  <2>1. EndsAt(backlog, packed)
    BY DEF FeedInv, BacklogInv
  <2> HIDE DEF burst
  <2> QED
    BY <1>1, <1>2, <2>1, BurstAtEnd
<1>4. EndsAt(b, packed + n)
  BY <1>3
<1> HIDE DEF b
<1>5. /\ Evicted(b) \in Seq(Nat) /\ Len(Evicted(b)) \in Nat
      /\ Len(Evicted(b)) <= Len(b) /\ Len(Evicted(b)) <= FeedBacklog
      /\ EndsAt(Evicted(b), packed + n)
  <2>1. Len(b) <= packed + n /\ packed + n \in Nat
    BY <1>1, <1>3
  <2>2. /\ Evicted(b) \in Seq(Nat)
        /\ Len(Evicted(b)) <= Len(b) /\ Len(Evicted(b)) <= FeedBacklog
        /\ EndsAt(Evicted(b), packed + n)
    BY <1>3, <1>4, <2>1, EvictedProperties
  <2> QED
    BY <2>2
<1>6. /\ feedDropped' = feedDropped + Len(b) - Len(Evicted(b))
      /\ Drain(Evicted(b))
  BY DEF b, Pack, Flush
<1>7. /\ sock' = sock /\ link' = link /\ ingested' = ingested
      /\ timers' = timers /\ refused' = refused /\ faults' = faults
  BY DEF Pack
<1>8. /\ m \in Nat /\ packed - Len(backlog) \in Nat /\ packed - Len(backlog) <= m
      /\ packed' = m + Len(Evicted(b))
  BY <1>1, <1>3, <1>5
<1>9. SentBy(m)
  BY <1>8, SentLater DEF FeedInv
<1>10. Balance(m, feedDropped')
  <2>1. feedDropped' = feedDropped + (Len(b) - Len(Evicted(b))) /\ feedDropped' \in Nat
    BY <1>1, <1>3, <1>5, <1>6 DEF FeedInv, Balance
  <2>2. m = (packed - Len(backlog)) + (Len(b) - Len(Evicted(b)))
    BY <1>1, <1>3, <1>5
  <2>3. Len(ingested) \in Nat /\ Len(wire) \in Nat
    BY DEF FeedInv, SentBy
  <2>4. /\ IsFiniteSet(lost) /\ Cardinality(lost) \in Nat /\ feedDropped \in Nat
        /\ packed - Len(backlog) = Len(ingested) + Len(wire) + Cardinality(lost) + feedDropped
    BY DEF FeedInv, Balance
  <2> HIDE DEF m
  <2>5. Len(b) - Len(Evicted(b)) \in Int
    BY <1>1, <1>3, <1>5
  <2>6. m = Len(ingested) + Len(wire) + Cardinality(lost) + feedDropped'
    BY <2>1, <2>2, <2>3, <2>4, <2>5
  <2> QED
    BY <2>1, <2>4, <2>6 DEF Balance
<1>11. packed' \in 0 .. MaxPacked
  BY <1>1
<1>12. /\ BacklogInv' /\ (link' = "lost" => wire' = << >>)
       /\ SentBy(packed - Len(backlog))'
       /\ Balance(packed - Len(backlog), feedDropped)'
  <2> HIDE DEF m
  <2>1. EndsAt(Evicted(b), packed') /\ LinkInv
    BY <1>1, <1>5 DEF FeedInv
  <2> QED
    BY <1>5, <1>6, <1>7, <1>8, <1>9, <1>10, <1>11, <2>1, DrainKeeps
<1>13. LinkInv'
  BY <1>7, <1>12 DEF FeedInv, LinkInv
<1> QED
  BY <1>12, <1>13 DEF FeedInv

(* The drain of the statistics timer.                                      *)
LEMMA PrintStatsKeeps ==
  ASSUME FeedInv, PrintStats
  PROVE  FeedInv'
<1>1. /\ packed' = packed /\ feedDropped' = feedDropped /\ sock' = sock /\ link' = link
      /\ ingested' = ingested /\ timers' = timers /\ refused' = refused /\ faults' = faults
      /\ Drain(backlog)
  BY DEF PrintStats
<1>2. /\ packed \in 0 .. MaxPacked /\ packed \in Nat /\ backlog \in Seq(Nat)
      /\ Len(backlog) \in Nat /\ Len(backlog) <= packed /\ Len(backlog) <= FeedBacklog
      /\ EndsAt(backlog, packed') /\ LinkInv
  BY <1>1 DEF FeedInv, BacklogInv
<1>3. /\ packed - Len(backlog) \in Nat
      /\ packed' = (packed - Len(backlog)) + Len(backlog) /\ packed' \in 0 .. MaxPacked
  BY <1>1, <1>2
<1>4. SentBy(packed - Len(backlog)) /\ Balance(packed - Len(backlog), feedDropped')
  BY <1>1 DEF FeedInv
<1>5. /\ BacklogInv' /\ (link' = "lost" => wire' = << >>)
      /\ SentBy(packed - Len(backlog))'
      /\ Balance(packed - Len(backlog), feedDropped)'
  BY <1>1, <1>2, <1>3, <1>4, DrainKeeps
<1>6. LinkInv'
  BY <1>1, <1>5 DEF FeedInv, LinkInv
<1> QED
  BY <1>5, <1>6 DEF FeedInv

(* The socket events that move no record.                                  *)
LEMMA SocketKeeps ==
  ASSUME FeedInv, ConnectFeed \/ Refused \/ Disconnected
  PROVE  FeedInv'
<1>1. UNCHANGED <<packed, backlog, feedDropped, link, wire, ingested, lost>>
  BY DEF ConnectFeed, Refused, Disconnected
<1>2. sock' = "connected" => sock = "connected"
  BY DEF ConnectFeed, Refused, Disconnected
<1>3. LinkInv'
  <2>1. CASE ConnectFeed
    BY <2>1 DEF FeedInv, LinkInv, ConnectFeed
  <2>2. CASE Refused
    BY <2>2, FeedAssumption DEF FeedInv, LinkInv, Refused
  <2>3. CASE Disconnected
    BY <2>3 DEF FeedInv, LinkInv, Disconnected
  <2> QED
    BY <2>1, <2>2, <2>3
<1>4. BacklogInv'
  BY <1>1, <1>2 DEF FeedInv, BacklogInv, EndsAt
<1>5. SentBy(packed - Len(backlog))' /\ Balance(packed - Len(backlog), feedDropped)'
  BY <1>1 DEF FeedInv, SentBy, Balance, Below, Increasing
<1> QED
  BY <1>3, <1>4, <1>5 DEF FeedInv

(* The backlog goes to a link that carries nothing yet.                    *)
LEMMA ConnectedKeeps ==
  ASSUME FeedInv, Connected
  PROVE  FeedInv'
<1>1. /\ sock = "connecting" /\ sock' = "connected" /\ link' = "up" /\ wire' = backlog
      /\ backlog' = << >>
      /\ UNCHANGED <<packed, feedDropped, timers, ingested, lost, refused, faults>>
  BY DEF Connected
<1>2. /\ packed \in Nat /\ backlog \in Seq(Nat) /\ Len(backlog) \in Nat
      /\ Len(backlog) <= packed /\ EndsAt(backlog, packed)
      /\ wire = << >> /\ Len(wire) = 0
  BY <1>1 DEF FeedInv, BacklogInv, LinkInv
<1> DEFINE m == packed - Len(backlog)
<1>3. m \in Nat /\ m <= packed /\ \A i \in 1 .. Len(backlog) : backlog[i] = m + i
  BY <1>2 DEF EndsAt
<1>4. /\ backlog' \in Seq(Nat) /\ Len(backlog') = 0
      /\ packed' - Len(backlog') = packed
  BY <1>1, <1>2
<1>5. LinkInv'
  BY <1>1 DEF FeedInv, LinkInv
<1>6. BacklogInv'
  BY <1>1, <1>4, FeedAssumption DEF FeedInv, BacklogInv, EndsAt
<1>7. Increasing(backlog)
  BY <1>2, RangeOfInterval
<1>8. SentBy(m)
  BY DEF FeedInv
<1> HIDE DEF m
<1>9. /\ ingested \in Seq(Nat) /\ Len(ingested) \in Nat /\ lost \subseteq 1 .. m
      /\ \A i \in 1 .. Len(ingested) : ingested[i] \in 1 .. m /\ ingested[i] \notin lost
  BY <1>8 DEF SentBy, Below
<1>10. SentBy(packed)'
  <2>1. Below(wire, packed)'
    BY <1>1, <1>2 DEF Below, m, EndsAt
  <2>2. Below(ingested, packed)' /\ lost' \subseteq 1 .. packed'
    BY <1>1, <1>2, <1>3, <1>9 DEF Below
  <2>3. \A i \in 1 .. Len(ingested'), j \in 1 .. Len(wire') : ingested'[i] < wire'[j]
    BY <1>1, <1>2, <1>3, <1>9
  <2>4. \A j \in 1 .. Len(wire') : wire'[j] \notin lost'
    BY <1>1, <1>2, <1>3, <1>9
  <2> QED
    BY <1>1, <1>2, <1>7, <1>8, <1>9, <2>1, <2>2, <2>3, <2>4 DEF SentBy, Increasing
<1>11. Balance(packed, feedDropped)'
  <2>1. Balance(m, feedDropped)
    BY DEF FeedInv, m
  <2>2. packed = m + Len(backlog)
    BY <1>2 DEF m
  <2> QED
    BY <1>1, <1>2, <1>3, <1>9, <2>1, <2>2 DEF Balance
<1> QED
  BY <1>1, <1>4, <1>5, <1>6, <1>10, <1>11 DEF FeedInv

(* The oldest record on the wire becomes the newest in the ring.           *)
LEMMA IngestKeeps ==
  ASSUME FeedInv, Ingest
  PROVE  FeedInv'
<1> DEFINE m == packed - Len(backlog)
<1>1. /\ wire # << >> /\ ingested' = Append(ingested, Head(wire)) /\ wire' = Tail(wire)
      /\ UNCHANGED <<packed, backlog, feedDropped, sock, timers, link, lost, refused, faults>>
  BY DEF Ingest
<1>2. SentBy(m) /\ Balance(m, feedDropped)
  BY DEF FeedInv
<1>3. m' = m
  BY <1>1
<1> HIDE DEF m
<1>4. /\ wire \in Seq(Nat) /\ ingested \in Seq(Nat)
      /\ Len(wire) \in Nat /\ Len(ingested) \in Nat
  BY <1>2 DEF SentBy
<1>5. /\ Len(wire) >= 1 /\ Head(wire) = wire[1] /\ wire[1] \in Nat
      /\ wire' \in Seq(Nat) /\ Len(wire') = Len(wire) - 1
      /\ \A i \in 1 .. Len(wire') : i + 1 \in 1 .. Len(wire) /\ wire'[i] = wire[i + 1]
  BY <1>1, <1>4
<1>6. /\ ingested' \in Seq(Nat) /\ Len(ingested') = Len(ingested) + 1
      /\ ingested'[Len(ingested) + 1] = wire[1]
      /\ \A i \in 1 .. Len(ingested) : ingested'[i] = ingested[i]
      /\ \A i \in 1 .. Len(ingested') : i \in 1 .. Len(ingested) \/ i = Len(ingested) + 1
  BY <1>1, <1>4, <1>5
<1>7. 1 \in 1 .. Len(wire)
  BY <1>4, <1>5
<1>8. LinkInv'
  BY <1>1 DEF FeedInv, LinkInv
<1>9. BacklogInv'
  BY <1>1 DEF FeedInv, BacklogInv, EndsAt
<1>10. Below(wire, m)' /\ Below(ingested, m)'
  BY <1>2, <1>3, <1>5, <1>6, <1>7 DEF SentBy, Below
<1>11. Increasing(wire)'
  <2>1. \A i, j \in 1 .. Len(wire) : i < j => wire[i] < wire[j]
    BY <1>2 DEF SentBy, Increasing
  <2>2. ASSUME NEW i \in 1 .. Len(wire'), NEW j \in 1 .. Len(wire'), i < j
        PROVE  wire'[i] < wire'[j]
    <3>1. i + 1 \in 1 .. Len(wire) /\ j + 1 \in 1 .. Len(wire) /\ i + 1 < j + 1
      BY <1>4, <1>5, <2>2
    <3> QED
      BY <1>5, <2>1, <3>1
  <2> QED
    BY <2>2 DEF Increasing
<1>12. Increasing(ingested)'
  <2> SUFFICES ASSUME NEW i \in 1 .. Len(ingested'), NEW j \in 1 .. Len(ingested'), i < j
               PROVE  ingested'[i] < ingested'[j]
    BY DEF Increasing
  <2>1. i \in 1 .. Len(ingested)
    BY <1>4, <1>6
  <2>2. CASE j \in 1 .. Len(ingested)
    BY <1>2, <1>6, <2>1, <2>2 DEF SentBy, Increasing
  <2>3. CASE j = Len(ingested) + 1
    BY <1>2, <1>6, <1>7, <2>1, <2>3 DEF SentBy
  <2> QED
    BY <1>6, <2>2, <2>3
<1>13. \A i \in 1 .. Len(ingested'), j \in 1 .. Len(wire') : ingested'[i] < wire'[j]
  <2> SUFFICES ASSUME NEW i \in 1 .. Len(ingested'), NEW j \in 1 .. Len(wire')
               PROVE  ingested'[i] < wire'[j]
    OBVIOUS
  <2>1. CASE i \in 1 .. Len(ingested)
    BY <1>2, <1>5, <1>6, <2>1 DEF SentBy
  <2>2. CASE i = Len(ingested) + 1
    <3>1. \A k, l \in 1 .. Len(wire) : k < l => wire[k] < wire[l]
      BY <1>2 DEF SentBy, Increasing
    <3>2. j + 1 \in 1 .. Len(wire) /\ 1 < j + 1 /\ wire'[j] = wire[j + 1]
      BY <1>4, <1>5
    <3> QED
      BY <1>6, <1>7, <2>2, <3>1, <3>2
  <2> QED
    BY <1>6, <2>1, <2>2
<1>14. \A i \in 1 .. Len(ingested') : ingested'[i] \notin lost'
  BY <1>1, <1>2, <1>6, <1>7 DEF SentBy
<1>15. \A i \in 1 .. Len(wire') : wire'[i] \notin lost'
  BY <1>1, <1>2, <1>5 DEF SentBy
<1>16. SentBy(m)'
  BY <1>1, <1>2, <1>3, <1>5, <1>6, <1>10, <1>11, <1>12, <1>13, <1>14, <1>15 DEF SentBy
<1>17. Balance(m, feedDropped)'
  BY <1>1, <1>2, <1>3, <1>4, <1>5, <1>6 DEF Balance
<1> QED
  BY <1>8, <1>9, <1>16, <1>17 DEF FeedInv, m

(* What was on the wire is lost, each record once.                         *)
LEMMA BreakKeeps ==
  ASSUME FeedInv, Break
  PROVE  FeedInv'
<1> DEFINE m == packed - Len(backlog)
<1>1. /\ link = "up" /\ faults < MaxFaults /\ faults' = faults + 1 /\ link' = "lost"
      /\ lost' = lost \union Range(wire) /\ wire' = << >>
      /\ UNCHANGED <<packed, backlog, feedDropped, sock, timers, ingested, refused>>
  BY DEF Break
<1>2. SentBy(m) /\ Balance(m, feedDropped) /\ m' = m
  BY <1>1 DEF FeedInv
<1> HIDE DEF m
<1>3. /\ wire \in Seq(Nat) /\ Len(wire) \in Nat /\ Len(ingested) \in Nat
      /\ Increasing(wire) /\ wire' \in Seq(Nat) /\ Len(wire') = 0
      /\ IsFiniteSet(lost) /\ Cardinality(lost) \in Nat
  BY <1>1, <1>2 DEF SentBy, Balance
<1>4. IsFiniteSet(Range(wire)) /\ Cardinality(Range(wire)) = Len(wire)
  BY <1>3, RangeOfDistinct
<1>5. \A x \in Range(wire) : \E i \in 1 .. Len(wire) : x = wire[i]
  BY <1>3 DEF Range
<1>6. /\ Range(wire) \subseteq 1 .. m /\ lost \cap Range(wire) = {}
      /\ \A i \in 1 .. Len(ingested) : ingested[i] \notin Range(wire)
  <2>1. Range(wire) \subseteq 1 .. m /\ lost \cap Range(wire) = {}
    BY <1>2, <1>5 DEF SentBy, Below
  <2>2. ASSUME NEW i \in 1 .. Len(ingested), ingested[i] \in Range(wire)
        PROVE  FALSE
    <3>1. PICK j \in 1 .. Len(wire) : ingested[i] = wire[j]
      BY <1>5, <2>2
    <3>2. ingested[i] < wire[j] /\ wire[j] \in Nat
      BY <1>2, <1>3 DEF SentBy
    <3> QED
      BY <3>1, <3>2
  <2> QED
    BY <2>1, <2>2
<1>7. IsFiniteSet(lost') /\ Cardinality(lost') = Cardinality(lost) + Len(wire)
  <2>1. /\ IsFiniteSet(lost \union Range(wire))
        /\ Cardinality(lost \union Range(wire))
             = Cardinality(lost) + Cardinality(Range(wire)) - Cardinality(lost \cap Range(wire))
    BY <1>3, <1>4, FS_Union
  <2>2. Cardinality(lost \cap Range(wire)) = 0
    BY <1>6, FS_EmptySet
  <2> QED
    BY <1>1, <1>3, <1>4, <2>1, <2>2
<1>8. LinkInv'
  BY <1>1, FeedAssumption DEF FeedInv, LinkInv
<1>9. BacklogInv'
  BY <1>1 DEF FeedInv, BacklogInv, EndsAt
<1>10. SentBy(m)'
  <2>1. Below(wire, m)' /\ Increasing(wire)' /\ Increasing(ingested)' /\ Below(ingested, m)'
    BY <1>1, <1>2, <1>3 DEF SentBy, Below, Increasing
  <2>2. lost' \subseteq 1 .. m /\ \A i \in 1 .. Len(ingested) : ingested[i] \notin lost'
    BY <1>1, <1>2, <1>6 DEF SentBy
  <2> QED
    BY <1>1, <1>2, <1>3, <2>1, <2>2 DEF SentBy
<1>11. Balance(m, feedDropped)'
  BY <1>1, <1>2, <1>3, <1>7 DEF Balance
<1> QED
  BY <1>8, <1>9, <1>10, <1>11 DEF FeedInv, m

(* FeedInv is inductive.                                                   *)
LEMMA FeedInvInductive == FeedInv /\ [Next]_vars => FeedInv'
<1> SUFFICES ASSUME FeedInv, [Next]_vars
             PROVE  FeedInv'
  OBVIOUS
<1>1. ASSUME NEW n \in 1 .. MaxBurst, Pack(n) PROVE FeedInv'
  BY <1>1, PackKeeps
<1>2. CASE PrintStats
  BY <1>2, PrintStatsKeeps
<1>3. CASE ConnectFeed \/ Refused \/ Disconnected
  BY <1>3, SocketKeeps
<1>4. CASE Connected
  BY <1>4, ConnectedKeeps
<1>5. CASE Ingest
  BY <1>5, IngestKeeps
<1>6. CASE Break
  BY <1>6, BreakKeeps
<1>7. CASE UNCHANGED vars
  BY <1>7 DEF vars, FeedInv, LinkInv, BacklogInv, SentBy, Balance, EndsAt, Below, Increasing
<1> QED
  BY <1>1, <1>2, <1>3, <1>4, <1>5, <1>6, <1>7 DEF Next

(* It holds when tpacq starts.                                             *)
LEMMA FeedInvInitially == Init => FeedInv
<1> SUFFICES ASSUME Init
             PROVE  FeedInv
  OBVIOUS
<1>1. /\ packed = 0 /\ backlog = << >> /\ feedDropped = 0 /\ sock = "connecting" /\ timers = 0
      /\ link = "lost" /\ wire = << >> /\ ingested = << >> /\ lost = {} /\ refused = FALSE
      /\ faults = 0
  BY DEF Init
<1>2. backlog \in Seq(Nat) /\ wire \in Seq(Nat) /\ ingested \in Seq(Nat)
      /\ Len(backlog) = 0 /\ Len(wire) = 0 /\ Len(ingested) = 0
  BY <1>1
<1>3. IsFiniteSet(lost) /\ Cardinality(lost) = 0
  BY <1>1, FS_EmptySet
<1>4. LinkInv
  BY <1>1, FeedAssumption DEF LinkInv
<1>6. BacklogInv
  BY <1>1, <1>2, FeedAssumption DEF BacklogInv, EndsAt
<1>5. SentBy(0) /\ Balance(0, feedDropped)
  BY <1>1, <1>2, <1>3 DEF SentBy, Balance, Below, Increasing
<1> QED
  BY <1>1, <1>2, <1>4, <1>5, <1>6 DEF FeedInv

(* It holds in every reachable state.                                      *)
LEMMA FeedInvAlways == Spec => []FeedInv
BY FeedInvInitially, FeedInvInductive, PTL DEF Spec

(* The type of a history variable, apart: the solvers take Booleans alone. *)
LEMMA RefusedIsBoolean == Spec => [](refused \in BOOLEAN)
<1>1. Init => refused \in BOOLEAN
  BY DEF Init
<1>2. refused \in BOOLEAN /\ [Next]_vars => (refused \in BOOLEAN)'
  BY DEF Next, vars, Pack, PrintStats, ConnectFeed, Connected, Refused, Disconnected, Ingest, Break
<1> QED
  BY <1>1, <1>2, PTL DEF Spec

-----------------------------------------------------------------------------
(* What follows from it.                                                   *)

(* The path, place by place.                                               *)
LEMMA PathShape ==
  ASSUME FeedInv
  PROVE  /\ Path \in Seq(Nat) /\ Len(Path) = Len(ingested) + Len(wire) + Len(backlog)
         /\ \A i \in 1 .. Len(ingested) : Path[i] = ingested[i]
         /\ \A i \in 1 .. Len(wire) : Path[Len(ingested) + i] = wire[i]
         /\ \A i \in 1 .. Len(backlog) : Path[Len(ingested) + Len(wire) + i] = backlog[i]
<1>1. /\ ingested \in Seq(Nat) /\ wire \in Seq(Nat) /\ backlog \in Seq(Nat)
      /\ Len(ingested) \in Nat /\ Len(wire) \in Nat /\ Len(backlog) \in Nat
  BY DEF FeedInv, SentBy, BacklogInv
<1> DEFINE sent == ingested \o wire
<1>2. /\ sent \in Seq(Nat) /\ Len(sent) = Len(ingested) + Len(wire)
      /\ \A i \in 1 .. Len(ingested) : sent[i] = ingested[i]
      /\ \A i \in 1 .. Len(wire) : sent[Len(ingested) + i] = wire[i]
  BY <1>1
<1>3. Path = sent \o backlog
  BY DEF Path
<1> HIDE DEF sent
<1>4. /\ sent \o backlog \in Seq(Nat) /\ Len(sent \o backlog) = Len(sent) + Len(backlog)
      /\ \A i \in 1 .. Len(sent) : (sent \o backlog)[i] = sent[i]
      /\ \A i \in 1 .. Len(backlog) : (sent \o backlog)[Len(sent) + i] = backlog[i]
  <2>1. sent \in Seq(Nat) /\ Len(sent) \in Nat /\ backlog \in Seq(Nat) /\ Len(backlog) \in Nat
    BY <1>1, <1>2
  <2> QED
    BY ONLY <2>1
<1>5. \A i \in 1 .. Len(ingested) : i \in 1 .. Len(sent)
  BY <1>1, <1>2
<1>6. \A i \in 1 .. Len(wire) : Len(ingested) + i \in 1 .. Len(sent)
  BY <1>1, <1>2
<1> QED
  BY <1>2, <1>3, <1>4, <1>5, <1>6

(* FeedInv orders the whole path.                                          *)
LEMMA PathIncreases ==
  ASSUME FeedInv
  PROVE  InOrder
<1>1. /\ Path \in Seq(Nat) /\ Len(Path) = Len(ingested) + Len(wire) + Len(backlog)
      /\ \A i \in 1 .. Len(ingested) : Path[i] = ingested[i]
      /\ \A i \in 1 .. Len(wire) : Path[Len(ingested) + i] = wire[i]
      /\ \A i \in 1 .. Len(backlog) : Path[Len(ingested) + Len(wire) + i] = backlog[i]
  BY PathShape
<1>2. /\ Len(ingested) \in Nat /\ Len(wire) \in Nat /\ Len(backlog) \in Nat
      /\ packed \in Nat /\ Len(backlog) <= packed
  BY DEF FeedInv, SentBy, BacklogInv
<1>3. \A i \in 1 .. Len(backlog) : backlog[i] = packed - Len(backlog) + i
  BY DEF FeedInv, BacklogInv, EndsAt
<1>4. /\ \A i \in 1 .. Len(ingested) : ingested[i] \in 1 .. packed - Len(backlog)
      /\ \A i \in 1 .. Len(wire) : wire[i] \in 1 .. packed - Len(backlog)
      /\ \A i, j \in 1 .. Len(ingested) : i < j => ingested[i] < ingested[j]
      /\ \A i, j \in 1 .. Len(wire) : i < j => wire[i] < wire[j]
      /\ \A i \in 1 .. Len(ingested), j \in 1 .. Len(wire) : ingested[i] < wire[j]
  BY DEF FeedInv, SentBy, Below, Increasing
<1> SUFFICES ASSUME NEW i \in 1 .. (Len(Path) - 1)
             PROVE  Path[i] < Path[i + 1]
  BY DEF InOrder
<1> DEFINE f == Len(ingested)
           g == Len(ingested) + Len(wire)
<1>5. CASE i + 1 \in 1 .. f
  <2>1. i \in 1 .. f
    BY <1>2, <1>5
  <2> QED
    BY <1>1, <1>4, <1>5, <2>1
<1>6. CASE i = f /\ i + 1 <= g
  <2>1. i \in 1 .. Len(ingested) /\ 1 \in 1 .. Len(wire)
    BY <1>2, <1>6
  <2>2. Path[i] = ingested[i] /\ Path[Len(ingested) + 1] = wire[1]
    BY <1>1, <2>1
  <2> QED
    BY <1>4, <1>6, <2>1, <2>2
<1>7. CASE f < i /\ i + 1 <= g
  <2>1. /\ i - f \in 1 .. Len(wire) /\ i - f + 1 \in 1 .. Len(wire) /\ i - f < i - f + 1
        /\ Len(ingested) + (i - f) = i /\ Len(ingested) + (i - f + 1) = i + 1
    BY <1>2, <1>7
  <2>2. Path[i] = wire[i - f]
    <3>1. Path[Len(ingested) + (i - f)] = wire[i - f]
      BY ONLY <1>1, <2>1
    <3> QED
      BY ONLY <2>1, <3>1
  <2>3. Path[i + 1] = wire[i - f + 1]
    <3>1. Path[Len(ingested) + (i - f + 1)] = wire[i - f + 1]
      BY ONLY <1>1, <2>1
    <3> QED
      BY ONLY <2>1, <3>1
  <2> QED
    BY <1>4, <2>1, <2>2, <2>3
<1>8. CASE i <= g /\ i + 1 > g
  <2>1. i = g /\ 1 \in 1 .. Len(backlog)
    BY <1>1, <1>2, <1>8
  <2>2. Path[i + 1] = packed - Len(backlog) + 1
    BY <1>1, <1>3, <2>1
  <2>3. CASE i \in 1 .. Len(ingested)
    BY <1>1, <1>2, <1>4, <2>2, <2>3
  <2>4. CASE i > Len(ingested)
    <3>1. i - f \in 1 .. Len(wire) /\ Len(ingested) + (i - f) = i
      BY <1>2, <2>1, <2>4
    <3>2. Path[i] = wire[i - f]
      BY <1>1, <3>1
    <3> QED
      BY <1>2, <1>4, <2>2, <3>1, <3>2
  <2> QED
    BY <1>2, <2>3, <2>4
<1>9. CASE g < i
  <2>1. /\ i - g \in 1 .. Len(backlog) /\ i - g + 1 \in 1 .. Len(backlog)
        /\ Len(ingested) + Len(wire) + (i - g) = i
        /\ Len(ingested) + Len(wire) + (i - g + 1) = i + 1
    BY <1>1, <1>2, <1>9
  <2>2. Path[i] = backlog[i - g]
    <3>1. Path[Len(ingested) + Len(wire) + (i - g)] = backlog[i - g]
      BY ONLY <1>1, <2>1
    <3> QED
      BY ONLY <2>1, <3>1
  <2>3. Path[i + 1] = backlog[i - g + 1]
    <3>1. Path[Len(ingested) + Len(wire) + (i - g + 1)] = backlog[i - g + 1]
      BY ONLY <1>1, <2>1
    <3> QED
      BY ONLY <2>1, <3>1
  <2>4. /\ backlog[i - g] = packed - Len(backlog) + (i - g)
        /\ backlog[i - g + 1] = packed - Len(backlog) + (i - g + 1)
    BY ONLY <1>3, <2>1
  <2>5. i - g \in Int
    BY <2>1
  <2> QED
    BY <1>2, <2>2, <2>3, <2>4, <2>5
<1> QED
  BY <1>2, <1>5, <1>6, <1>7, <1>8, <1>9

(* FeedInv balances the counters.                                          *)
LEMMA CountersAgree ==
  ASSUME FeedInv
  PROVE  Accounted
<1>1. Len(Path) = Len(ingested) + Len(wire) + Len(backlog)
  BY PathShape
<1>2. /\ Len(ingested) \in Nat /\ Len(wire) \in Nat /\ Len(backlog) \in Nat /\ packed \in Nat
      /\ Cardinality(lost) \in Nat /\ feedDropped \in Nat
      /\ packed - Len(backlog) = Len(ingested) + Len(wire) + Cardinality(lost) + feedDropped
  BY DEF FeedInv, SentBy, BacklogInv, Balance
<1> QED
  BY <1>1, <1>2 DEF Accounted

(* FeedInv types the state.                                                *)
LEMMA FeedTypes ==
  ASSUME FeedInv, refused \in BOOLEAN
  PROVE  TypeOK
<1>1. /\ packed \in 0 .. MaxPacked /\ packed \in Nat /\ Len(backlog) \in Nat
      /\ Len(backlog) <= packed /\ Len(backlog) <= FeedBacklog
      /\ wire \in Seq(Nat) /\ ingested \in Seq(Nat) /\ backlog \in Seq(Nat)
      /\ Len(wire) \in Nat /\ Len(ingested) \in Nat
  BY DEF FeedInv, BacklogInv, SentBy
<1>2. feedDropped \in 0 .. packed
  BY <1>1 DEF FeedInv, Balance
<1>3. /\ \A i \in 1 .. Len(wire) : wire[i] \in 1 .. packed
      /\ \A i \in 1 .. Len(ingested) : ingested[i] \in 1 .. packed
      /\ lost \subseteq 1 .. packed
  BY <1>1 DEF FeedInv, SentBy, Below
<1>4. \A i \in 1 .. Len(backlog) : backlog[i] \in 1 .. packed
  BY <1>1 DEF FeedInv, BacklogInv, EndsAt
<1>5. backlog \in Seq(1 .. packed) /\ wire \in Seq(1 .. packed) /\ ingested \in Seq(1 .. packed)
  BY <1>1, <1>3, <1>4, SeqNarrows
<1>6. /\ sock \in {"unconnected", "connecting", "connected"} /\ timers \in 0 .. 1
      /\ link \in {"up", "lost"} /\ faults \in 0 .. MaxFaults
  BY DEF FeedInv, LinkInv
<1> QED
  BY <1>1, <1>2, <1>3, <1>5, <1>6 DEF TypeOK

(* Every variable keeps its type; in particular at most one reconnect      *)
(* timer is pending, and the backlog never holds more than --feed-backlog  *)
(* records.                                                                *)
THEOREM TypeTheorem == Spec => []TypeOK
BY FeedInvAlways, RefusedIsBoolean, FeedTypes, PTL

(* tpslinkserver gets the records in the order tpacq packed them, and none *)
(* twice, however often the feed breaks and for any size of the backlog.   *)
THEOREM OrderTheorem == Spec => []InOrder
BY FeedInvAlways, PathIncreases, PTL

(* Every record packed is ingested, under way, waiting, lost with a broken *)
(* link or counted in feedDropped, and in one of these only.               *)
THEOREM AccountTheorem == Spec => []Accounted
BY FeedInvAlways, CountersAgree, PTL

(* What waits is always the newest that was packed, without a hole, and    *)
(* nothing waits while the socket is connected.                            *)
THEOREM NewestTheorem == Spec => []NewestKept
<1>1. FeedInv => NewestKept
  BY DEF FeedInv, BacklogInv, EndsAt, NewestKept
<1> QED
  BY <1>1, FeedInvAlways, PTL
=============================================================================

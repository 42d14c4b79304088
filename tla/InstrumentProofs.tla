------------------------- MODULE InstrumentProofs -------------------------
(***************************************************************************)
(* The instrument and its reader, for any delays of the boot and the       *)
(* retry, any range of the packet numbers and any number of faults.        *)
(***************************************************************************)
EXTENDS Instrument, Facts

Byte == {"M", "S", "x"}

(* Two runs of bytes, one after the other.                                 *)
LEMMA Joined ==
  ASSUME NEW s \in Seq(Byte), NEW t \in Seq(Byte)
  PROVE  /\ s \o t \in Seq(Byte) /\ Len(s \o t) = Len(s) + Len(t)
         /\ Len(s) \in Nat /\ Len(t) \in Nat
         /\ \A i \in 1 .. Len(s) : (s \o t)[i] = s[i]
         /\ \A i \in 1 .. Len(t) : (s \o t)[Len(s) + i] = t[i]
<1>1. /\ s \o t \in Seq(Byte) /\ Len(s \o t) = Len(s) + Len(t)
      /\ Len(s) \in Nat /\ Len(t) \in Nat
      /\ \A i \in 1 .. Len(s) : (s \o t)[i] = s[i]
      /\ \A i \in Len(s) + 1 .. Len(s) + Len(t) : (s \o t)[i] = t[i - Len(s)]
  OBVIOUS
<1>2. ASSUME NEW i \in 1 .. Len(t) PROVE (s \o t)[Len(s) + i] = t[i]
  <2>1. Len(s) + i \in Len(s) + 1 .. Len(s) + Len(t) /\ (Len(s) + i) - Len(s) = i
    BY <1>1
  <2> QED
    BY <1>1, <2>1
<1> QED
  BY <1>1, <1>2

(* The bytes of a packet: only the first is surely the M of the magic.     *)
LEMMA PacketFacts ==
  ASSUME NEW p \in Payloads
  PROVE  /\ Packet(p) \in Seq(Byte) /\ Len(Packet(p)) = PacketLen
         /\ Packet(p)[1] = "M" /\ Packet(p)[2] = "S"
         /\ p = <<"x", "x">> => \A i \in 2 .. PacketLen : Packet(p)[i] # "M"
<1> DEFINE a == <<"M", "S", "x">>
           z == <<"x">>
<1>1. /\ a \in Seq(Byte) /\ Len(a) = 3 /\ a[1] = "M" /\ a[2] = "S" /\ a[3] = "x"
      /\ z \in Seq(Byte) /\ Len(z) = 1 /\ z[1] = "x"
  BY DEF Byte
<1>2. /\ p \in Seq(Byte) /\ Len(p) = 2
      /\ p = <<"x", "x">> => p[1] = "x" /\ p[2] = "x"
  <2>1. CASE p = <<"x", "x">>
    BY <2>1 DEF Byte
  <2>2. CASE p = <<"M", "S">>
    <3>1. p[1] # "x"
      BY <2>2
    <3>2. p # <<"x", "x">>
      BY <3>1
    <3> QED
      BY <2>2, <3>2 DEF Byte
  <2> QED
    BY <2>1, <2>2 DEF Payloads
<1> HIDE DEF a, z
<1> DEFINE b == a \o p
<1>3. /\ b \in Seq(Byte) /\ Len(b) = 5
      /\ \A i \in 1 .. 3 : b[i] = a[i]
      /\ b[4] = p[1] /\ b[5] = p[2]
  <2>1. /\ b \in Seq(Byte) /\ Len(b) = Len(a) + Len(p)
        /\ \A i \in 1 .. Len(a) : b[i] = a[i]
        /\ \A i \in 1 .. Len(p) : b[Len(a) + i] = p[i]
    BY <1>1, <1>2, Joined
  <2> HIDE DEF b
  <2> QED
    BY <1>1, <1>2, <2>1
<1> HIDE DEF b
<1> DEFINE q == b \o z
<1>4. /\ q \in Seq(Byte) /\ Len(q) = 6
      /\ \A i \in 1 .. 5 : q[i] = b[i]
      /\ q[6] = z[1]
  <2>1. /\ q \in Seq(Byte) /\ Len(q) = Len(b) + Len(z)
        /\ \A i \in 1 .. Len(b) : q[i] = b[i]
        /\ \A i \in 1 .. Len(z) : q[Len(b) + i] = z[i]
    BY <1>1, <1>3, Joined
  <2> HIDE DEF q
  <2> QED
    BY <1>1, <1>3, <2>1
<1>5. q = Packet(p)
  BY DEF Packet, q, b, a, z
<1> HIDE DEF q
<1>6. /\ q[1] = "M" /\ q[2] = "S"
      /\ p = <<"x", "x">> => \A i \in 2 .. 6 : q[i] # "M"
  BY <1>1, <1>2, <1>3, <1>4
<1> QED
  BY <1>4, <1>5, <1>6 DEF PacketLen

(* A damaged packet is bytes, and no more than a whole one.                *)
LEMMA DamagedFacts ==
  ASSUME NEW p \in Payloads, NEW bytes \in Damaged(p)
  PROVE  bytes \in Seq(Byte) /\ Len(bytes) <= PacketLen
<1> DEFINE q == Packet(p)
<1>1. q \in Seq(Byte) /\ Len(q) = PacketLen /\ PacketLen \in Nat
  BY PacketFacts DEF PacketLen
<1>2. \/ \E i \in 0 .. PacketLen : \E j \in i + 1 .. PacketLen :
           bytes = SubSeq(q, 1, i) \o SubSeq(q, j + 1, PacketLen)
      \/ \E i \in 1 .. PacketLen : bytes = [q EXCEPT ![i] = "x"]
  <2> HIDE DEF q
  <2> DEFINE Lost(i) == {SubSeq(q, 1, i) \o SubSeq(q, j + 1, PacketLen) :
                           j \in i + 1 .. PacketLen}
             Losses  == {Lost(i) : i \in 0 .. PacketLen}
             Garbled == {[q EXCEPT ![i] = "x"] : i \in 1 .. PacketLen}
  <2>1. Damaged(p) = (UNION Losses) \union Garbled
    BY DEF Damaged, q
  <2>2. \A b \in Garbled : \E i \in 1 .. PacketLen : b = [q EXCEPT ![i] = "x"]
    OBVIOUS
  <2>3. \A c \in Losses : \E i \in 0 .. PacketLen : c = Lost(i)
    OBVIOUS
  <2> HIDE DEF Losses, Garbled
  <2>4. CASE bytes \in Garbled
    BY <2>2, <2>4
  <2>5. CASE bytes \in UNION Losses
    <3>1. PICK c \in Losses : bytes \in c
      BY <2>5
    <3>2. PICK i \in 0 .. PacketLen : c = Lost(i)
      BY <2>3
    <3> QED
      BY <3>1, <3>2
  <2> QED
    BY <2>1, <2>4, <2>5
<1> HIDE DEF q
<1>3. ASSUME NEW i \in 0 .. PacketLen, NEW j \in i + 1 .. PacketLen,
             bytes = SubSeq(q, 1, i) \o SubSeq(q, j + 1, PacketLen)
      PROVE  bytes \in Seq(Byte) /\ Len(bytes) <= PacketLen
  <2>1. SubSeq(q, 1, i) \in Seq(Byte) /\ Len(SubSeq(q, 1, i)) = i
    BY <1>1
  <2>2. /\ SubSeq(q, j + 1, PacketLen) \in Seq(Byte)
        /\ Len(SubSeq(q, j + 1, PacketLen)) = PacketLen - j
    BY <1>1
  <2> QED
    BY <1>1, <1>3, <2>1, <2>2
<1>4. ASSUME NEW i \in 1 .. PacketLen, bytes = [q EXCEPT ![i] = "x"]
      PROVE  bytes \in Seq(Byte) /\ Len(bytes) <= PacketLen
  BY <1>1, <1>4 DEF Byte
<1> QED
  BY <1>2, <1>3, <1>4

(* The first magic of a buffer.                                            *)
LEMMA StartFacts ==
  ASSUME NEW b \in Seq(Byte)
  PROVE  /\ Start(b) \in 0 .. Len(b)
         /\ Start(b) = 0 <=> Magics(b) = {}
         /\ Start(b) # 0 => /\ Start(b) \in Magics(b)
                            /\ \A i \in Magics(b) : Start(b) <= i
<1>1. Len(b) \in Nat /\ Magics(b) \subseteq 1 .. Len(b) /\ Magics(b) \subseteq Nat
  BY DEF Magics
<1>2. CASE Magics(b) = {}
  BY <1>1, <1>2 DEF Start
<1>3. CASE Magics(b) # {}
  <2>1. \E i \in Magics(b) : \A j \in Magics(b) : i <= j
    BY <1>1, <1>3, Smallest
  <2>2. Start(b) = CHOOSE i \in Magics(b) : \A j \in Magics(b) : i <= j
    BY <1>3 DEF Start
  <2>3. Start(b) \in Magics(b) /\ \A j \in Magics(b) : Start(b) <= j
    BY <2>1, <2>2
  <2> QED
    BY <1>1, <1>3, <2>3
<1> QED
  BY <1>2, <1>3

(* The parts of a buffer that parseBuffer may keep.                        *)
LEMMA Kept ==
  ASSUME NEW b \in Seq(Byte), NEW i \in 1 .. Len(b) + 1
  PROVE  /\ SubSeq(b, i, Len(b)) \in Seq(Byte)
         /\ Len(SubSeq(b, i, Len(b))) = Len(b) - i + 1
         /\ \A k \in 1 .. Len(b) - i + 1 : SubSeq(b, i, Len(b))[k] = b[i + k - 1]
<1>1. Len(b) \in Nat /\ i \in Int /\ \A k \in i .. Len(b) : b[k] \in Byte
  OBVIOUS
<1> QED
  BY <1>1, SubSeqProperties

(* A buffer shorter than a packet and the bytes of one leave less than a   *)
(* packet.                                                                 *)
LEMMA RemainderFacts ==
  ASSUME NEW b \in Seq(Byte), Len(b) < 2 * PacketLen
  PROVE  Remainder(b) \in Seq(Byte) /\ Len(Remainder(b)) < PacketLen
<1>1. Len(b) \in Nat /\ Start(b) \in 0 .. Len(b) /\ PacketLen = 6
  BY StartFacts DEF PacketLen
<1>2. CASE Len(b) < PacketLen
  BY <1>1, <1>2 DEF Remainder
<1>3. CASE Len(b) >= PacketLen /\ Start(b) = 0
  <2>1. Remainder(b) = SubSeq(b, Len(b), Len(b))
    BY <1>1, <1>3 DEF Remainder
  <2> QED
    BY <1>1, <1>3, <2>1, Kept
<1>4. CASE Start(b) > 0 /\ Len(b) >= PacketLen /\ Len(b) - Start(b) + 1 < PacketLen
  <2>1. Remainder(b) = SubSeq(b, Start(b), Len(b))
    BY <1>1, <1>4 DEF Remainder
  <2> QED
    BY <1>1, <1>4, <2>1, Kept
<1>5. CASE Start(b) > 0 /\ Len(b) - Start(b) + 1 >= PacketLen
  <2>1. Remainder(b) = SubSeq(b, Start(b) + PacketLen, Len(b))
    BY <1>1, <1>5 DEF Remainder
  <2> QED
    BY <1>1, <1>5, <2>1, Kept
<1> QED
  BY <1>1, <1>2, <1>3, <1>4, <1>5

NoMagic(b) == \A i \in 1 .. Len(b) : b[i] # "M"

(* An intact packet without a false magic leaves nothing that could be     *)
(* taken for the beginning of one.                                         *)
LEMMA QuietAfter ==
  ASSUME NEW b \in Seq(Byte), Len(b) < PacketLen
  PROVE  NoMagic(Remainder(b \o Packet(<<"x", "x">>)))
<1> DEFINE q == Packet(<<"x", "x">>)
           c == b \o q
<1>1. /\ q \in Seq(Byte) /\ Len(q) = PacketLen /\ PacketLen = 6
      /\ q[1] = "M" /\ q[2] = "S" /\ \A i \in 2 .. PacketLen : q[i] # "M"
  BY PacketFacts DEF Payloads, PacketLen
<1> HIDE DEF q
<1>2. /\ c \in Seq(Byte) /\ Len(c) = Len(b) + PacketLen /\ Len(b) \in Nat
      /\ \A i \in 1 .. Len(q) : c[Len(b) + i] = q[i]
  <2>1. /\ c \in Seq(Byte) /\ Len(c) = Len(b) + Len(q) /\ Len(b) \in Nat
        /\ \A i \in 1 .. Len(q) : c[Len(b) + i] = q[i]
    BY <1>1, Joined
  <2> HIDE DEF c
  <2> QED
    BY <1>1, <2>1
<1> HIDE DEF c
<1>3. c[Len(b) + 1] = "M" /\ c[(Len(b) + 1) + 1] = "S"
  BY <1>1, <1>2
<1>4. Len(b) + 1 \in Magics(c)
  BY <1>1, <1>2, <1>3 DEF Magics
<1>5. Start(c) \in 1 .. Len(b) + 1
  BY <1>2, <1>4, StartFacts
<1> DEFINE s == Start(c)
<1>6. s \in Nat /\ s >= 1 /\ s <= Len(b) + 1 /\ Len(c) - s + 1 >= PacketLen
  BY <1>1, <1>2, <1>5
<1>7. Remainder(c) = SubSeq(c, s + PacketLen, Len(c))
  <2>1. s # 0 /\ ~(Len(c) < PacketLen) /\ ~(Len(c) - s + 1 < PacketLen)
    BY <1>1, <1>2, <1>6, SMTT(30)
  <2> QED
    BY <2>1 DEF Remainder
<1> HIDE DEF s
<1>8. s + PacketLen \in 1 .. Len(c) + 1
  BY <1>1, <1>2, <1>6
<1>9. /\ Len(Remainder(c)) = Len(c) - (s + PacketLen) + 1
      /\ \A k \in 1 .. Len(c) - (s + PacketLen) + 1 :
           Remainder(c)[k] = c[(s + PacketLen) + k - 1]
  BY <1>2, <1>7, <1>8, Kept
<1>10. ASSUME NEW k \in 1 .. Len(Remainder(c)) PROVE Remainder(c)[k] # "M"
  <2> DEFINE i == s + PacketLen + k - 1 - Len(b)
  <2>1. k \in Nat /\ k >= 1 /\ k <= Len(c) - (s + PacketLen) + 1
    BY <1>1, <1>2, <1>6, <1>9
  <2>2. i \in 2 .. PacketLen /\ (s + PacketLen) + k - 1 = Len(b) + i
    BY <1>1, <1>2, <1>6, <2>1, SMTT(30)
  <2>3. Remainder(c)[k] = c[Len(b) + i]
    BY <1>9, <2>2
  <2> HIDE DEF i
  <2> QED
    BY <1>1, <1>2, <2>2, <2>3
<1> QED
  BY <1>10 DEF NoMagic, c, q

(* After such a buffer, a packet is found where it begins.                 *)
LEMMA QuietStart ==
  ASSUME NEW b \in Seq(Byte), NoMagic(b), NEW p \in Payloads
  PROVE  Start(b \o Packet(p)) = Len(b) + 1
<1> DEFINE q == Packet(p)
           c == b \o q
<1>1. /\ q \in Seq(Byte) /\ Len(q) = PacketLen /\ PacketLen = 6
      /\ q[1] = "M" /\ q[2] = "S"
  BY PacketFacts DEF PacketLen
<1> HIDE DEF q
<1>2. /\ c \in Seq(Byte) /\ Len(c) = Len(b) + PacketLen /\ Len(b) \in Nat
      /\ \A i \in 1 .. Len(b) : c[i] = b[i]
      /\ \A i \in 1 .. Len(q) : c[Len(b) + i] = q[i]
  <2>1. /\ c \in Seq(Byte) /\ Len(c) = Len(b) + Len(q) /\ Len(b) \in Nat
        /\ \A i \in 1 .. Len(b) : c[i] = b[i]
        /\ \A i \in 1 .. Len(q) : c[Len(b) + i] = q[i]
    BY <1>1, Joined
  <2> HIDE DEF c
  <2> QED
    BY <1>1, <2>1
<1> HIDE DEF c
<1>3. c[Len(b) + 1] = "M" /\ c[(Len(b) + 1) + 1] = "S"
  BY <1>1, <1>2
<1>4. Len(b) + 1 \in Magics(c)
  BY <1>1, <1>2, <1>3 DEF Magics
<1>5. \A i \in Magics(c) : i \notin 1 .. Len(b) /\ i \in Nat /\ i >= 1
  BY <1>2 DEF Magics, NoMagic
<1>6. Start(c) \in Magics(c) /\ Start(c) <= Len(b) + 1
  BY <1>2, <1>4, StartFacts
<1>7. Start(c) = Len(b) + 1
  BY <1>2, <1>5, <1>6
<1> QED
  BY <1>7 DEF c, q

-----------------------------------------------------------------------------
(* The parts of the inductive invariant.                                   *)

(* TypeOK without its flags.                                               *)
TypeInv ==
  /\ stage \in {"adxl", "blink", "run", "hung"} /\ left \in 0 .. AdxlWait + Blink
  /\ late \in 0 .. 2 * Half - 1 /\ g_stream_seq \in 0 .. SeqSpace - 1
  /\ m_buffer \in Seq(Byte) /\ Len(m_buffer) < PacketLen
  /\ m_lastDevSeq \in {NoSeq} \union 0 .. SeqSpace - 1
  /\ stallSince \in 0 .. StallTicks /\ turn \subseteq {"device", "watchdog"}
  /\ gap \in 0 .. SeqSpace /\ closedFor \in 0 .. RetryTicks + 1
  /\ faults \in 0 .. MaxFaults

FlagInv ==
  /\ g_adxl_ok \in BOOLEAN /\ g_sd_open \in BOOLEAN /\ card \in BOOLEAN
  /\ adxl \in BOOLEAN /\ plugged \in BOOLEAN /\ open \in BOOLEAN
  /\ fresh \in BOOLEAN /\ steady \in BOOLEAN /\ unread \in BOOLEAN
  /\ restarted \in BOOLEAN /\ wrapped \in BOOLEAN

(* The boot counts down, and comes with a deadline of its own.             *)
BootInv ==
  /\ stage = "blink" => left \in 1 .. Blink
  /\ stage \in {"adxl", "blink"} => closedFor = 0 /\ ~wrapped

(* The bytes that an intact packet without a false magic leaves.           *)
QuietInv == steady => NoMagic(m_buffer)

(* How the device's number stands to the last one read.                    *)
NumberInv ==
  m_lastDevSeq # NoSeq =>
    /\ restarted => g_stream_seq <= gap
    /\ ~restarted /\ gap < SeqSpace =>
         \/ g_stream_seq = m_lastDevSeq + 1 + gap
         \/ g_stream_seq = m_lastDevSeq + 1 + gap - SeqSpace

(* How the deadline stands to the time for which the log has been closed.  *)
Deadline == 2 * Half - RetryTicks

RetryInv ==
  stage = "run" =>
    /\ wrapped \/ late < Half \/ late >= Deadline
    /\ ~g_sd_open /\ ~wrapped /\ late >= Deadline => closedFor <= late - Deadline
    /\ ~g_sd_open /\ "device" \notin turn => late >= Half

-----------------------------------------------------------------------------
(* What the steps of the device do, case by case.                          *)

(* The constants of the instrument as numbers.                             *)
LEMMA Bounds ==
  /\ AdxlWait \in Nat /\ Blink \in Nat /\ Blink >= 1 /\ MaxFaults \in Nat
  /\ RetryTicks \in Nat /\ RetryTicks >= 1 /\ Half \in Nat /\ RetryTicks < Half
  /\ StallTicks \in Nat /\ SeqSpace \in Nat /\ SeqSpace >= 2 /\ NoSeq = -1
  /\ Deadline \in Nat /\ Deadline >= Half /\ Deadline <= 2 * Half - 1
BY InstrumentAssumption DEF NoSeq, Deadline

(* A pass of the boot.                                                     *)
LEMMA BootCases ==
  ASSUME TypeInv, BootStep
  PROVE  /\ UNCHANGED <<g_stream_seq, world, open, reader, watch>>
         /\ turn' = turn \ {"device"}
         /\ \/ /\ stage = "adxl" /\ left > 0 /\ left' = left - 1
               /\ UNCHANGED <<stage, g_adxl_ok, logger>>
            \/ /\ stage = "adxl" /\ card /\ stage' = "run" /\ left' = 0
               /\ g_adxl_ok' = adxl /\ g_sd_open' = card /\ late' = Deadline
               /\ closedFor' = 0 /\ wrapped' = FALSE
            \/ /\ stage = "adxl" /\ ~card /\ stage' = "blink" /\ left' = Blink
               /\ g_adxl_ok' = adxl /\ g_sd_open' = card /\ late' = Deadline
               /\ closedFor' = 0 /\ wrapped' = FALSE
            \/ /\ stage = "blink" /\ left' = left - 1
               /\ stage' = IF left = 1 THEN "run" ELSE "blink"
               /\ late' = Deadline
               /\ UNCHANGED <<g_adxl_ok, g_sd_open, closedFor, wrapped>>
<1> DEFINE rest == UNCHANGED <<g_stream_seq, world, open, reader, watch>>
<1>1. rest /\ turn' = turn \ {"device"}
  BY DEF BootStep, Takes
<1> HIDE DEF rest
<1>2. CASE stage = "blink"
  BY <1>1, <1>2 DEF BootStep, Deadline, rest
<1>3. CASE stage = "adxl" /\ left > 0 /\ left' = left - 1 /\ UNCHANGED <<stage, g_adxl_ok, logger>>
  BY <1>1, <1>3 DEF rest
<1>4. CASE stage = "adxl" /\ AdxlInit /\ OpenLog
           /\ stage' = (IF card THEN "run" ELSE "blink") /\ left' = (IF card THEN 0 ELSE Blink)
           /\ late' = 2 * Half - RetryTicks /\ closedFor' = 0 /\ wrapped' = FALSE
  BY <1>1, <1>4 DEF AdxlInit, OpenLog, Deadline, rest
<1> QED
  BY <1>2, <1>3, <1>4 DEF BootStep

(* What may arrive of a sample that is sent.                               *)
LEMMA SampleCases ==
  ASSUME TypeInv, SendSample
  PROVE  /\ g_stream_seq' = (g_stream_seq + 1) % SeqSpace
         /\ \/ Unread /\ UNCHANGED <<m_buffer, steady, unread, fresh, faults>>
            \/ /\ faults' \in 0 .. MaxFaults
               /\ \E p \in Payloads : \E bytes \in Seq(Byte) :
                    Len(bytes) <= PacketLen /\ Receive(p, bytes)
<1>1. CASE ~open
  BY <1>1 DEF SendSample
<1>2. CASE open
  <2>1. PICK p \in Payloads :
          \/ Receive(p, Packet(p)) /\ UNCHANGED faults
          \/ /\ faults < MaxFaults /\ faults' = faults + 1
             /\ \E bytes \in Damaged(p) : Receive(p, bytes)
    BY <1>2 DEF SendSample
  <2>2. /\ faults' \in 0 .. MaxFaults
        /\ \E bytes \in {Packet(p)} \union Damaged(p) : Receive(p, bytes)
    BY <2>1, Bounds DEF TypeInv
  <2>3. PICK bytes \in {Packet(p)} \union Damaged(p) : Receive(p, bytes)
    BY <2>2
  <2>4. bytes \in Seq(Byte) /\ Len(bytes) <= PacketLen
    <3>1. CASE bytes = Packet(p)
      <4>1. Packet(p) \in Seq(Byte) /\ Len(Packet(p)) = PacketLen /\ PacketLen = 6
        BY PacketFacts DEF PacketLen
      <4> QED
        BY <3>1, <4>1
    <3>2. CASE bytes \in Damaged(p)
      <4>1. bytes \in Seq(Byte) /\ Len(bytes) <= PacketLen
        BY <3>2, DamagedFacts
      <4> QED
        BY <4>1
    <3> QED
      BY <3>1, <3>2
  <2>5. g_stream_seq' = (g_stream_seq + 1) % SeqSpace
    BY DEF SendSample
  <2> QED
    BY <2>2, <2>3, <2>4, <2>5
<1> QED
  BY <1>1, <1>2

-----------------------------------------------------------------------------
(* Types.                                                                  *)

(* The instrument before it boots, and an idle receiver.                   *)
LEMMA TypesInit == Init => TypeInv /\ BootInv
<1>1. << >> \in Seq(Byte) /\ Len(<< >>) = 0
  OBVIOUS
<1> QED
  BY <1>1, Bounds DEF Init, TypeInv, BootInv, PacketLen

(* What a sample does to the reader's part of the state.                   *)
LEMMA SampleTypes ==
  ASSUME TypeInv, SendSample
  PROVE  /\ g_stream_seq' \in 0 .. SeqSpace - 1
         /\ m_buffer' \in Seq(Byte) /\ Len(m_buffer') < PacketLen
         /\ m_lastDevSeq' \in {NoSeq} \union 0 .. SeqSpace - 1
         /\ gap' \in 0 .. SeqSpace /\ faults' \in 0 .. MaxFaults
<1>1. /\ g_stream_seq \in 0 .. SeqSpace - 1 /\ gap \in 0 .. SeqSpace
      /\ m_lastDevSeq \in {NoSeq} \union 0 .. SeqSpace - 1 /\ faults \in 0 .. MaxFaults
      /\ m_buffer \in Seq(Byte) /\ Len(m_buffer) < PacketLen
  BY DEF TypeInv
<1>2. g_stream_seq' \in 0 .. SeqSpace - 1
  BY <1>1, Bounds, DivMod, SampleCases
<1>3. AtMost(gap + 1, SeqSpace) \in 0 .. SeqSpace
  BY <1>1, Bounds DEF AtMost
<1>4. CASE Unread /\ UNCHANGED <<m_buffer, steady, unread, fresh, faults>>
  BY <1>1, <1>2, <1>3, <1>4 DEF Unread
<1>5. CASE /\ faults' \in 0 .. MaxFaults
           /\ \E p \in Payloads : \E bytes \in Seq(Byte) :
                Len(bytes) <= PacketLen /\ Receive(p, bytes)
  <2>1. PICK p \in Payloads, bytes \in Seq(Byte) : Len(bytes) <= PacketLen /\ Receive(p, bytes)
    BY <1>5
  <2>2. m_buffer' = Remainder(m_buffer \o bytes) /\ (ReadPacket(g_stream_seq) \/ Unread)
    BY <2>1 DEF Receive
  <2>3. m_buffer \o bytes \in Seq(Byte) /\ Len(m_buffer \o bytes) < 2 * PacketLen
    <3>1. /\ m_buffer \o bytes \in Seq(Byte)
          /\ Len(m_buffer \o bytes) = Len(m_buffer) + Len(bytes)
          /\ Len(m_buffer) \in Nat /\ Len(bytes) \in Nat
      BY <1>1, Joined
    <3> QED
      BY <1>1, <2>1, <3>1 DEF PacketLen
  <2>4. m_buffer' \in Seq(Byte) /\ Len(m_buffer') < PacketLen
    BY <2>2, <2>3, RemainderFacts
  <2>5. CASE ReadPacket(g_stream_seq)
    BY <1>1, <1>2, <1>5, <2>4, <2>5, Bounds DEF ReadPacket
  <2>6. CASE Unread
    BY <1>1, <1>2, <1>3, <1>5, <2>4, <2>6 DEF Unread
  <2> QED
    BY <2>2, <2>5, <2>6
<1> QED
  BY <1>4, <1>5, SampleCases

(* What a retry does to the logger's.                                      *)
LEMMA RetryTypes ==
  ASSUME TypeInv, NEW isOpen, SdRetry(isOpen)
  PROVE  late' \in 0 .. 2 * Half - 1 /\ closedFor' \in 0 .. RetryTicks + 1
<1>1. CASE ~isOpen /\ late < Half
  BY <1>1, Bounds DEF SdRetry, Deadline
<1>2. CASE ~(~isOpen /\ late < Half)
  BY <1>2, Bounds DEF SdRetry, TypeInv
<1> QED
  BY <1>1, <1>2

(* The deadline one tick later.                                            *)
LEMMA NextLate ==
  ASSUME late \in 0 .. 2 * Half - 1
  PROVE  /\ (late + 1) % (2 * Half) = IF late + 1 < 2 * Half THEN late + 1 ELSE 0
         /\ (late + 1) % (2 * Half) \in 0 .. 2 * Half - 1
<1> DEFINE m == 2 * Half
<1>1. m \in Nat \ {0} /\ late \in 0 .. (m - 1)
  BY Bounds
<1> HIDE DEF m
<1>2. (late + 1) % m = IF late + 1 < m THEN late + 1 ELSE 0
  BY <1>1, ModNext
<1>3. (late + 1) % m \in 0 .. (m - 1)
  BY <1>1, <1>2
<1> QED
  BY <1>2, <1>3 DEF m

(* Every step keeps the types and the stages of the boot.                  *)
LEMMA TypesInductive == TypeInv /\ BootInv /\ [Next]_vars => TypeInv' /\ BootInv'
<1> SUFFICES ASSUME TypeInv, BootInv, [Next]_vars
             PROVE  TypeInv' /\ BootInv'
  OBVIOUS
<1> USE Bounds
<1>1. CASE BootStep
  <2>1. /\ UNCHANGED <<g_stream_seq, faults, m_buffer, m_lastDevSeq, gap, stallSince>>
        /\ turn' = turn \ {"device"}
    BY <1>1, BootCases DEF world, reader, watch
  <2>2. /\ stage' \in {"adxl", "blink", "run", "hung"} /\ left' \in 0 .. AdxlWait + Blink
        /\ late' \in 0 .. 2 * Half - 1 /\ closedFor' \in 0 .. RetryTicks + 1
        /\ BootInv'
    <3>1. CASE /\ stage = "adxl" /\ left > 0 /\ left' = left - 1
               /\ UNCHANGED <<stage, g_adxl_ok, logger>>
      BY <3>1 DEF TypeInv, BootInv, logger
    <3>2. CASE /\ stage = "adxl" /\ stage' = "run" /\ left' = 0 /\ late' = Deadline
               /\ closedFor' = 0 /\ wrapped' = FALSE
      BY <3>2 DEF TypeInv, BootInv
    <3>3. CASE /\ stage = "adxl" /\ stage' = "blink" /\ left' = Blink /\ late' = Deadline
               /\ closedFor' = 0 /\ wrapped' = FALSE
      BY <3>3 DEF TypeInv, BootInv
    <3>4. CASE /\ stage = "blink" /\ left' = left - 1
               /\ stage' = (IF left = 1 THEN "run" ELSE "blink") /\ late' = Deadline
               /\ UNCHANGED <<closedFor, wrapped>>
      BY <3>4 DEF TypeInv, BootInv
    <3> QED
      BY <1>1, <3>1, <3>2, <3>3, <3>4, BootCases
  <2> QED
    BY <2>1, <2>2 DEF TypeInv
<1>2. CASE LoopStep
  <2>1. /\ turn' = turn \ {"device"} /\ stage = "run"
        /\ UNCHANGED <<stage, left, stallSince>>
        /\ SdRetry(LogWritten) \/ SdRetry(g_sd_open)
        /\ SendSample \/ UNCHANGED <<g_stream_seq, reader, fresh, faults>>
    BY <1>2 DEF LoopStep, Takes, boot
  <2>2. late' \in 0 .. 2 * Half - 1 /\ closedFor' \in 0 .. RetryTicks + 1
    BY <2>1, RetryTypes
  <2>3. /\ g_stream_seq' \in 0 .. SeqSpace - 1
        /\ m_buffer' \in Seq(Byte) /\ Len(m_buffer') < PacketLen
        /\ m_lastDevSeq' \in {NoSeq} \union 0 .. SeqSpace - 1
        /\ gap' \in 0 .. SeqSpace /\ faults' \in 0 .. MaxFaults
    <3>1. CASE SendSample
      BY <3>1, SampleTypes
    <3>2. CASE UNCHANGED <<g_stream_seq, reader, fresh, faults>>
      BY <3>2 DEF TypeInv, reader
    <3> QED
      BY <2>1, <3>1, <3>2
  <2> QED
    BY <2>1, <2>2, <2>3 DEF TypeInv, BootInv
<1>3. CASE HungStep \/ UNCHANGED vars
  <2>1. UNCHANGED <<boot, logger, g_stream_seq, world, reader, watch>>
        /\ (turn' = turn \/ turn' = turn \ {"device"})
    BY <1>3 DEF HungStep, Takes, vars
  <2> QED
    BY <2>1 DEF TypeInv, BootInv, boot, logger, world, reader, watch
<1>4. CASE CheckStall
  <2>1. turn' = turn \ {"watchdog"}
    BY <1>4 DEF CheckStall, Takes
  <2>2. CASE ConnectPort
    <3>1. << >> \in Seq(Byte) /\ Len(<< >>) = 0
      OBVIOUS
    <3>2. CASE plugged
      BY <2>1, <2>2, <3>1, <3>2 DEF ConnectPort, TypeInv, BootInv, world, PacketLen
    <3>3. CASE ~plugged
      BY <2>1, <2>2, <3>1, <3>3 DEF ConnectPort, TypeInv, BootInv, world, boot, logger, PacketLen
    <3> QED
      BY <3>2, <3>3
  <2>3. CASE /\ stallSince' = IF open /\ fresh THEN 0 ELSE stallSince
             /\ UNCHANGED <<boot, g_adxl_ok, logger, g_stream_seq, world, open, reader>>
    BY <2>1, <2>3 DEF TypeInv, BootInv, boot, logger, world, reader
  <2> QED
    BY <1>4, <2>2, <2>3 DEF CheckStall
<1>5. CASE Tick
  <2>1. /\ turn' = {"device", "watchdog"}
        /\ UNCHANGED <<stage, left, g_stream_seq, faults, m_buffer, m_lastDevSeq, gap>>
        /\ stallSince' = AtMost(stallSince + 1, StallTicks)
        /\ late' = IF stage = "run" THEN (late + 1) % (2 * Half) ELSE late
        /\ closedFor' = IF stage = "run" /\ ~g_sd_open
                        THEN AtMost(closedFor + 1, RetryTicks + 1) ELSE 0
        /\ wrapped' = (wrapped \/ (stage = "run" /\ late' = Half))
    BY <1>5 DEF Tick, boot, world, reader
  <2>2. stallSince' \in 0 .. StallTicks /\ closedFor' \in 0 .. RetryTicks + 1
    BY <2>1 DEF TypeInv, AtMost
  <2>3. late' \in 0 .. 2 * Half - 1
    <3>1. (late + 1) % (2 * Half) \in 0 .. 2 * Half - 1 /\ late \in 0 .. 2 * Half - 1
      BY NextLate DEF TypeInv
    <3> QED
      BY <2>1, <3>1
  <2>4. BootInv'
    BY <2>1 DEF BootInv
  <2> QED
    BY <2>1, <2>2, <2>3, <2>4 DEF TypeInv
<1>6. CASE Hang \/ Unplug \/ Environment
  <2>1. << >> \in Seq(Byte) /\ Len(<< >>) = 0
    OBVIOUS
  <2>2. CASE Hang
    BY <2>2 DEF Hang, Fault, TypeInv, BootInv, logger, reader, watch
  <2>3. CASE Unplug
    BY <2>1, <2>3 DEF Unplug, Fault, TypeInv, BootInv, boot, logger, watch, PacketLen
  <2>4. CASE Environment
    BY <2>4 DEF Environment, Fault, TypeInv, BootInv, boot, logger, reader, watch
  <2> QED
    BY <1>6, <2>2, <2>3, <2>4
<1> QED
  BY <1>1, <1>2, <1>3, <1>4, <1>5, <1>6 DEF Next

(* The flags, apart from the rest.                                         *)
LEMMA FlagsInit == Init => FlagInv
BY DEF Init, FlagInv

(* Every step keeps the flags of the instrument in line.                   *)
LEMMA FlagsInductive == TypeInv /\ FlagInv /\ [Next]_vars => FlagInv'
<1> SUFFICES ASSUME TypeInv, FlagInv, [Next]_vars
             PROVE  FlagInv'
  OBVIOUS
<1>1. CASE BootStep
  <2>1. UNCHANGED <<card, adxl, plugged, open, fresh, steady, unread, restarted>>
    BY <1>1 DEF BootStep, world, reader, watch
  <2>2. \/ UNCHANGED <<g_adxl_ok, g_sd_open, wrapped>>
        \/ g_adxl_ok' = adxl /\ g_sd_open' = card /\ wrapped' = FALSE
    BY <1>1 DEF BootStep, AdxlInit, OpenLog, logger
  <2> QED
    BY <2>1, <2>2, ZenonT(40) DEF FlagInv
<1>2. CASE LoopStep
  <2>1. /\ UNCHANGED <<card, adxl, plugged, open>>
        /\ g_adxl_ok' = g_adxl_ok \/ g_adxl_ok' = adxl
        /\ SdRetry(LogWritten) \/ SdRetry(g_sd_open)
        /\ SendSample \/ UNCHANGED <<g_stream_seq, reader, fresh, faults>>
    BY <1>2 DEF LoopStep, AdxlInit
  <2>2. LogWritten \in BOOLEAN
    BY DEF LogWritten
  <2>3. /\ g_sd_open' = card \/ g_sd_open' = LogWritten \/ g_sd_open' = g_sd_open
        /\ wrapped' = FALSE \/ wrapped' = wrapped
    BY <2>1 DEF SdRetry, OpenLog
  <2>4. CASE SendSample
    <3>1. \/ Unread /\ UNCHANGED <<m_buffer, steady, unread, fresh, faults>>
          \/ \E p \in Payloads : \E bytes \in Seq(Byte) : Receive(p, bytes)
      BY <2>4, SampleCases
    <3>2. /\ fresh' \in BOOLEAN /\ steady' \in BOOLEAN /\ unread' \in BOOLEAN
          /\ restarted' \in BOOLEAN
      <4>1. CASE Unread /\ UNCHANGED <<m_buffer, steady, unread, fresh, faults>>
        BY <4>1, Zenon DEF Unread, FlagInv
      <4>2. ASSUME NEW p, NEW bytes, Receive(p, bytes)
            PROVE  /\ fresh' \in BOOLEAN /\ steady' \in BOOLEAN /\ unread' \in BOOLEAN
                   /\ restarted' \in BOOLEAN
        <5>1. fresh' \in BOOLEAN /\ steady' \in BOOLEAN /\ unread' \in BOOLEAN
          BY <4>2, Zenon DEF Receive
        <5>2. restarted' \in BOOLEAN
          BY <4>2, Zenon DEF Receive, ReadPacket, Unread, FlagInv
        <5> QED
          BY <5>1, <5>2
      <4> QED
        BY <3>1, <4>1, <4>2
    <3> QED
      BY <2>1, <2>2, <2>3, <3>2, Zenon DEF FlagInv
  <2>5. CASE UNCHANGED <<g_stream_seq, reader, fresh, faults>>
    <3>1. UNCHANGED <<fresh, steady, unread, restarted>>
      BY <2>5 DEF reader
    <3> QED
      BY <2>1, <2>2, <2>3, <3>1, ZenonT(40) DEF FlagInv
  <2> QED
    BY <2>1, <2>4, <2>5
<1>3. CASE CheckStall
  <2>1. \/ ConnectPort
        \/ /\ fresh' = (IF open THEN FALSE ELSE fresh)
           /\ UNCHANGED <<boot, g_adxl_ok, logger, g_stream_seq, world, open, reader>>
    BY <1>3 DEF CheckStall
  <2>2. CASE ConnectPort
    <3>1. /\ fresh' = FALSE /\ steady' = FALSE /\ unread' = FALSE /\ open' = plugged
          /\ UNCHANGED <<card, adxl, plugged>>
          /\ \/ g_adxl_ok' = FALSE /\ g_sd_open' = FALSE /\ wrapped' = FALSE
                /\ restarted' = TRUE
             \/ UNCHANGED <<g_adxl_ok, g_sd_open, wrapped, restarted>>
      BY <2>2 DEF ConnectPort, logger, world
    <3> QED
      BY <3>1, Zenon DEF FlagInv
  <2>3. CASE /\ fresh' = (IF open THEN FALSE ELSE fresh)
             /\ UNCHANGED <<boot, g_adxl_ok, logger, g_stream_seq, world, open, reader>>
    <3>1. /\ fresh' = FALSE \/ fresh' = fresh
          /\ UNCHANGED <<g_adxl_ok, g_sd_open, wrapped, card, adxl, plugged, open,
                         steady, unread, restarted>>
      BY <2>3 DEF logger, world, reader
    <3> QED
      BY <3>1, ZenonT(40) DEF FlagInv
  <2> QED
    BY <2>1, <2>2, <2>3
<1>4. CASE Tick
  <2>1. /\ wrapped' = (wrapped \/ (stage = "run" /\ late' = Half))
        /\ UNCHANGED <<g_adxl_ok, g_sd_open, card, adxl, plugged, open, fresh,
                       steady, unread, restarted>>
    BY <1>4 DEF Tick, world, reader
  <2> QED
    BY <2>1, Zenon DEF FlagInv
<1>5. CASE HungStep \/ Hang \/ UNCHANGED vars
  <2>1. UNCHANGED <<g_adxl_ok, g_sd_open, wrapped, card, adxl, plugged, open, fresh,
                    steady, unread, restarted>>
    BY <1>5 DEF HungStep, Hang, vars, logger, world, reader, watch
  <2> QED
    BY <2>1, Zenon DEF FlagInv
<1>6. CASE Unplug
  <2>1. /\ plugged' = FALSE /\ open' = FALSE /\ steady' = FALSE /\ unread' = FALSE
        /\ UNCHANGED <<g_adxl_ok, g_sd_open, wrapped, card, adxl, fresh, restarted>>
    BY <1>6 DEF Unplug, logger, watch
  <2> QED
    BY <2>1, Zenon DEF FlagInv
<1>7. CASE Environment
  <2>1. /\ card' = card \/ card' = TRUE \/ card' = FALSE
        /\ adxl' = adxl \/ adxl' = TRUE \/ adxl' = FALSE
        /\ plugged' = plugged \/ plugged' = TRUE \/ plugged' = FALSE
        /\ UNCHANGED <<g_adxl_ok, g_sd_open, wrapped, open, fresh, steady, unread, restarted>>
    BY <1>7 DEF Environment, CardFails, AdxlFails, Repair, logger, reader, watch
  <2>2. card' \in BOOLEAN
    BY <2>1, Zenon DEF FlagInv
  <2>3. adxl' \in BOOLEAN
    BY <2>1, Zenon DEF FlagInv
  <2>4. plugged' \in BOOLEAN
    BY <2>1, Zenon DEF FlagInv
  <2> QED
    BY <2>1, <2>2, <2>3, <2>4, Zenon DEF FlagInv
<1> QED
  BY <1>1, <1>2, <1>3, <1>4, <1>5, <1>6, <1>7 DEF Next

(* Every step keeps the state well-formed: the buffer stays shorter than a *)
(* packet, and no counter leaves its range (parseBuffer, the firmware's    *)
(* boot and loop, checkStall).                                             *)
THEOREM TypeTheorem == Spec => []TypeOK
<1>1. Init => TypeInv /\ BootInv /\ FlagInv
  BY TypesInit, FlagsInit
<1>2. TypeInv /\ BootInv /\ FlagInv /\ [Next]_vars => (TypeInv /\ BootInv /\ FlagInv)'
  BY TypesInductive, FlagsInductive
<1>3. TypeInv /\ FlagInv => TypeOK
  <2>1. FlagInv => \A b \in {g_adxl_ok, g_sd_open, card, adxl, plugged, open, fresh, steady,
                             unread, restarted, wrapped} : b \in BOOLEAN
    BY Zenon DEF FlagInv
  <2> QED
    BY <2>1 DEF TypeInv, TypeOK, Byte
<1> QED
  BY <1>1, <1>2, <1>3, PTL DEF Spec

(* Always, what the other invariants build on.                             *)
LEMMA TypesAlways == Spec => [](TypeInv /\ BootInv)
BY TypesInit, TypesInductive, PTL DEF Spec

-----------------------------------------------------------------------------
(* Resynchronisation.                                                      *)

QuietPart == QuietInv /\ ~unread

(* Once only whole packets come, what the receiver keeps of the bytes it   *)
(* has read holds no start of a packet.                                    *)
LEMMA QuietInductive == TypeInv /\ QuietPart /\ [Next]_vars => QuietPart'
<1> SUFFICES ASSUME TypeInv, QuietPart, [Next]_vars
             PROVE  QuietPart'
  OBVIOUS
<1>1. CASE SendSample
  <2>1. CASE UNCHANGED <<m_buffer, steady, unread>>
    BY <2>1 DEF QuietPart, QuietInv
  <2>2. ASSUME NEW p \in Payloads, NEW bytes \in Seq(Byte), Receive(p, bytes)
        PROVE  QuietPart'
    <3>1. /\ m_buffer' = Remainder(m_buffer \o bytes)
          /\ steady' => bytes = Packet(p) /\ p = <<"x", "x">>
          /\ unread' => steady /\ bytes = Packet(p) /\ ~ParsePacket(p, bytes)
      BY <2>2 DEF Receive
    <3>2. m_buffer \in Seq(Byte) /\ Len(m_buffer) < PacketLen
      BY DEF TypeInv
    <3>3. ~unread'
      <4>1. steady => Start(m_buffer \o Packet(p)) = Len(m_buffer) + 1
        BY <3>2, QuietStart DEF QuietPart, QuietInv
      <4> QED
        BY <3>1, <4>1 DEF ParsePacket
    <3>4. steady' => NoMagic(m_buffer')
      BY <3>1, <3>2, QuietAfter
    <3> QED
      BY <3>3, <3>4 DEF QuietPart, QuietInv
  <2> QED
    BY <1>1, <2>1, <2>2, SampleCases
<1>2. CASE ConnectPort \/ Unplug
  BY <1>2 DEF ConnectPort, Unplug, QuietPart, QuietInv
<1>3. CASE UNCHANGED <<m_buffer, steady, unread>>
  BY <1>3 DEF QuietPart, QuietInv
<1>4. \/ SendSample \/ ConnectPort \/ Unplug
      \/ UNCHANGED <<m_buffer, steady, unread>>
  BY DEF Next, BootStep, LoopStep, HungStep, CheckStall, Tick, Hang, Environment, vars, reader
<1> QED
  BY <1>1, <1>2, <1>3, <1>4

(* For any damage and any buffer it leaves: an intact packet that follows  *)
(* an intact one without a false magic is read (parseBuffer resynchronises *)
(* on the first magic).                                                    *)
THEOREM ResyncTheorem == Spec => []Resyncs
<1>1. Init => QuietPart
  BY DEF Init, QuietPart, QuietInv
<1>2. QuietPart => Resyncs
  BY DEF QuietPart, Resyncs
<1> QED
  BY <1>1, <1>2, TypesAlways, QuietInductive, PTL DEF Spec

-----------------------------------------------------------------------------
(* The count of lost packets.                                              *)

NumberPart == NumberInv /\ LossCounted

(* A packet that is not read.                                              *)
LEMMA UnreadKeeps ==
  ASSUME TypeInv, NumberPart, Unread, g_stream_seq' = (g_stream_seq + 1) % SeqSpace
  PROVE  NumberPart'
<1>1. /\ g_stream_seq \in 0 .. SeqSpace - 1 /\ gap \in 0 .. SeqSpace
      /\ m_lastDevSeq \in {NoSeq} \union 0 .. SeqSpace - 1 /\ SeqSpace \in Nat \ {0}
  BY Bounds DEF TypeInv
<1>2. g_stream_seq' = IF g_stream_seq + 1 < SeqSpace THEN g_stream_seq + 1 ELSE 0
  BY <1>1, ModNext
<1>3. /\ gap' = (IF gap + 1 > SeqSpace THEN SeqSpace ELSE gap + 1)
      /\ UNCHANGED <<m_lastDevSeq, restarted, tally>>
  BY DEF Unread, AtMost
<1>4. LossCounted'
  BY <1>3 DEF NumberPart, LossCounted
<1>5. NumberInv'
  <2> SUFFICES ASSUME m_lastDevSeq # NoSeq
               PROVE  /\ restarted => g_stream_seq' <= gap'
                      /\ ~restarted /\ gap' < SeqSpace =>
                           \/ g_stream_seq' = m_lastDevSeq + 1 + gap'
                           \/ g_stream_seq' = m_lastDevSeq + 1 + gap' - SeqSpace
    BY <1>3 DEF NumberInv
  <2>1. /\ restarted => g_stream_seq <= gap
        /\ ~restarted /\ gap < SeqSpace =>
             \/ g_stream_seq = m_lastDevSeq + 1 + gap
             \/ g_stream_seq = m_lastDevSeq + 1 + gap - SeqSpace
        /\ m_lastDevSeq \in 0 .. SeqSpace - 1
    BY <1>1 DEF NumberPart, NumberInv
  <2>2. restarted => g_stream_seq' <= gap'
    BY <1>1, <1>2, <1>3, <2>1
  <2>3. ASSUME ~restarted, gap' < SeqSpace
        PROVE  \/ g_stream_seq' = m_lastDevSeq + 1 + gap'
               \/ g_stream_seq' = m_lastDevSeq + 1 + gap' - SeqSpace
    <3>1. gap' = gap + 1 /\ gap + 1 < SeqSpace
      BY <1>1, <1>3, <2>3
    <3> QED
      BY <1>1, <1>2, <2>1, <2>3, <3>1
  <2> QED
    BY <2>2, <2>3
<1> QED
  BY <1>4, <1>5 DEF NumberPart

(* A packet that is read.                                                  *)
LEMMA ReadKeeps ==
  ASSUME TypeInv, NumberPart, ReadPacket(g_stream_seq),
         g_stream_seq' = (g_stream_seq + 1) % SeqSpace
  PROVE  NumberPart'
<1>1. /\ g_stream_seq \in 0 .. SeqSpace - 1 /\ gap \in 0 .. SeqSpace
      /\ m_lastDevSeq \in {NoSeq} \union 0 .. SeqSpace - 1 /\ SeqSpace \in Nat \ {0}
      /\ NoSeq = -1
  BY Bounds DEF TypeInv
<1>2. g_stream_seq' = IF g_stream_seq + 1 < SeqSpace THEN g_stream_seq + 1 ELSE 0
  BY <1>1, ModNext
<1>3. m_lastDevSeq' = g_stream_seq /\ gap' = 0 /\ restarted' = FALSE
  BY DEF ReadPacket
<1>4. NumberInv'
  BY <1>1, <1>2, <1>3 DEF NumberInv
<1> DEFINE excess == IF m_lastDevSeq = NoSeq THEN 0 ELSE Jump(g_stream_seq) - gap
           straight == ~restarted /\ g_stream_seq > m_lastDevSeq /\ gap < SeqSpace
<1>5. tally'.excess = excess /\ (tally'.straight = straight)
  BY DEF ReadPacket
<1>6. excess <= 0 /\ (straight => excess = 0)
  <2>1. CASE m_lastDevSeq = NoSeq
    BY <2>1
  <2>2. CASE m_lastDevSeq # NoSeq
    <3>1. /\ restarted => g_stream_seq <= gap
          /\ ~restarted /\ gap < SeqSpace =>
               \/ g_stream_seq = m_lastDevSeq + 1 + gap
               \/ g_stream_seq = m_lastDevSeq + 1 + gap - SeqSpace
          /\ m_lastDevSeq \in 0 .. SeqSpace - 1
      BY <1>1, <2>2 DEF NumberPart, NumberInv
    <3>2. excess = (IF g_stream_seq > m_lastDevSeq + 1
                    THEN g_stream_seq - m_lastDevSeq - 1 ELSE 0) - gap
      BY <2>2 DEF Jump
    <3> HIDE DEF excess
    <3> QED
      BY <1>1, <3>1, <3>2
  <2> QED
    BY <2>1, <2>2
<1> HIDE DEF excess, straight
<1>7. LossCounted'
  BY <1>5, <1>6 DEF LossCounted
<1> QED
  BY <1>4, <1>7 DEF NumberPart

(* Every step keeps the count of the lost packets the distance of the      *)
(* numbers.                                                                *)
LEMMA NumberInductive == TypeInv /\ NumberPart /\ [Next]_vars => NumberPart'
<1> SUFFICES ASSUME TypeInv, NumberPart, [Next]_vars
             PROVE  NumberPart'
  OBVIOUS
<1>1. CASE SendSample
  <2>1. g_stream_seq' = (g_stream_seq + 1) % SeqSpace
    BY <1>1 DEF SendSample
  <2>2. Unread \/ ReadPacket(g_stream_seq)
    BY <1>1, SampleCases DEF Receive
  <2> QED
    BY <2>1, <2>2, UnreadKeeps, ReadKeeps
<1>2. CASE ConnectPort
  <2>1. /\ UNCHANGED <<m_lastDevSeq, gap, tally>>
        /\ \/ g_stream_seq' = 0 /\ restarted' = TRUE
           \/ UNCHANGED <<g_stream_seq, restarted>>
    BY <1>2 DEF ConnectPort
  <2>2. gap >= 0 /\ (0 <= gap)
    BY DEF TypeInv
  <2> QED
    BY <2>1, <2>2 DEF NumberPart, NumberInv, LossCounted
<1>3. CASE UNCHANGED <<m_lastDevSeq, gap, tally, g_stream_seq, restarted>>
  BY <1>3 DEF NumberPart, NumberInv, LossCounted
<1>4. \/ SendSample \/ ConnectPort
      \/ UNCHANGED <<m_lastDevSeq, gap, tally, g_stream_seq, restarted>>
  BY DEF Next, BootStep, LoopStep, HungStep, CheckStall, Tick, Hang, Unplug, Environment,
         vars, reader
<1> QED
  BY <1>1, <1>2, <1>3, <1>4

(* For any range of the packet numbers: what a packet adds to the count of *)
(* lost ones (publishSample) is never more than what was lost since the    *)
(* one before it, and all of that while neither the device was reset nor   *)
(* its number wrapped.                                                     *)
THEOREM LossTheorem == Spec => []LossCounted
<1>1. Init => NumberPart
  BY DEF Init, NumberPart, NumberInv, LossCounted
<1>2. NumberPart => LossCounted
  BY DEF NumberPart
<1> QED
  BY <1>1, <1>2, TypesAlways, NumberInductive, PTL DEF Spec

-----------------------------------------------------------------------------
(* The retry of the log.                                                   *)

(* Every step keeps the time since the last attempt at the card below its  *)
(* deadline.                                                               *)
LEMMA RetryInductive == TypeInv /\ BootInv /\ RetryInv /\ [Next]_vars => RetryInv'
<1> SUFFICES ASSUME TypeInv, BootInv, RetryInv, [Next]_vars
             PROVE  RetryInv'
  OBVIOUS
<1> USE Bounds
<1>1. /\ late \in 0 .. 2 * Half - 1 /\ closedFor \in 0 .. RetryTicks + 1
      /\ turn \subseteq {"device", "watchdog"}
  BY DEF TypeInv
<1>2. CASE BootStep
  <2>1. stage' = "run" => late' = Deadline /\ closedFor' = 0 /\ ~wrapped'
    BY <1>2, BootCases DEF BootInv
  <2> QED
    BY <2>1 DEF RetryInv
<1>3. CASE LoopStep
  <2>1. /\ stage = "run" /\ stage' = "run" /\ turn' = turn \ {"device"}
        /\ SdRetry(LogWritten) \/ SdRetry(g_sd_open)
    BY <1>3 DEF LoopStep, Takes, boot
  <2>2. ASSUME NEW isOpen, SdRetry(isOpen), isOpen => g_sd_open
        PROVE  RetryInv'
    <3>1. CASE ~isOpen /\ late < Half
      <4>1. late' = Deadline /\ closedFor' = 0 /\ wrapped' = FALSE
        BY <2>2, <3>1 DEF SdRetry, Deadline
      <4> QED
        BY <4>1 DEF RetryInv
    <3>2. CASE ~(~isOpen /\ late < Half)
      <4>1. /\ g_sd_open' = isOpen /\ late' = late /\ wrapped' = wrapped
            /\ closedFor' = (IF g_sd_open /\ ~isOpen THEN 0 ELSE closedFor)
        BY <2>2, <3>2 DEF SdRetry
      <4> QED
        BY <1>1, <2>1, <2>2, <3>2, <4>1 DEF RetryInv
    <3> QED
      BY <3>1, <3>2
  <2> QED
    BY <2>1, <2>2 DEF LogWritten
<1>4. CASE CheckStall
  <2>1. turn' = turn \ {"watchdog"}
    BY <1>4 DEF CheckStall, Takes
  <2>2. stage' = "adxl" \/ UNCHANGED <<stage, late, g_sd_open, wrapped, closedFor>>
    BY <1>4 DEF CheckStall, ConnectPort, boot, logger
  <2> QED
    BY <2>1, <2>2 DEF RetryInv
<1>5. CASE Tick
  <2>1. /\ turn' = {"device", "watchdog"} /\ turn = {}
        /\ stage' = stage /\ g_sd_open' = g_sd_open
        /\ late' = IF stage = "run" THEN (late + 1) % (2 * Half) ELSE late
        /\ closedFor' = IF stage = "run" /\ ~g_sd_open
                        THEN AtMost(closedFor + 1, RetryTicks + 1) ELSE 0
        /\ wrapped' = (wrapped \/ (stage = "run" /\ late' = Half))
    BY <1>5 DEF Tick, boot
  <2> SUFFICES ASSUME stage = "run"
               PROVE  /\ wrapped' \/ late' < Half \/ late' >= Deadline
                      /\ ~g_sd_open /\ ~wrapped' /\ late' >= Deadline =>
                           closedFor' <= late' - Deadline
    BY <2>1 DEF RetryInv
  <2>2. late' = IF late + 1 < 2 * Half THEN late + 1 ELSE 0
    BY <1>1, <2>1, NextLate
  <2>3. /\ wrapped \/ late < Half \/ late >= Deadline
        /\ ~g_sd_open /\ ~wrapped /\ late >= Deadline => closedFor <= late - Deadline
    BY DEF RetryInv
  <2>4. ~wrapped' => ~wrapped /\ late' # Half
    BY <2>1
  <2>5. ~g_sd_open => closedFor' <= closedFor + 1
    BY <1>1, <2>1 DEF AtMost
  <2>6. closedFor' \in Int
    BY <1>1, <2>1 DEF AtMost
  <2> QED
    BY <1>1, <2>2, <2>3, <2>4, <2>5, <2>6
<1>6. CASE HungStep \/ Hang
  <2>1. stage' = "hung"
    BY <1>6 DEF HungStep, Hang, boot
  <2> QED
    BY <2>1 DEF RetryInv
<1>7. CASE Unplug \/ Environment \/ UNCHANGED vars
  <2>1. UNCHANGED <<stage, late, g_sd_open, wrapped, closedFor, turn>>
    BY <1>7 DEF Unplug, Environment, vars, boot, logger
  <2> QED
    BY <2>1 DEF RetryInv
<1> QED
  BY <1>2, <1>3, <1>4, <1>5, <1>6, <1>7 DEF Next

(* For any RETRY_MS and any range of g_tick: a closed log is tried again   *)
(* within RETRY_MS of the last try, except while the last deadline lies    *)
(* more than half the range back (the signed difference in main).          *)
THEOREM RetryTheorem == Spec => []SdRetried
<1>1. Init => RetryInv
  BY DEF Init, RetryInv
<1>2. TypeInv /\ RetryInv => SdRetried
  BY Bounds DEF TypeInv, RetryInv, SdRetried, Deadline
<1> QED
  BY <1>1, <1>2, TypesAlways, RetryInductive, PTL DEF Spec
=============================================================================

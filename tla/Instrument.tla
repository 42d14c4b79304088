---------------------------- MODULE Instrument ----------------------------
(***************************************************************************)
(* The instrument and its reader: the firmware boots, samples, streams     *)
(* packets over a serial line and logs to an SD card (accelerometer/);     *)
(* tpacq cuts the bytes into packets (SerialStreamReceiver), counts the    *)
(* lost ones and reopens the port of a silent device (checkStall), which   *)
(* pulses DTR and so resets the processor.                                 *)
(*                                                                         *)
(* A tick is a period of the watchdog; in a tick the device makes one pass *)
(* of its loop, with one sample, and the watchdog one check, in any order. *)
(* A packet is scaled down to six bytes, of which only the magic matters:  *)
(* "M", "S", and "x" for any other.  The CRC lets intact packets through   *)
(* and no others.                                                          *)
(***************************************************************************)
EXTENDS Integers, Sequences, FiniteSets

CONSTANTS
  AdxlWait,   (* ticks the boot waits for a missing accelerometer          *)
  Blink,      (* ticks the boot blinks the error code of a missing card    *)
  RetryTicks, (* RETRY_MS                                                  *)
  Half,       (* half of the range of g_tick (2^31 ms)                     *)
  StallTicks, (* --stall-timeout                                           *)
  SeqSpace,   (* values of the packet number (2^32)                        *)
  MaxFaults   (* bound of damaged packets, hangs, removals                 *)

ASSUME InstrumentAssumption ==
  /\ AdxlWait \in Nat /\ Blink \in Nat \ {0} /\ MaxFaults \in Nat
  /\ RetryTicks \in Nat \ {0} /\ Half \in Nat /\ RetryTicks < Half
  /\ StallTicks \in Nat \ {0} /\ SeqSpace \in Nat \ {0, 1}

PacketLen == 6
Payloads == {<<"x", "x">>, <<"M", "S">>}
Packet(p) == <<"M", "S", "x">> \o p \o <<"x">>
NoSeq == -1

VARIABLES
  stage,      (* where the firmware is: "adxl", "blink", "run" or "hung"   *)
  left,       (* ticks left of that stage of the boot                      *)
  g_adxl_ok,
  g_sd_open,
  late,       (* t_now - next_retry, modulo the range of g_tick            *)
  g_stream_seq,
  card, adxl, plugged,   (* the card, the accelerometer, the port work     *)
  open,       (* m_serial.isOpen()                                         *)
  m_buffer,
  m_lastDevSeq,          (* NoSeq before the first packet                  *)
  fresh,      (* bytesReceived # m_lastBytesSeen                           *)
  stallSince, (* ticks since m_stallSince was restarted, up to StallTicks  *)
  turn,       (* who has still to run in this tick                         *)
  steady,     (* history: the last packet arrived intact, without a false  *)
              (* magic, through the port as it is open now                 *)
  unread,     (* history: an intact packet after a steady one was not read *)
  gap,        (* history: packets sent since the last one read             *)
  restarted,  (* history: the device was reset since the last one read     *)
  tally,      (* history: what m_seqLost grew by at the last one read,     *)
              (* less what was lost before it, and whether in one run      *)
  closedFor,  (* history: ticks since the log was closed or tried last     *)
  wrapped,    (* history: next_retry is half the range of g_tick ago       *)
  faults

boot    == <<stage, left>>
logger  == <<g_sd_open, late, closedFor, wrapped>>
world   == <<card, adxl, plugged, faults>>
reader  == <<m_buffer, m_lastDevSeq, steady, unread, gap, restarted, tally>>
watch   == <<fresh, stallSince>>
vars    == <<boot, g_adxl_ok, logger, g_stream_seq, world, open, reader, watch, turn>>

Init ==
  /\ stage = "adxl" /\ left = AdxlWait /\ g_adxl_ok = FALSE
  /\ g_sd_open = FALSE /\ late = 0 /\ g_stream_seq = 0
  /\ card \in BOOLEAN /\ adxl \in BOOLEAN /\ plugged = TRUE /\ faults = 0
  /\ open = TRUE /\ m_buffer = << >> /\ m_lastDevSeq = NoSeq
  /\ fresh = FALSE /\ stallSince = 0 /\ turn = {}
  /\ steady = FALSE /\ unread = FALSE /\ gap = 0 /\ restarted = TRUE
  /\ tally = [excess |-> 0, straight |-> TRUE]
  /\ closedFor = 0 /\ wrapped = FALSE

AtMost(n, bound) == IF n > bound THEN bound ELSE n

-----------------------------------------------------------------------------
(* The serial line and SerialStreamReceiver.                               *)

(* What may arrive of packet p: with a fault, some of its bytes are lost   *)
(* or garbled.                                                             *)
Damaged(p) ==
  (UNION {{SubSeq(Packet(p), 1, i) \o SubSeq(Packet(p), j + 1, PacketLen) :
             j \in i + 1 .. PacketLen} : i \in 0 .. PacketLen})
  \union {[Packet(p) EXCEPT ![i] = "x"] : i \in 1 .. PacketLen}

Magics(b) == {i \in 1 .. Len(b) - 1 : b[i] = "M" /\ b[i + 1] = "S"}

(* The first byte is taken for the beginning of a packet.                  *)
FaultyStart(b) == 1

(* m_buffer.indexOf("MS"), counted from 1; 0 when there is none.           *)
Start(b) ==
  IF Magics(b) = {} THEN 0 ELSE CHOOSE i \in Magics(b) : \A j \in Magics(b) : i <= j

(* A buffer without a magic is kept.                                       *)
FaultyRemainder(b) ==
  LET s == Start(b) IN
  CASE Len(b) < PacketLen \/ s = 0    -> b
    [] Len(b) - s + 1 < PacketLen     -> SubSeq(b, s, Len(b))
    [] OTHER                          -> SubSeq(b, s + PacketLen, Len(b))

(* parseBuffer, what it leaves of the buffer.  As a packet arrives, the    *)
(* buffer is shorter than two: the loop takes one packet out at most.      *)
Remainder(b) ==
  LET s == Start(b) IN
  CASE Len(b) < PacketLen             -> b
    [] Len(b) >= PacketLen /\ s = 0   -> SubSeq(b, Len(b), Len(b))
    [] s > 0 /\ Len(b) >= PacketLen /\ Len(b) - s + 1 < PacketLen
                                      -> SubSeq(b, s, Len(b))
    [] OTHER                          -> SubSeq(b, s + PacketLen, Len(b))

(* The number itself is taken for the number of lost ones.                 *)
FaultyJump(n) ==
  IF m_lastDevSeq # NoSeq /\ n > m_lastDevSeq + 1 THEN n - m_lastDevSeq ELSE 0

(* publishSample: what m_seqLost grows by.                                 *)
Jump(n) ==
  IF m_lastDevSeq # NoSeq /\ n > m_lastDevSeq + 1 THEN n - m_lastDevSeq - 1 ELSE 0

ReadPacket(n) ==
  /\ m_lastDevSeq' = n
  /\ gap' = 0 /\ restarted' = FALSE
  /\ tally' = [excess |-> IF m_lastDevSeq = NoSeq THEN 0 ELSE Jump(n) - gap,
               straight |-> ~restarted /\ n > m_lastDevSeq /\ gap < SeqSpace]

Unread ==
  /\ gap' = AtMost(gap + 1, SeqSpace)
  /\ UNCHANGED <<m_lastDevSeq, restarted, tally>>

(* parsePacket: the bytes taken out of the buffer are an intact packet.    *)
ParsePacket(p, bytes) ==
  bytes = Packet(p) /\ Start(m_buffer \o bytes) = Len(m_buffer) + 1

(* onReadyRead for the bytes of one packet.                                *)
Receive(p, bytes) ==
  /\ m_buffer' = Remainder(m_buffer \o bytes)
  /\ fresh' = (fresh \/ bytes # << >>)
  /\ IF ParsePacket(p, bytes) THEN ReadPacket(g_stream_seq) ELSE Unread
  /\ steady' = (bytes = Packet(p) /\ p = <<"x", "x">>)
  /\ unread' = (steady /\ bytes = Packet(p) /\ ~ParsePacket(p, bytes))

(* stream_send_sample; nobody listens to a closed port.                    *)
SendSample ==
  /\ g_stream_seq' = (g_stream_seq + 1) % SeqSpace
  /\ IF ~open
     THEN Unread /\ UNCHANGED <<m_buffer, steady, unread, fresh, faults>>
     ELSE \E p \in Payloads :
            \/ Receive(p, Packet(p)) /\ UNCHANGED faults
            \/ /\ faults < MaxFaults /\ faults' = faults + 1
               /\ \E bytes \in Damaged(p) : Receive(p, bytes)

-----------------------------------------------------------------------------
(* The firmware, one tick.                                                 *)

Takes(who) == who \in turn /\ turn' = turn \ {who}

(* adxl_init and adxl_read work when the accelerometer does.               *)
AdxlInit == g_adxl_ok' = adxl
AdxlRead == g_adxl_ok /\ adxl

(* sd_open works when the card does.                                       *)
OpenLog == g_sd_open' = card

(* Whether the log is open after sd_ensure and sd_write of a sample.       *)
LogWritten == g_sd_open /\ card

(* Boot, up to the loop: wait for the accelerometer, then open the log;    *)
(* without a card the error code is blinked first.                         *)
BootStep ==
  /\ Takes("device") /\ stage \in {"adxl", "blink"}
  /\ \/ /\ stage = "adxl" /\ ~adxl /\ left > 0
        /\ left' = left - 1 /\ UNCHANGED <<stage, g_adxl_ok, logger>>
     \/ /\ stage = "adxl" /\ (adxl \/ left = 0)
        /\ AdxlInit
        /\ OpenLog
        /\ stage' = IF card THEN "run" ELSE "blink"
        /\ left' = IF card THEN 0 ELSE Blink
        /\ late' = 2 * Half - RetryTicks
        /\ closedFor' = 0 /\ wrapped' = FALSE
     \/ /\ stage = "blink"
        /\ left' = left - 1
        /\ stage' = IF left = 1 THEN "run" ELSE "blink"
        /\ late' = 2 * Half - RetryTicks
        /\ UNCHANGED <<g_adxl_ok, g_sd_open, closedFor, wrapped>>
  /\ UNCHANGED <<g_stream_seq, world, open, reader, watch>>

(* The deadline is put off in every pass of the loop.                      *)
FaultySdRetry(isOpen) ==
  /\ late' = 2 * Half - RetryTicks
  /\ g_sd_open' = (isOpen \/ (late < Half /\ card))
  /\ closedFor' = IF g_sd_open /\ ~isOpen THEN 0 ELSE closedFor
  /\ UNCHANGED wrapped

(* The retry of the main loop: the difference to next_retry is signed.     *)
SdRetry(isOpen) ==
  IF ~isOpen /\ late < Half
  THEN /\ OpenLog
       /\ late' = 2 * Half - RetryTicks
       /\ closedFor' = 0 /\ wrapped' = FALSE
  ELSE /\ g_sd_open' = isOpen
       /\ closedFor' = IF g_sd_open /\ ~isOpen THEN 0 ELSE closedFor
       /\ UNCHANGED <<late, wrapped>>

(* A pass of the loop: a sample, if the accelerometer answers, is sent and *)
(* logged; else the accelerometer is set up anew.                          *)
LoopStep ==
  /\ Takes("device") /\ stage = "run"
  /\ IF AdxlRead
     THEN /\ SendSample
          /\ SdRetry(LogWritten)
          /\ UNCHANGED g_adxl_ok
     ELSE /\ AdxlInit
          /\ SdRetry(g_sd_open)
          /\ UNCHANGED <<g_stream_seq, reader, fresh, faults>>
  /\ UNCHANGED <<boot, card, adxl, plugged, open, stallSince>>

HungStep ==
  /\ Takes("device") /\ stage = "hung"
  /\ UNCHANGED <<boot, g_adxl_ok, logger, g_stream_seq, world, open, reader, watch>>

-----------------------------------------------------------------------------
(* The watchdog of tpacq.                                                  *)

(* connectPort: an open that succeeds pulses DTR, and the device resets.   *)
ConnectPort ==
  /\ m_buffer' = << >> /\ steady' = FALSE /\ unread' = FALSE
  /\ fresh' = FALSE /\ stallSince' = 0
  /\ open' = plugged
  /\ IF plugged
     THEN /\ stage' = "adxl" /\ left' = AdxlWait
          /\ g_adxl_ok' = FALSE /\ g_sd_open' = FALSE /\ g_stream_seq' = 0
          /\ late' = 0 /\ closedFor' = 0 /\ wrapped' = FALSE /\ restarted' = TRUE
     ELSE UNCHANGED <<boot, g_adxl_ok, logger, g_stream_seq, restarted>>
  /\ UNCHANGED <<m_lastDevSeq, gap, tally, world>>

(* A closed port is not looked at.                                         *)
FaultyCheckStall ==
  /\ Takes("watchdog")
  /\ IF open /\ ~fresh /\ stallSince >= StallTicks
     THEN ConnectPort
     ELSE /\ fresh' = FALSE
          /\ stallSince' = IF open /\ fresh THEN 0 ELSE stallSince
          /\ UNCHANGED <<boot, g_adxl_ok, logger, g_stream_seq, world, open, reader>>

CheckStall ==
  /\ Takes("watchdog")
  /\ IF (open => ~fresh) /\ stallSince >= StallTicks
     THEN ConnectPort
     ELSE /\ fresh' = IF open THEN FALSE ELSE fresh
          /\ stallSince' = IF open /\ fresh THEN 0 ELSE stallSince
          /\ UNCHANGED <<boot, g_adxl_ok, logger, g_stream_seq, world, open, reader>>

-----------------------------------------------------------------------------
(* Time and the world.                                                     *)

Tick ==
  /\ turn = {} /\ turn' = {"device", "watchdog"}
  /\ stallSince' = AtMost(stallSince + 1, StallTicks)
  /\ late' = IF stage = "run" THEN (late + 1) % (2 * Half) ELSE late
  /\ closedFor' = IF stage = "run" /\ ~g_sd_open
                  THEN AtMost(closedFor + 1, RetryTicks + 1) ELSE 0
  /\ wrapped' = (wrapped \/ (stage = "run" /\ late' = Half))
  /\ UNCHANGED <<boot, g_adxl_ok, g_sd_open, g_stream_seq, world, open, reader, fresh>>

Fault == faults < MaxFaults /\ faults' = faults + 1

Hang ==
  /\ Fault /\ stage' = "hung" /\ left' = 0
  /\ UNCHANGED <<g_adxl_ok, logger, g_stream_seq, card, adxl, plugged, open,
                 reader, watch, turn>>

(* A removed device is a ResourceError: onErrorOccurred closes the port.   *)
Unplug ==
  /\ Fault /\ plugged /\ plugged' = FALSE
  /\ open' = FALSE /\ m_buffer' = << >> /\ steady' = FALSE /\ unread' = FALSE
  /\ UNCHANGED <<boot, g_adxl_ok, logger, g_stream_seq, card, adxl, watch, turn,
                 m_lastDevSeq, gap, restarted, tally>>

CardFails == card /\ card' = FALSE /\ UNCHANGED <<adxl, plugged>>
AdxlFails == adxl /\ adxl' = FALSE /\ UNCHANGED <<card, plugged>>

Repair ==
  \/ ~plugged /\ plugged' = TRUE /\ UNCHANGED <<card, adxl>>
  \/ ~card /\ card' = TRUE /\ UNCHANGED <<plugged, adxl>>
  \/ ~adxl /\ adxl' = TRUE /\ UNCHANGED <<plugged, card>>

Environment ==
  /\ \/ Fault /\ (CardFails \/ AdxlFails)
     \/ Repair /\ UNCHANGED faults
  /\ UNCHANGED <<boot, g_adxl_ok, logger, g_stream_seq, open, reader, watch, turn>>

Next ==
  \/ BootStep \/ LoopStep \/ HungStep \/ CheckStall \/ Tick
  \/ Hang \/ Unplug \/ Environment

(* The processor runs, the 500 ms timer fires, time passes.                *)
Fairness ==
  /\ WF_vars(BootStep) /\ WF_vars(LoopStep) /\ WF_vars(HungStep)
  /\ WF_vars(CheckStall) /\ WF_vars(Tick)

Spec == Init /\ [][Next]_vars /\ Fairness

-----------------------------------------------------------------------------
(* The buffer, between two packets, stays shorter than a packet.           *)
TypeOK ==
  /\ stage \in {"adxl", "blink", "run", "hung"} /\ left \in 0 .. AdxlWait + Blink
  /\ \A b \in {g_adxl_ok, g_sd_open, card, adxl, plugged, open, fresh, steady,
               unread, restarted, wrapped} : b \in BOOLEAN
  /\ late \in 0 .. 2 * Half - 1 /\ g_stream_seq \in 0 .. SeqSpace - 1
  /\ m_buffer \in Seq({"M", "S", "x"}) /\ Len(m_buffer) < PacketLen
  /\ m_lastDevSeq \in {NoSeq} \union 0 .. SeqSpace - 1
  /\ stallSince \in 0 .. StallTicks /\ turn \subseteq {"device", "watchdog"}
  /\ gap \in 0 .. SeqSpace /\ closedFor \in 0 .. RetryTicks + 1
  /\ faults \in 0 .. MaxFaults

(* Damage costs the next packet at most, unless that one's payload looks   *)
(* like the magic: an intact packet after an intact one is read, whatever  *)
(* the bytes before them have become.                                      *)
Resyncs == ~unread

(* m_seqLost counts lost packets only, over resets of the device and the   *)
(* wrap of its numbers, and all of them when there was neither.            *)
LossCounted == tally.excess <= 0 /\ (tally.straight => tally.excess = 0)

(* A closed log is tried again once per RETRY_MS, except while the last    *)
(* deadline is more than half the range of g_tick ago: then the signed     *)
(* difference is negative, and there is no retry until it has wrapped.     *)
SdRetried ==
  stage = "run" /\ "device" \notin turn /\ ~g_sd_open /\ closedFor >= RetryTicks
    => wrapped /\ late >= Half

(* A device that hangs or is removed is brought back, with its log, once   *)
(* the card, the accelerometer and the port work for good.  The watchdog   *)
(* resets a device whose boot is slower than the stall timeout for ever.   *)
StreamRestarts ==
  <>[](card /\ adxl /\ plugged) => <>[](open /\ stage = "run" /\ g_sd_open)
=============================================================================

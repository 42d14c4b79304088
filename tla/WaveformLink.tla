---------------------------- MODULE WaveformLink ----------------------------
(***************************************************************************)
(* The waveform backbone: tpslinkserver, its clients (WaveformClient and   *)
(* tpslink) and the links between them.  A client runs a blocking          *)
(* handshake, streams, and after a lost link reconnects by a timer and     *)
(* resumes with DATA <last + 1>.  Links break, the server restarts with an *)
(* empty ring, connection attempts fail and replies come late.             *)
(***************************************************************************)
EXTENDS SlinkServer, SequencesExt

CONSTANTS
  Wants,        (* Wants[c]: the stations and selectors client c asks for  *)
  Bridge,       (* the clients that are tpslink, not WaveformClient: they  *)
                (* give up when STATION is rejected and send END at last   *)
  MaxEpoch,     (* bound of the incarnations of the server                 *)
  MaxFaults     (* bound of the faults of the environment                  *)

(* sendSelectors skips an empty selector: no SELECT of a client resets.     *)
ASSUME LinkAssumption ==
  /\ MaxProduced \in Nat /\ MaxEpoch \in Nat \ {0} /\ MaxFaults \in Nat
  /\ \A e \in 1 .. MaxEpoch, n \in 0 .. MaxProduced - 1 : RecordAt(e, n) \in Record
  /\ \A c \in Client : LET w == Wants[c] IN
       /\ w.stations \in Seq(Range(w.stations)) /\ w.selectors \in Seq(Range(w.selectors))
       /\ \A i \in DOMAIN w.selectors : w.selectors[i].kind \in {"pos", "neg", "bad"}

VARIABLES
  phase,    (* "handshake": inside connectAndHandshake, socket signals     *)
            (* blocked; "loop": in the event loop                          *)
  step,     (* the command of the handshake whose reply is awaited         *)
  wired,    (* m_wired: readyRead and disconnected reach the client        *)
  timers,   (* pending reconnect timers                                    *)
  seen,     (* the last packet taken from the stream, or NoPacket; its     *)
            (* wire number is m_lastSeq, m_haveSeq is seen # NoPacket      *)
  ate,      (* history: packets were read together with a reply            *)
  muted,    (* history: END was written to a link that had been reset      *)
  faults    (* history: faults so far                                      *)

clientVars == <<phase, step, wired, timers, seen, ate, muted>>
vars == <<serverVars, clientVars, faults>>

NoPacket == [kind |-> "none"]

IsPacket(m) == m.kind = "pkt"

-----------------------------------------------------------------------------
(* The commands of the handshake, DATA apart.                              *)

Nowhere == [epoch |-> 0, num |-> 0]

Command(cmd) == [cmd |-> cmd, seq |-> NoSeq, from |-> Nowhere]

StationCommand(sta) == [cmd |-> "STATION", sta |-> sta]

SelectCommand(sel) == [cmd |-> "SELECT", sel |-> sel]

SendSelectors(c) == [i \in DOMAIN Wants[c].selectors |-> SelectCommand(Wants[c].selectors[i])]

(* The selectors once, after the last station.                             *)
FaultySubscription(c) ==
  [i \in DOMAIN Wants[c].stations |-> StationCommand(Wants[c].stations[i])]
    \o SendSelectors(c)

(* SELECT applies to the most recent station, so the selectors follow each *)
(* of them; without stations they are sent once.                           *)
Subscription(c) ==
  IF Wants[c].stations = << >> THEN SendSelectors(c)
  ELSE FlattenSeq([i \in DOMAIN Wants[c].stations |->
                     <<StationCommand(Wants[c].stations[i])>> \o SendSelectors(c)])

Greeting(c) == <<Command("HELLO")>> \o Subscription(c)

FaultyDataCommand(c) ==
  IF seen[c] = NoPacket THEN Command("DATA")
  ELSE [cmd |-> "DATA", seq |-> seen[c].wire,
        from |-> [epoch |-> seen[c].epoch, num |-> seen[c].num]]

(* DATA <last + 1>, or bare DATA while nothing was received yet; `from` is *)
(* the record it is meant for.                                             *)
DataCommand(c) ==
  IF seen[c] = NoPacket THEN Command("DATA")
  ELSE [cmd |-> "DATA", seq |-> (seen[c].wire + 1) % SeqSpace,
        from |-> [epoch |-> seen[c].epoch, num |-> seen[c].num + 1]]

LastStep(c) == Len(Greeting(c)) + 1

CommandAt(c, i) == IF i = LastStep(c) THEN DataCommand(c) ELSE Greeting(c)[i]

-----------------------------------------------------------------------------
(* The client.                                                             *)

Init ==
  /\ RingInit
  /\ epoch = 1
  /\ conn = [c \in Client |-> NoConn]
  /\ link = [c \in Client |-> "none"]
  /\ up = [c \in Client |-> << >>]
  /\ down = [c \in Client |-> << >>]
  /\ phase = [c \in Client |-> "loop"]
  /\ step = [c \in Client |-> 0]
  /\ wired = [c \in Client |-> FALSE]
  /\ timers = [c \in Client |-> 1]
  /\ seen = [c \in Client |-> NoPacket]
  /\ ate = [c \in Client |-> FALSE]
  /\ muted = [c \in Client |-> FALSE]
  /\ faults = 0

(* connectAndHandshake, up to HELLO: the old socket is aborted, the server *)
(* drops its end and accepts the new one.                                  *)
Connect(c) ==
  /\ phase[c] = "loop"
  /\ timers[c] > 0
  /\ timers' = [timers EXCEPT ![c] = @ - 1]
  /\ phase' = [phase EXCEPT ![c] = "handshake"]
  /\ step' = [step EXCEPT ![c] = 1]
  /\ link' = [link EXCEPT ![c] = "up"]
  /\ conn' = [conn EXCEPT ![c] = NewConn]
  /\ up' = [up EXCEPT ![c] = <<CommandAt(c, 1)>>]
  /\ down' = [down EXCEPT ![c] = << >>]
  /\ ate' = [ate EXCEPT ![c] = FALSE]
  /\ muted' = [muted EXCEPT ![c] = FALSE]
  /\ UNCHANGED <<slots, head, count, produced, epoch, wired, seen, faults>>

(* waitForConnected fails: the old socket is gone, the timer is set again. *)
ConnectFails(c) ==
  /\ phase[c] = "loop"
  /\ timers[c] > 0
  /\ faults < MaxFaults
  /\ faults' = faults + 1
  /\ link' = [link EXCEPT ![c] = "none"]
  /\ conn' = [conn EXCEPT ![c] = NoConn]
  /\ up' = [up EXCEPT ![c] = << >>]
  /\ down' = [down EXCEPT ![c] = << >>]
  /\ ate' = [ate EXCEPT ![c] = FALSE]
  /\ UNCHANGED <<slots, head, count, produced, epoch, phase, step, wired, timers, seen,
                 muted>>

Send(c, cmds) == up' = IF link[c] = "up" THEN [up EXCEPT ![c] = @ \o cmds] ELSE up

(* The first n messages are read; a link found closed in doing so is       *)
(* closed while the signals are blocked.                                   *)
Take(c, n) ==
  /\ down' = [down EXCEPT ![c] = SubSeq(@, n + 1, Len(@))]
  /\ link' = [link EXCEPT ![c] = IF n = 0 /\ @ = "lost" /\ down[c] = << >> THEN "none" ELSE @]

(* A write to a link that the other end has reset: flush fails and aborts  *)
(* the socket, with what was not read yet, and `disconnected` is blocked.  *)
WriteFails(c) ==
  /\ link[c] = "lost"
  /\ link' = [link EXCEPT ![c] = "none"]
  /\ down' = [down EXCEPT ![c] = << >>]

IsOk(reply) == reply # << >> /\ Head(reply).kind = "text" /\ Head(reply).ok

(* A handshake that fails leaves the signals to the old wiring.            *)
FaultyGiveUp(c) ==
  /\ phase' = [phase EXCEPT ![c] = "loop"]
  /\ step' = [step EXCEPT ![c] = 0]
  /\ UNCHANGED <<timers, wired, up, muted>>

(* A reply that is not OK ends the handshake: try again later.             *)
GiveUp(c) ==
  /\ phase' = [phase EXCEPT ![c] = "loop"]
  /\ step' = [step EXCEPT ![c] = 0]
  /\ timers' = [timers EXCEPT ![c] = @ + 1]
  /\ UNCHANGED <<wired, up, muted>>

(* The next command is written after the reply to the last one was read.   *)
Proceed(c, n) ==
  /\ step' = [step EXCEPT ![c] = @ + 1]
  /\ Take(c, n) \/ WriteFails(c)
  /\ Send(c, <<CommandAt(c, step[c] + 1)>>)
  /\ UNCHANGED <<phase, wired, timers, muted>>

(* DATA was accepted: hand over to the event loop.  tpslink writes END     *)
(* before it unblocks the signals.                                         *)
Finish(c, n) ==
  /\ phase' = [phase EXCEPT ![c] = "loop"]
  /\ step' = [step EXCEPT ![c] = 0]
  /\ wired' = [wired EXCEPT ![c] = TRUE]
  /\ Send(c, IF c \in Bridge THEN <<Command("END")>> ELSE << >>)
  /\ \/ Take(c, n) /\ UNCHANGED muted
     \/ c \in Bridge /\ WriteFails(c) /\ muted' = [muted EXCEPT ![c] = TRUE]
  /\ UNCHANGED timers

(* The commands whose reply the client looks at.                           *)
Checked(c, cmd) == cmd = "DATA" \/ (c \in Bridge /\ cmd = "STATION")

(* What waitForReadyRead and readAll return as the reply to a command: all *)
(* that has arrived, which may hold more than the reply, an earlier reply  *)
(* or, after 3 s or on a broken link, nothing.                             *)
Reply(c, n) ==
  /\ phase[c] = "handshake"
  /\ n > 0 \/ (link[c] # "up" /\ down[c] = << >>) \/ faults < MaxFaults
  /\ faults' = IF n = 0 /\ (link[c] = "up" \/ down[c] # << >>) THEN faults + 1 ELSE faults
  /\ ate' = [ate EXCEPT ![c] = @ \/ \E i \in 1 .. n : IsPacket(down[c][i])]
  /\ IF Checked(c, CommandAt(c, step[c]).cmd) /\ ~IsOk(SubSeq(down[c], 1, n))
     THEN GiveUp(c) /\ Take(c, n)
     ELSE IF step[c] < LastStep(c) THEN Proceed(c, n)
     ELSE Finish(c, n)
  /\ UNCHANGED <<slots, head, count, produced, epoch, conn, seen>>

(* onReadyRead, one message of what has arrived: a packet is decoded and   *)
(* its number remembered, anything else is skipped.                        *)
ReadyRead(c) ==
  /\ phase[c] = "loop"
  /\ wired[c]
  /\ down[c] # << >>
  /\ down' = [down EXCEPT ![c] = Tail(@)]
  /\ IF IsPacket(Head(down[c]))
     THEN /\ seen' = [seen EXCEPT ![c] = Head(down[c])]
          /\ ate' = [ate EXCEPT ![c] = FALSE]
     ELSE UNCHANGED <<seen, ate>>
  /\ UNCHANGED <<slots, head, count, produced, epoch, conn, link, up,
                 phase, step, wired, timers, muted, faults>>

FaultyDisconnected(c) ==
  /\ link[c] = "lost" /\ phase[c] = "loop" /\ down[c] = << >>
  /\ link' = [link EXCEPT ![c] = "none"]
  /\ UNCHANGED <<slots, head, count, produced, epoch, conn, up, down, timers,
                 phase, step, wired, seen, ate, muted, faults>>

(* The disconnected signal, which follows the last byte of the link; it is *)
(* lost while the handshake blocks signals, and before they are connected. *)
Disconnected(c) ==
  /\ link[c] = "lost"
  /\ phase[c] = "loop"
  /\ wired[c]
  /\ down[c] = << >>
  /\ link' = [link EXCEPT ![c] = "none"]
  /\ timers' = [timers EXCEPT ![c] = @ + 1]
  /\ UNCHANGED <<slots, head, count, produced, epoch, conn, up, down,
                 phase, step, wired, seen, ate, muted, faults>>

-----------------------------------------------------------------------------
(* The environment.                                                        *)

(* A link breaks: the server drops the connection (drop), the client still *)
(* reads a prefix of what was under way.                                   *)
Break(c) ==
  /\ link[c] = "up"
  /\ faults < MaxFaults
  /\ faults' = faults + 1
  /\ link' = [link EXCEPT ![c] = "lost"]
  /\ conn' = [conn EXCEPT ![c] = NoConn]
  /\ up' = [up EXCEPT ![c] = << >>]
  /\ \E rest \in Prefixes(down[c]) : down' = [down EXCEPT ![c] = rest]
  /\ UNCHANGED <<slots, head, count, produced, epoch, clientVars>>

RingReset ==
  /\ slots' = [i \in SlotIndex |-> EmptySlot]
  /\ head' = 0
  /\ count' = 0
  /\ produced' = 0

(* The server dies and is started again: a new ring, numbering from 0.     *)
Restart ==
  /\ epoch < MaxEpoch
  /\ epoch' = epoch + 1
  /\ RingReset
  /\ conn' = [c \in Client |-> NoConn]
  /\ link' = [c \in Client |-> IF link[c] = "up" THEN "lost" ELSE link[c]]
  /\ up' = [c \in Client |-> << >>]
  /\ \E rest \in [Client -> UNION {Prefixes(down[c]) : c \in Client}] :
       /\ \A c \in Client : rest[c] \in Prefixes(down[c])
       /\ down' = rest
  /\ UNCHANGED <<clientVars, faults>>

(* The packets client c has: the last one taken and those under way to it. *)
Received(c) == {m \in {seen[c]} \union Range(down[c]) : IsPacket(m)}

(* Records arrive while no client is further behind than the horizon.      *)
Feed ==
  /\ \A c \in Client : \A p \in Received(c) : p.epoch = epoch => Near(p.num + 1)
  /\ Ingest
  /\ UNCHANGED <<clientVars, faults>>

Pump == PumpClients /\ UNCHANGED <<clientVars, faults>>

Serve(c) == ServerRead(c) /\ UNCHANGED <<clientVars, faults>>

ReplyAny(c) == \E n \in 0 .. Len(down[c]) : Reply(c, n)

ReplyArrives(c) == \E n \in 0 .. Len(down[c]) : Reply(c, n) /\ (n > 0 \/ link[c] # "up")

Next ==
  \/ Feed
  \/ Pump
  \/ Restart
  \/ \E c \in Client :
       \/ Serve(c)
       \/ Connect(c)
       \/ ConnectFails(c)
       \/ ReplyAny(c)
       \/ ReadyRead(c)
       \/ Disconnected(c)
       \/ Break(c)

(* The event loops and timers of both processes keep running; nothing is   *)
(* assumed of the feed and of the faults.                                  *)
Fairness ==
  /\ WF_vars(Pump)
  /\ \A c \in Client :
       /\ WF_vars(Serve(c))
       /\ WF_vars(Connect(c))
       /\ WF_vars(ReplyArrives(c))
       /\ WF_vars(ReadyRead(c))
       /\ WF_vars(Disconnected(c))

Spec == Init /\ [][Next]_vars /\ Fairness

-----------------------------------------------------------------------------

CommandType ==
  [cmd : {"HELLO", "DATA", "END"}, seq : Wire \union {NoSeq},
   from : [epoch : Nat, num : Nat]]
    \union UNION {Range(Subscription(c)) : c \in Client}

(* Types, and which combinations of connection, link and phase occur.      *)
TypeOK ==
  /\ slots \in [SlotIndex -> Slot] /\ head \in SlotIndex /\ count \in 0 .. Cap
  /\ produced \in 0 .. MaxProduced /\ epoch \in 1 .. MaxEpoch
  /\ \A c \in Client :
       /\ link[c] \in {"up", "lost", "none"} /\ (conn[c].open <=> link[c] = "up")
       /\ conn[c].streaming => conn[c].cursor \in Wire
       /\ phase[c] \in {"handshake", "loop"}
       /\ step[c] \in IF phase[c] = "loop" THEN {0} ELSE 1 .. LastStep(c)
       /\ Range(up[c]) \subseteq CommandType
       /\ \A i \in DOMAIN down[c] : down[c][i].kind \in {"text", "pkt"}
       /\ wired[c] \in BOOLEAN /\ ate[c] \in BOOLEAN /\ muted[c] \in BOOLEAN
       /\ timers[c] \in Nat /\ seen[c].kind \in {"none", "pkt"}

(* The packet the cursor of client c stands at.                            *)
Cursor(c) ==
  IF conn[c].streaming
  THEN [kind |-> "pkt", epoch |-> epoch, num |-> conn[c].at, jumped |-> conn[c].jumped]
  ELSE NoPacket

(* What client c has before it, in the order it gets it.                   *)
Path(c) == <<seen[c]>> \o down[c] \o <<Cursor(c)>>

Earlier(p, q) == p.epoch < q.epoch \/ (p.epoch = q.epoch /\ p.num < q.num)

(* A client never receives a packet twice nor an older one after a newer   *)
(* one, over any number of reconnections and restarts of the server: the   *)
(* number it resumes from and the cursor the server makes of it never      *)
(* point back before what it has.                                          *)
InOrder ==
  \A c \in Client : LET p == Path(c) IN
    \A i, j \in DOMAIN p :
      i < j /\ IsPacket(p[i]) /\ IsPacket(p[j]) => Earlier(p[i], p[j])

(* A client gets the record it means: the one after the last it took when  *)
(* it resumes, or the oldest there is, then the next and the next, though  *)
(* it names them by numbers that wrap, the server looks for them in slots  *)
(* that are reused, and the server may overtake it or be started anew.     *)
Genuine ==
  \A c \in Client : \A p \in Received(c) :
    p.rec = RecordAt(p.epoch, p.asked) /\ p.wire = p.asked % SeqSpace

(* The records client c was configured for: of each of its stations the    *)
(* selected channels, of all stations if it named none.                    *)
Wanted(c, rec) ==
  /\ \/ Wants[c].stations = << >>
     \/ \E i \in DOMAIN Wants[c].stations : Wants[c].stations[i] = rec.sta
  /\ Selected(rec.chan, Wants[c].selectors)

(* A client is sent what it asked for and nothing else, although its       *)
(* handshake may time out anywhere: the selectors reach the server scoped  *)
(* to every station, not to the last one only.                             *)
OnlyWanted ==
  \A c \in Client : \A p \in Received(c) : Wanted(c, p.rec)

Missing(c, p, q) ==
  {n \in (p.num + 1) .. (q.num - 1) : p.epoch = q.epoch /\ Wanted(c, RecordAt(p.epoch, n))}

(* The packet at j is the next one after that at i.                        *)
Follows(s, i, j) ==
  /\ i < j /\ IsPacket(s[i]) /\ IsPacket(s[j])
  /\ \A k \in (i + 1) .. (j - 1) : ~IsPacket(s[k])

(* Between two packets of one incarnation of the server a client misses a  *)
(* wanted record only if the record had aged out of the ring when the      *)
(* server came to it (jumped), or was read together with a reply.          *)
NoSilentGap ==
  \A c \in Client : LET p == Path(c) IN
    \A i, j \in DOMAIN p : Follows(p, i, j) =>
      Missing(c, p[i], p[j]) = {} \/ p[j].jumped \/ (i = 1 /\ ate[c])

(* A client never ends up without a stream and without a way back to one:  *)
(* outside the handshake it has a timer running, a lost link it will be    *)
(* told of, or a link whose server streams or is about to.  The exception  *)
(* is a tpslink that wrote END to a link already reset.                    *)
NoOrphan ==
  \A c \in Client : phase[c] = "loop" =>
    \/ timers[c] > 0
    \/ muted[c]
    \/ wired[c] /\ link[c] = "lost"
    \/ wired[c] /\ link[c] = "up"
         /\ (conn[c].streaming \/ \E i \in DOMAIN up[c] : up[c][i].cmd = "DATA")

(* Once the faults are over every client streams again and has received    *)
(* everything up to the newest record, but for a tpslink whose END failed. *)
Synced(c) ==
  /\ phase[c] = "loop" /\ wired[c] /\ conn[c].streaming
  /\ conn[c].cursor = NextSeq /\ down[c] = << >>

EventuallySynced == <>[](\A c \in Client : Synced(c) \/ muted[c])

(* A dropped link does not lose the gap of the outage: as NoSilentGap, with*)
(* aging out of the ring as the only excuse (WaveformClient.cpp:23).       *)
OutageGapKept ==
  \A c \in Client : LET p == Path(c) IN
    \A i, j \in DOMAIN p : Follows(p, i, j) =>
      Missing(c, p[i], p[j]) = {} \/ p[j].jumped

(* A client that fell so far behind that the ring was overwritten under it *)
(* is disconnected by the server (SEEDLINK-PROTOCOL.md).                   *)
LaggardCut ==
  [][ \A c \in Client :
        /\ conn[c].streaming
        /\ PacketResult(conn[c].cursor) = "TooOld"
        /\ conn'[c] # conn[c]
        => ~conn'[c].open ]_vars

=============================================================================

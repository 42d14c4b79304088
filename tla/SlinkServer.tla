---------------------------- MODULE SlinkServer ----------------------------
(***************************************************************************)
(* tpslinkserver: one ring, one cursor per client connection, and the TCP  *)
(* connections between the two.  The event loop handles one line of the    *)
(* handshake, one record of the acquisition feed or one tick of the pump   *)
(* timer at a time.                                                        *)
(*                                                                         *)
(* Fields named at, asked, jumped, epoch, num and from are history: the    *)
(* code does not keep them, the properties compare with them.              *)
(***************************************************************************)
EXTENDS SeedLinkRing, Sequences

CONSTANTS
  Client,          (* the clients of the server                            *)
  RecordAt(_, _),  (* RecordAt(e, n): record n that the acquisition feed   *)
                   (* brings to incarnation e of the server                *)
  MaxProduced      (* bound of the records per incarnation                 *)

VARIABLES
  epoch,   (* the incarnation of the server: the ring is only in memory    *)
  conn,    (* the server's Client structure of each connection, or NoConn  *)
  link,    (* "up", "lost" (broken, the client not told yet) or "none"     *)
  up,      (* commands on their way to the server                          *)
  down     (* replies and packets on their way to the client               *)

serverVars == <<slots, head, count, produced, epoch, conn, link, up, down>>

NoConn == [streaming |-> FALSE, open |-> FALSE]

NoSeq == SeqSpace

(* A fresh Client.  `current` is not kept apart: it is the last station.   *)
NewConn == [streaming |-> FALSE, open |-> TRUE, cursor |-> 0, stations |-> << >>,
            uniSelectors |-> << >>, at |-> 0, asked |-> 0, jumped |-> FALSE]

-----------------------------------------------------------------------------
(* Subscriptions.  A selector either matches channels ("pos"), excludes    *)
(* them ("neg") or has the wrong length and is skipped ("bad").            *)

Selected(chan, sels) ==
  LET matching(kind) == {i \in DOMAIN sels : sels[i].kind = kind /\ chan \in sels[i].match}
      positive == {i \in DOMAIN sels : sels[i].kind = "pos"}
  IN  /\ matching("neg") = {}
      /\ positive = {} \/ matching("pos") # {}

Accepts(cl, rec) ==
  \/ cl.stations = << >> /\ Selected(rec.chan, cl.uniSelectors)
  \/ \E i \in DOMAIN cl.stations :
       /\ cl.stations[i].sta = rec.sta
       /\ Selected(rec.chan, cl.stations[i].selectors)

WithSelector(sels, sel) == IF sel.kind = "reset" THEN << >> ELSE Append(sels, sel)

Text(ok) == [kind |-> "text", ok |-> ok]

-----------------------------------------------------------------------------
(* The handshake.                                                          *)

FaultyResumeCursor(q) ==
  IF PacketResult(q) = "TooOld" THEN OldestSeq ELSE q

FaultyNoBackfill(q) == NextSeq

(* Where DATA <q> starts.                                                  *)
ResumeCursor(q) ==
  IF PacketResult(q) = "Ok" \/ q = NextSeq THEN q
  ELSE IF PacketResult(q) = "TooOld" THEN OldestSeq
  ELSE NextSeq

(* The absolute number behind a cursor that is not ahead of the ring.      *)
AbsOf(cursor) == Oldest + Forward(cursor)

(* The record the client means, which knows nothing of slots and wrapping  *)
(* numbers: of this ring, the one it asks for or the oldest there is.      *)
Meant(from, cursor) ==
  IF from.epoch = epoch /\ from.num >= Oldest THEN from.num
  ELSE IF from.epoch = epoch THEN Oldest
  ELSE AbsOf(cursor)

(* The connection after DATA or END.                                       *)
Started(cl, line) ==
  LET q == line.seq
      cursor == IF q = NoSeq THEN NextSeq ELSE ResumeCursor(q)
  IN  [cl EXCEPT !.streaming = TRUE, !.cursor = cursor, !.at = AbsOf(cursor),
                 !.asked = Meant(line.from, cursor),
                 !.jumped = q # NoSeq /\ PacketResult(q) = "TooOld"]

(* handleCommand: the connection afterwards; HELLO leaves it as it is.     *)
AfterCommand(cl, line) ==
  CASE line.cmd = "SELECT" ->
         IF cl.stations = << >>
         THEN [cl EXCEPT !.uniSelectors = WithSelector(@, line.sel)]
         ELSE [cl EXCEPT !.stations[Len(cl.stations)].selectors = WithSelector(@, line.sel)]
    [] line.cmd = "STATION" ->
         [cl EXCEPT !.stations = Append(@, [sta |-> line.sta, selectors |-> << >>])]
    [] line.cmd \in {"DATA", "END"} -> Started(cl, line)
    [] OTHER -> cl

(* onRead: one line.  A streaming connection discards what it is sent.     *)
ServerRead(c) ==
  /\ conn[c].open
  /\ up[c] # << >>
  /\ up' = [up EXCEPT ![c] = Tail(@)]
  /\ IF conn[c].streaming
     THEN UNCHANGED <<conn, down>>
     ELSE LET line == Head(up[c])
          IN  /\ conn' = [conn EXCEPT ![c] = AfterCommand(@, line)]
              /\ down' = [down EXCEPT ![c] = Append(@, Text(line.cmd # "HELLO"))]
  /\ UNCHANGED <<slots, head, count, produced, epoch, link>>

-----------------------------------------------------------------------------
(* The acquisition feed and the pump.                                      *)

(* No reader falls so far behind that its 24-bit number is taken for       *)
(* another one: the horizon of RingLog.                                    *)
Near(n) == produced + 1 - Cap - n <= SeqSpace - Half

(* ingest: a record of the feed enters the ring.                           *)
Ingest ==
  /\ produced < MaxProduced
  /\ \A c \in Client : conn[c].streaming => Near(conn[c].at)
  /\ Push(RecordAt(epoch, produced))
  /\ UNCHANGED <<epoch, conn, link, up, down>>

(* What packet() copies for the reader of q, who takes it for record n.    *)
Packet(q, n) ==
  LET s == SlotOf(q)
  IN  [kind |-> "pkt", epoch |-> epoch, num |-> s.abs, asked |-> n, wire |-> s.wire,
       rec |-> s.rec, jumped |-> FALSE]

MarkFirst(pkts, jumped) ==
  IF jumped /\ pkts # << >> THEN [pkts EXCEPT ![1].jumped = TRUE] ELSE pkts

(* How many packets lie between the cursor and the newest one.             *)
Fresh(cl) ==
  IF PacketResult(cl.cursor) = "Ok" THEN count - Forward(cl.cursor) ELSE 0

(* What the inner loop of pumpClients has written after i turns: every     *)
(* packet the subscription accepts.                                        *)
Written(cl) ==
  LET sent[i \in 0 .. Fresh(cl)] ==
        IF i = 0 THEN << >>
        ELSE LET p == Packet((cl.cursor + i - 1) % SeqSpace, cl.asked + i - 1)
             IN  IF Accepts(cl, p.rec) THEN Append(sent[i - 1], p) ELSE sent[i - 1]
  IN  sent

Batch(cl) == MarkFirst(Written(cl)[Fresh(cl)], cl.jumped)

FaultyPumped(cl) ==
  IF PacketResult(cl.cursor) = "Future" THEN cl
  ELSE [cl EXCEPT !.cursor = produced, !.at = produced, !.asked = produced]

(* The connection after the loop.  Both ways out of it, Future after the   *)
(* newest packet and TooOld, leave the cursor at the next number.          *)
Pumped(cl) ==
  LET r == PacketResult(cl.cursor)
  IN  IF r = "Future" THEN cl
      ELSE [cl EXCEPT !.cursor = NextSeq, !.at = produced, !.asked = produced,
                      !.jumped = (r = "TooOld") \/ (cl.jumped /\ Batch(cl) = << >>)]

(* pumpClients: one tick of the 100 ms timer serves every client.          *)
PumpClients ==
  /\ \E c \in Client : conn[c].streaming /\ conn[c].cursor # NextSeq
  /\ conn' = [c \in Client |-> IF conn[c].streaming THEN Pumped(conn[c]) ELSE conn[c]]
  /\ down' = [c \in Client |-> IF conn[c].streaming THEN down[c] \o Batch(conn[c])
                                                    ELSE down[c]]
  /\ UNCHANGED <<slots, head, count, produced, epoch, link, up>>

=============================================================================

------------------------------ MODULE AcqFeed ------------------------------
(***************************************************************************)
(* The acquisition feed: tpacq packs samples into miniSEED records, queues *)
(* them in a bounded backlog and writes the backlog to the feed socket of  *)
(* tpslinkserver whenever that socket is connected.  Records are numbered  *)
(* 1, 2, ... in the order they are packed.                                 *)
(*                                                                         *)
(* QTcpSocket::write of a connected socket takes the whole record, so      *)
(* drainFeed empties the backlog or does nothing.                          *)
(***************************************************************************)
EXTENDS Naturals, FiniteSets, SequencesExt

CONSTANTS
  FeedBacklog,  (* --feed-backlog: records held during an outage           *)
  MaxBurst,     (* most records one window of samples is encoded into      *)
  MaxPacked,    (* bound of the records packed                             *)
  MaxFaults     (* bound of the broken links and refused connections       *)

ASSUME FeedAssumption ==
  /\ FeedBacklog \in Nat \ {0} /\ MaxBurst \in Nat \ {0}
  /\ MaxBurst <= FeedBacklog
  /\ MaxPacked \in Nat /\ MaxFaults \in Nat

VARIABLES
  packed,      (* records packed so far                                    *)
  backlog,     (* m_feedBacklog                                            *)
  feedDropped, (* m_feedDropped                                            *)
  sock,        (* the state of m_feedSock                                  *)
  timers,      (* pending reconnect timers                                 *)
  link,        (* "up", or "lost" until m_feedSock is told                 *)
  wire,        (* records written and not yet read by the server           *)
  ingested,    (* history: the records the server has put into its ring    *)
  lost,        (* history: records written to a link that broke            *)
  refused,     (* history: the last connection attempt failed              *)
  faults       (* history: faults so far                                   *)

vars == <<packed, backlog, feedDropped, sock, timers, link, wire, ingested,
          lost, refused, faults>>

Init ==
  /\ packed = 0 /\ backlog = << >> /\ feedDropped = 0
  /\ sock = "connecting" /\ timers = 0
  /\ link = "lost" /\ wire = << >>
  /\ ingested = << >> /\ lost = {} /\ refused = FALSE /\ faults = 0

-----------------------------------------------------------------------------
(* tpacq.                                                                  *)

(* The limit is passed before the oldest record goes; the newest goes.     *)
FaultyEvictLate(b) ==
  IF Len(b) > FeedBacklog + 1 THEN SubSeq(b, Len(b) - FeedBacklog, Len(b)) ELSE b

FaultyEvictNewest(b) == IF Len(b) > FeedBacklog THEN SubSeq(b, 1, FeedBacklog) ELSE b

(* What is left of a backlog that is over its limit: the newest records.   *)
Evicted(b) ==
  IF Len(b) > FeedBacklog THEN SubSeq(b, Len(b) - FeedBacklog + 1, Len(b)) ELSE b

(* The front is written and not popped.                                    *)
FaultyNoPop(b) ==
  /\ backlog' = b
  /\ wire' = IF sock = "connected" /\ link = "up" THEN wire \o b ELSE wire
  /\ lost' = IF sock = "connected" /\ link = "lost" THEN lost \union Range(b) ELSE lost

(* drainFeed with the backlog b.  A socket that has not noticed that its   *)
(* link is gone takes the records all the same.                            *)
Drain(b) ==
  IF sock = "connected"
  THEN /\ backlog' = << >>
       /\ IF link = "up" THEN wire' = wire \o b /\ UNCHANGED lost
                         ELSE lost' = lost \union Range(b) /\ UNCHANGED wire
  ELSE /\ backlog' = b
       /\ UNCHANGED <<wire, lost>>

(* The counter counts overflows instead of records.                        *)
FaultyCount(n) ==
  LET b == backlog \o [i \in 1 .. n |-> packed + i]
  IN  /\ packed' = packed + n
      /\ feedDropped' = feedDropped + (IF Len(b) > FeedBacklog THEN 1 ELSE 0)
      /\ Drain(Evicted(b))

(* flushFeedChan: a window of samples becomes n records.                   *)
Flush(n) ==
  LET b == backlog \o [i \in 1 .. n |-> packed + i]
  IN  /\ packed' = packed + n
      /\ feedDropped' = feedDropped + Len(b) - Len(Evicted(b))
      /\ Drain(Evicted(b))

Pack(n) ==
  /\ packed + n <= MaxPacked
  /\ Flush(n)
  /\ UNCHANGED <<sock, timers, link, ingested, refused, faults>>

(* The statistics timer drains as well.                                    *)
PrintStats ==
  /\ Drain(backlog)
  /\ UNCHANGED <<packed, feedDropped, sock, timers, link, ingested, refused, faults>>

(* connectFeed, from the reconnect timer: the socket is unconnected then.  *)
ConnectFeed ==
  /\ timers > 0
  /\ timers' = timers - 1
  /\ sock' = "connecting"
  /\ refused' = FALSE
  /\ UNCHANGED <<packed, backlog, feedDropped, link, wire, ingested, lost, faults>>

(* The connected signal, the server having accepted.                       *)
Connected ==
  /\ sock = "connecting"
  /\ sock' = "connected"
  /\ link' = "up"
  /\ wire' = backlog
  /\ backlog' = << >>
  /\ UNCHANGED <<packed, feedDropped, timers, ingested, lost, refused, faults>>

(* A refused or timed out attempt emits errorOccurred, which has no        *)
(* handler, and not disconnected.                                          *)
Refused ==
  /\ sock = "connecting"
  /\ faults < MaxFaults
  /\ faults' = faults + 1
  /\ sock' = "unconnected"
  /\ refused' = TRUE
  /\ UNCHANGED <<packed, backlog, feedDropped, timers, link, wire, ingested, lost>>

(* No timer.                                                               *)
FaultyDisconnected ==
  /\ sock = "connected" /\ link = "lost"
  /\ sock' = "unconnected"
  /\ UNCHANGED <<packed, backlog, feedDropped, timers, link, wire, ingested, lost, refused, faults>>

(* The disconnected signal.                                                *)
Disconnected ==
  /\ sock = "connected" /\ link = "lost"
  /\ sock' = "unconnected"
  /\ timers' = timers + 1
  /\ UNCHANGED <<packed, backlog, feedDropped, link, wire, ingested, lost, refused, faults>>

-----------------------------------------------------------------------------
(* tpslinkserver and the link between the two.                             *)

(* acceptFeed's readyRead: what has arrived, a record at a time.           *)
Ingest ==
  /\ wire # << >>
  /\ ingested' = Append(ingested, Head(wire))
  /\ wire' = Tail(wire)
  /\ UNCHANGED <<packed, backlog, feedDropped, sock, timers, link, lost, refused, faults>>

(* The server goes down or the link breaks: what is on its way is lost, a  *)
(* record that arrived in part included.                                   *)
Break ==
  /\ link = "up"
  /\ faults < MaxFaults
  /\ faults' = faults + 1
  /\ link' = "lost"
  /\ lost' = lost \union Range(wire)
  /\ wire' = << >>
  /\ UNCHANGED <<packed, backlog, feedDropped, sock, timers, ingested, refused>>

Next ==
  \/ \E n \in 1 .. MaxBurst : Pack(n)
  \/ PrintStats
  \/ ConnectFeed
  \/ Connected
  \/ Refused
  \/ Disconnected
  \/ Ingest
  \/ Break

(* Both event loops run; a listening server accepts, and there is one      *)
(* unless a fault is taken.                                                *)
Fairness ==
  /\ WF_vars(PrintStats) /\ WF_vars(ConnectFeed) /\ WF_vars(Connected)
  /\ WF_vars(Disconnected) /\ WF_vars(Ingest)

Spec == Init /\ [][Next]_vars /\ Fairness

-----------------------------------------------------------------------------

TypeOK ==
  /\ packed \in 0 .. MaxPacked /\ feedDropped \in 0 .. packed
  /\ backlog \in Seq(1 .. packed) /\ Len(backlog) <= FeedBacklog
  /\ wire \in Seq(1 .. packed) /\ ingested \in Seq(1 .. packed)
  /\ lost \subseteq 1 .. packed
  /\ sock \in {"unconnected", "connecting", "connected"} /\ timers \in 0 .. 1
  /\ link \in {"up", "lost"} /\ refused \in BOOLEAN /\ faults \in 0 .. MaxFaults

(* The records that still exist, in the order the server gets them.        *)
Path == ingested \o wire \o backlog

(* The server is fed in the order of packing and never twice the same      *)
(* record, over any number of reconnections (drainFeed, oldest first).     *)
InOrder == \A i \in 1 .. (Len(Path) - 1) : Path[i] < Path[i + 1]

(* The two counters an operator sees tell the truth: every record packed   *)
(* was ingested, is under way, waits, went with a broken link, or is       *)
(* counted in feedDropped.                                                 *)
Accounted ==
  packed = Len(Path) + Cardinality(lost) + feedDropped

(* An outage costs the oldest records: those waiting are always the        *)
(* newest packed, and no record waits while the link is there.             *)
NewestKept ==
  /\ \A i \in DOMAIN backlog : backlog[i] = packed - Len(backlog) + i
  /\ sock = "connected" => backlog = << >>

(* After a broken link the feed comes back, and with it everything that    *)
(* waited, unless a connection attempt failed.                             *)
FeedReturns == <>[](refused \/ (sock = "connected" /\ Path = ingested))

(* Records are never dropped on a disconnect: while the backlog never      *)
(* overflowed every record exists (main.cpp:330).                          *)
NoLossOnDisconnect == feedDropped = 0 => lost = {}

(* They wait in the backlog and go out on reconnect (main.cpp:331).        *)
GoesOut == (backlog # << >>) ~> (backlog = << >>)

=============================================================================

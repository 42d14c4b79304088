--------------------------- MODULE StoreForward ---------------------------
(***************************************************************************)
(* The bus publisher with store-and-forward (class Publisher), as tpacq    *)
(* runs it behind tpmaster: messages 1, 2, ... are sent to the broker, or  *)
(* put aside while pump last saw the link down.                            *)
(*                                                                         *)
(* The ZeroMQ socket is external.  Its PUB side drops what nobody has      *)
(* subscribed to and what exceeds its high-water mark; a link that breaks  *)
(* may take any part of what is on its way; the monitor reports every      *)
(* connection and disconnection, in order.  The application has one        *)
(* thread, so a drain excludes publish and pump, but not the socket.       *)
(***************************************************************************)
EXTENDS Naturals, FiniteSets, SequencesExt

CONSTANTS
  Cap,        (* storeForwardCap: messages put aside during an outage      *)
  Hwm,        (* ZMQ_SNDHWM of the socket                                  *)
  MaxMsgs,    (* bound of the messages published                           *)
  MaxFaults   (* bound of the broken links                                 *)

ASSUME StoreForwardAssumption ==
  Cap \in Nat \ {0} /\ Hwm \in Nat \ {0} /\ MaxMsgs \in Nat /\ MaxFaults \in Nat

VARIABLES
  published,   (* messages handed to publish so far                        *)
  m_connected, (* what pump last read from the monitor                     *)
  settled,     (* more than 300 ms have passed since m_connectedAtMs       *)
  m_backlog,   (* the messages put aside                                   *)
  draining,    (* pump is in its drain loop                                *)
  events,      (* monitor events not yet read                              *)
  linkUp,      (* the connection of the socket to tpmaster                 *)
  subscribed,  (* the socket knows the subscription                        *)
  pipe,        (* messages the socket has taken and not yet handed over    *)
  wanted,      (* tpmaster holds the subscription of its client            *)
  delivered,   (* history: what reached the client, in order               *)
  fate,        (* history: how a message was lost, or "none"               *)
  aside,       (* history: the messages ever put aside                     *)
  faults       (* history: links broken so far                             *)

app == <<published, m_connected, settled, m_backlog, draining, aside>>
net == <<linkUp, subscribed, wanted, faults>>
vars == <<app, net, events, pipe, delivered, fate>>

Fates == {"none", "evicted", "unheard", "overflow", "torn"}

Init ==
  /\ published = 0 /\ m_backlog = << >> /\ draining = FALSE
  /\ m_connected = FALSE /\ settled = FALSE
  /\ events = << >> /\ linkUp = FALSE /\ subscribed = FALSE /\ pipe = << >>
  /\ wanted \in BOOLEAN
  /\ delivered = << >> /\ fate = [m \in 1 .. MaxMsgs |-> "none"]
  /\ aside = {} /\ faults = 0

-----------------------------------------------------------------------------
(* The application.                                                        *)

(* The socket has no limit.                                                *)
FaultySendRaw(m) ==
  IF subscribed THEN pipe' = Append(pipe, m) /\ UNCHANGED fate
  ELSE fate' = [fate EXCEPT ![m] = "unheard"] /\ UNCHANGED pipe

(* sendRaw: the socket takes the message, or drops it without a word.      *)
SendRaw(m) ==
  CASE ~subscribed        -> fate' = [fate EXCEPT ![m] = "unheard"] /\ UNCHANGED pipe
    [] subscribed /\ Len(pipe) >= Hwm ->
                             fate' = [fate EXCEPT ![m] = "overflow"] /\ UNCHANGED pipe
    [] OTHER              -> pipe' = Append(pipe, m) /\ UNCHANGED fate

(* A full backlog turns the new message away.                              *)
FaultyPutAside(m) ==
  /\ aside' = aside \union {m}
  /\ IF Len(m_backlog) >= Cap
     THEN fate' = [fate EXCEPT ![m] = "evicted"] /\ UNCHANGED m_backlog
     ELSE m_backlog' = Append(m_backlog, m) /\ UNCHANGED fate

(* The oldest messages go when the backlog is over its limit.              *)
PutAside(m) ==
  LET b == Append(m_backlog, m) IN
  /\ aside' = aside \union {m}
  /\ IF Len(b) > Cap
     THEN m_backlog' = Tail(b) /\ fate' = [fate EXCEPT ![Head(b)] = "evicted"]
     ELSE m_backlog' = b /\ UNCHANGED fate

Publish ==
  LET m == published + 1 IN
  /\ ~draining /\ published < MaxMsgs
  /\ published' = m
  /\ IF ~m_connected
     THEN PutAside(m) /\ UNCHANGED pipe
     ELSE SendRaw(m) /\ UNCHANGED <<m_backlog, aside>>
  /\ UNCHANGED <<m_connected, settled, draining, events, net, delivered>>

(* The drain is tried only when the connection is new.                     *)
FaultyPumpNew ==
  /\ ~draining
  /\ events' = << >>
  /\ m_connected' = IF events = << >> THEN m_connected ELSE Last(events) = "connected"
  /\ settled' = (settled /\ ~Contains(events, "connected"))
  /\ draining' = (Contains(events, "connected") /\ settled' /\ m_backlog # << >>)
  /\ UNCHANGED <<published, m_backlog, aside, net, pipe, delivered, fate>>

(* pump: reads all events, then drains if the link has settled.  The 300   *)
(* ms count from the pump that reads the connection.                       *)
Pump ==
  /\ ~draining
  /\ events' = << >>
  /\ m_connected' = IF events = << >> THEN m_connected ELSE Last(events) = "connected"
  /\ settled' = (settled /\ ~Contains(events, "connected"))
  /\ draining' = (m_connected' /\ settled' /\ m_backlog # << >>)
  /\ UNCHANGED <<published, m_backlog, aside, net, pipe, delivered, fate>>

Settle ==
  /\ m_connected /\ ~settled
  /\ settled' = TRUE
  /\ UNCHANGED <<published, m_connected, m_backlog, draining, aside, net,
                 events, pipe, delivered, fate>>

(* The newest message is sent first.                                       *)
FaultyDrainNewest ==
  /\ draining
  /\ SendRaw(Last(m_backlog))
  /\ m_backlog' = Front(m_backlog)
  /\ draining' = (m_backlog' # << >>)
  /\ UNCHANGED <<published, m_connected, settled, aside, events, net, delivered>>

(* The message sent is not taken off the backlog before the next turn.     *)
FaultyDrainKeep ==
  /\ draining
  /\ SendRaw(Head(m_backlog))
  /\ draining' = (Len(m_backlog) > 1)
  /\ m_backlog' = IF draining' THEN m_backlog ELSE << >>
  /\ UNCHANGED <<published, m_connected, settled, aside, events, net, delivered>>

(* One turn of the drain loop, which no event stops.                       *)
DrainOne ==
  /\ draining
  /\ SendRaw(Head(m_backlog))
  /\ m_backlog' = Tail(m_backlog)
  /\ draining' = (m_backlog' # << >>)
  /\ UNCHANGED <<published, m_connected, settled, aside, events, net, delivered>>

-----------------------------------------------------------------------------
(* The socket, tpmaster and the client.                                    *)

(* The monitor is installed after connect: the first connection is missed. *)
FaultyLinkUp ==
  /\ ~linkUp
  /\ linkUp' = TRUE
  /\ events' = IF faults = 0 THEN events ELSE Append(events, "connected")
  /\ UNCHANGED <<app, subscribed, wanted, faults, pipe, delivered, fate>>

LinkUp ==
  /\ ~linkUp
  /\ linkUp' = TRUE
  /\ events' = Append(events, "connected")
  /\ UNCHANGED <<app, subscribed, wanted, faults, pipe, delivered, fate>>

(* The link breaks, tpmaster perhaps restarting without its subscriptions. *)
(* The socket may keep what it knew of them, and what it had not sent.     *)
LinkDown ==
  /\ linkUp /\ faults < MaxFaults
  /\ linkUp' = FALSE
  /\ faults' = faults + 1
  /\ events' = Append(events, "disconnected")
  /\ wanted' \in {wanted, FALSE}
  /\ subscribed' \in {subscribed, FALSE}
  /\ \E n \in 0 .. Len(pipe) :
       /\ pipe' = SubSeq(pipe, n + 1, Len(pipe))
       /\ fate' = [m \in 1 .. MaxMsgs |->
                     IF m \in ToSet(SubSeq(pipe, 1, n)) THEN "torn" ELSE fate[m]]
  /\ UNCHANGED <<app, delivered>>

(* The client (re)connects to tpmaster and subscribes.                     *)
Join ==
  /\ ~wanted
  /\ wanted' = TRUE
  /\ UNCHANGED <<app, linkUp, subscribed, faults, events, pipe, delivered, fate>>

(* tpmaster passes the subscription on to the publisher.                   *)
Subscribe ==
  /\ linkUp /\ wanted /\ ~subscribed
  /\ subscribed' = TRUE
  /\ UNCHANGED <<app, linkUp, wanted, faults, events, pipe, delivered, fate>>

(* tpmaster forwards the next message to the client, if it has one.        *)
Forward ==
  /\ linkUp /\ pipe # << >>
  /\ pipe' = Tail(pipe)
  /\ IF wanted THEN delivered' = Append(delivered, Head(pipe)) /\ UNCHANGED fate
     ELSE fate' = [fate EXCEPT ![Head(pipe)] = "unheard"] /\ UNCHANGED delivered
  /\ UNCHANGED <<app, net, events>>

Next ==
  \/ Publish \/ Pump \/ Settle \/ DrainOne
  \/ LinkUp \/ LinkDown \/ Join \/ Subscribe \/ Forward

(* The 200 ms timer pumps, the drain loop runs on, time passes.  Nothing   *)
(* is promised of the link, the client or the source.                      *)
Fairness == WF_vars(Pump) /\ WF_vars(Settle) /\ WF_vars(DrainOne)

Spec == Init /\ [][Next]_vars /\ Fairness

-----------------------------------------------------------------------------
TypeOK ==
  /\ published \in 0 .. MaxMsgs /\ faults \in 0 .. MaxFaults
  /\ m_connected \in BOOLEAN /\ settled \in BOOLEAN /\ draining \in BOOLEAN
  /\ linkUp \in BOOLEAN /\ subscribed \in BOOLEAN /\ wanted \in BOOLEAN
  /\ m_backlog \in Seq(1 .. MaxMsgs) /\ Len(m_backlog) <= Cap
  /\ pipe \in Seq(1 .. MaxMsgs) /\ Len(pipe) <= Hwm
  /\ events \in Seq({"connected", "disconnected"})
  /\ delivered \in Seq(1 .. MaxMsgs)
  /\ fate \in [1 .. MaxMsgs -> Fates] /\ aside \subseteq 1 .. MaxMsgs

(* Every published message is in one place: put aside, in the socket, with *)
(* the client, or lost in one of the ways the socket and the limit allow.  *)
(* Nothing is sent twice by a drain that a broken link interrupts.         *)
Accounted ==
  \A m \in 1 .. published :
    LET places == m_backlog \o pipe \o delivered
        n == Cardinality({i \in DOMAIN places : places[i] = m})
    IN  IF fate[m] = "none" THEN n = 1 ELSE n = 0

(* The flag is late and never wrong for good: what the monitor still has   *)
(* to tell ends with the state the link is in, or the flag shows it.       *)
FlagFollowsLink ==
  IF events = << >> THEN m_connected = linkUp
                    ELSE (Last(events) = "connected") = linkUp

(* The client sees messages out of order only where one that was put aside *)
(* is overtaken by one published while the new link was settling.          *)
OnlyAsideOvertaken ==
  \A i, j \in DOMAIN delivered :
    i < j /\ delivered[i] > delivered[j] =>
      delivered[j] \in aside /\ delivered[i] \notin aside

(* An outage longer than the backlog costs the oldest messages only: what  *)
(* is evicted is older than all that is kept, and as many newer ones as    *)
(* the backlog holds had been put aside.                                   *)
OldestGoFirst ==
  \A m \in 1 .. published : fate[m] = "evicted" =>
    /\ \A k \in ToSet(m_backlog) : m < k
    /\ Cardinality({k \in aside : k > m}) >= Cap

(* When the link stays up, what was put aside goes out.                    *)
BacklogGoesOut == <>[]linkUp => []<>(m_backlog = << >>)
=============================================================================

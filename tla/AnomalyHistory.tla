-------------------------- MODULE AnomalyHistory --------------------------
(***************************************************************************)
(* The history engine of tpproc (class HistoryEngine): the anomalies that  *)
(* are going on, in a list, and an index from sensor and axis into it.     *)
(* What it measures of an anomaly is left out but for the severity.        *)
(***************************************************************************)
EXTENDS Naturals, Sequences, FiniteSets

CONSTANTS
  Channels,   (* object, sensor and axis of a window                       *)
  Key(_),     (* makeKey: sensor and axis of a channel, without its object *)
  Severities

ASSUME SeveritiesAssumption == Severities \subseteq Nat

Keys == {Key(c) : c \in Channels}

(* What is used of a SAF record.                                           *)
SafRecord == [chan : Channels, t : Nat, anomaly : BOOLEAN, sev : Severities]

(* An anomaly as it is kept; a SHF record is one with its status.          *)
Anomaly == [id : Nat, chan : Channels, start : Nat, sev : Severities]

(* An engine: the list, a function from some of the keys to positions in   *)
(* it, and the number that is given next.                                  *)
NewEngine ==
  [m_activeEvents |-> << >>, m_activeIndex |-> [k \in {} |-> 0], m_nextShfId |-> 1]

Known(h, saf) == Key(saf.chan) \in DOMAIN h.m_activeIndex
Position(h, saf) == h.m_activeIndex[Key(saf.chan)]

(* The severity is left to the first update.                               *)
FaultyOpened(h, saf) ==
  [id |-> h.m_nextShfId, chan |-> saf.chan, start |-> saf.t, sev |-> 0]

Opened(h, saf) ==
  [id |-> h.m_nextShfId, chan |-> saf.chan, start |-> saf.t, sev |-> saf.sev]

(* An update is told by the object that opened the anomaly.                *)
Updated(h, saf) == [h.m_activeEvents[Position(h, saf)] EXCEPT !.sev = saf.sev]

(* The engine after an anomaly is opened.                                  *)
Open(h, saf) ==
  [m_activeEvents |-> Append(h.m_activeEvents, Opened(h, saf)),
   m_activeIndex  |-> [k \in DOMAIN h.m_activeIndex \union {Key(saf.chan)} |->
                         IF k = Key(saf.chan) THEN Len(h.m_activeEvents) + 1
                                              ELSE h.m_activeIndex[k]],
   m_nextShfId    |-> h.m_nextShfId + 1]

Update(h, saf) ==
  [m_activeEvents |-> [h.m_activeEvents EXCEPT ![Position(h, saf)] = Updated(h, saf)],
   m_activeIndex  |-> h.m_activeIndex,
   m_nextShfId    |-> h.m_nextShfId]

Without(events, p) ==
  [i \in 1 .. Len(events) - 1 |-> IF i < p THEN events[i] ELSE events[i + 1]]

(* The closed anomaly is dropped from the index and no other one moved.    *)
FaultyReindexed(h, events, k) ==
  [j \in DOMAIN h.m_activeIndex \ {k} |-> h.m_activeIndex[j]]

(* The index after an erase, built anew: one position for every key.       *)
Reindexed(h, events, k) ==
  [j \in {Key(events[i].chan) : i \in DOMAIN events} |->
     CHOOSE i \in DOMAIN events : Key(events[i].chan) = j]

(* The list is left as it was.                                             *)
FaultyClose(h, saf) == h

Close(h, saf) ==
  LET events == Without(h.m_activeEvents, Position(h, saf)) IN
  [m_activeEvents |-> events,
   m_activeIndex  |-> Reindexed(h, events, Key(saf.chan)),
   m_nextShfId    |-> h.m_nextShfId]

(* processSaf: the engine after a record, and the anomaly that is returned *)
(* when there is one.                                                      *)
ProcessSaf(h, saf) ==
  CASE saf.anomaly /\ ~Known(h, saf) -> Open(h, saf)
    [] saf.anomaly /\ Known(h, saf)  -> Update(h, saf)
    [] ~saf.anomaly /\ Known(h, saf) -> Close(h, saf)
    [] OTHER                         -> h

Returns(h, saf) == saf.anomaly \/ Known(h, saf)
Returned(h, saf) ==
  CASE saf.anomaly /\ ~Known(h, saf) -> Opened(h, saf)
    [] saf.anomaly /\ Known(h, saf)  -> Updated(h, saf)
    [] OTHER                         -> h.m_activeEvents[Position(h, saf)]

(* The numbers of the anomalies that are going on.                         *)
GoingOn(h) == {h.m_activeEvents[k].id : k \in DOMAIN h.m_activeEvents}

-----------------------------------------------------------------------------
HistoryTypeOK(h) ==
  /\ h.m_activeEvents \in Seq(Anomaly)
  /\ h.m_nextShfId \in Nat
  /\ DOMAIN h.m_activeIndex \subseteq Keys
  /\ h.m_activeIndex \in [DOMAIN h.m_activeIndex -> Nat]

(* The index leads from the sensor and axis of every anomaly to that       *)
(* anomaly and nowhere else, whatever closings have shifted the list; so   *)
(* a sensor and axis has at most one anomaly, and their numbers differ.    *)
Consistent(h) ==
  LET events == h.m_activeEvents IN
  /\ DOMAIN h.m_activeIndex = {Key(events[i].chan) : i \in DOMAIN events}
  /\ \A i \in DOMAIN events : h.m_activeIndex[Key(events[i].chan)] = i
  /\ \A i, j \in DOMAIN events : i # j => events[i].id # events[j].id
  /\ \A i \in DOMAIN events : events[i].id < h.m_nextShfId
=============================================================================

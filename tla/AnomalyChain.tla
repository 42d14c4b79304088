--------------------------- MODULE AnomalyChain ---------------------------
(***************************************************************************)
(* From a window of samples to an alert: tpproc judges the window of a     *)
(* channel and keeps the anomalies, tpmaster stores what tpproc and        *)
(* tpevent publish and hands it on, tpevent groups the anomalies of an     *)
(* object into events, tpalert alerts, an operator reviews anomalies.      *)
(*                                                                         *)
(* Several tpproc may run, each for channels of its own (--stations); each *)
(* numbers its anomalies from 1, and the table has one row for a number.   *)
(* Each process may restart: it forgets its state and what waits for it.   *)
(* tpmaster is folded into the publication (it stores before it forwards); *)
(* what tpproc publishes while tpmaster is away is lost.                   *)
(* Time passes in ticks; the clock gives anomalies their start times.      *)
(* Which tpproc has a channel, which programs run beside them, and which   *)
(* may restart or, as tpmaster, be away is fixed at the start: a scenario. *)
(***************************************************************************)
EXTENDS AnomalyHistory, SequencesExt, FiniteSetsExt

CONSTANTS
  Procs,         (* the instances of tpproc                                *)
  Objects,
  ObjectOf(_),   (* the object of a channel                                *)
  CalibWindows,  (* m_calibWindows                                         *)
  Quiet,         (* event.quietSec, in ticks                               *)
  Cooldown,      (* alert.cooldownSec, in ticks                            *)
  MinSeverity,   (* alert.minSeverity                                      *)
  MaxClock,      (* bound of the time in which windows come                *)
  MaxWindows,    (* bound of the windows                                   *)
  MaxQueue,      (* bound of the messages waiting for a process            *)
  MaxRestarts,
  MaxLosses,     (* bound of the publications lost or not written          *)
  Scenarios      (* the tpproc of a channel, the programs that run, and    *)
                 (* those that fail                                        *)

ASSUME ChainAssumption ==
  /\ IsFiniteSet(Objects) /\ \A c \in Channels : ObjectOf(c) \in Objects
  /\ CalibWindows \in Nat \ {0} /\ Quiet \in Nat /\ Cooldown \in Nat
  /\ MinSeverity \in Nat \ {0} /\ MaxClock \in Nat \ {0} /\ MaxWindows \in Nat
  /\ MaxQueue \in Nat \ {0} /\ MaxRestarts \in Nat /\ MaxLosses \in Nat
  /\ \A s \in Scenarios : s.proc \in [Channels -> Procs]

Times == 1 .. MaxClock
Ids == 1 .. MaxWindows
None == [none |-> TRUE]

VARIABLES
  scenario,    (* [proc : a tpproc for each channel, run : set of programs,*)
               (*  fail : set of programs]                                 *)
  clock,
  flushed,     (* channels that have had a window in this tick             *)
  windows,     (* windows so far                                           *)
  engine,      (* the history engine of each tpproc                        *)
  calibrated,  (* windows a channel has been learnt from                   *)
  rows,        (* the events table: anomaly number -> status and review,   *)
               (* and (history) the tpproc and the run that wrote the row  *)
  unstored,    (* history: the <<tpproc, number>> of anomalies whose last  *)
               (* publication is not in the table                          *)
  toEvent,     (* SHF messages for tpevent                                 *)
  open,        (* m_open of tpevent: an event of every object, or None     *)
  quiet,       (* ticks since tLast of the open event of an object         *)
  eventRows,   (* the anomaly_events table                                 *)
  toAlert,     (* event messages for tpalert                               *)
  alerted,     (* m_alertedSeverity, 0 when there is no entry              *)
  cool,        (* ticks since m_lastAlert of an object                     *)
  answered,    (* history: highest severity of an object's event that was  *)
               (* alerted, or swallowed by the cooldown or a restart       *)
  shared,      (* history: event numbers that two events have had          *)
  procRun, eventRun,   (* history: restarts of each tpproc and of tpevent  *)
  restarts, losses

time == <<clock, flushed, windows>>
proc == <<engine, calibrated, procRun>>
event == <<open, quiet, eventRun>>
alert == <<alerted, cool, answered>>
store == <<rows, unstored, losses>>
vars == <<scenario, time, proc, store, toEvent, event, eventRows, toAlert, alert,
          shared, restarts>>

ChainInit ==
  /\ engine = [p \in Procs |-> NewEngine]
  /\ scenario \in Scenarios
  /\ clock = 1 /\ flushed = {} /\ windows = 0
  /\ calibrated = [c \in Channels |-> 0]
  /\ rows = [i \in Ids |-> None] /\ unstored = {} /\ losses = 0 /\ toEvent = << >>
  /\ open = [o \in Objects |-> None] /\ quiet = [o \in Objects |-> 0]
  /\ eventRows = [n \in Times |-> None] /\ toAlert = << >>
  /\ alerted = [n \in Times |-> 0] /\ cool = [o \in Objects |-> Cooldown]
  /\ answered = [o \in Objects |-> [n \in Times |-> 0]]
  /\ shared = {} /\ procRun = [p \in Procs |-> 0] /\ eventRun = 0 /\ restarts = 0

Larger(a, b) == Max({a, b})

-----------------------------------------------------------------------------
(* tpproc.                                                                 *)

(* writeShf: the whole row is replaced, its review with it, whichever      *)
(* tpproc has written it.                                                  *)
WriteShf(p, shf) ==
  /\ rows' = [rows EXCEPT ![shf.id] =
                [status |-> shf.status, review |-> FALSE, proc |-> p, run |-> procRun[p]]]
  /\ unstored' = unstored \ {<<p, shf.id>>}

Forward(shf) ==
  toEvent' = IF "tpevent" \in scenario.run THEN Append(toEvent, shf) ELSE toEvent

(* The message is stored and handed on; or the write fails, which is not   *)
(* looked at; or tpmaster is away, and tpproc keeps nothing for later.     *)
Publish(p, shf) ==
  \/ WriteShf(p, shf) /\ Forward(shf) /\ UNCHANGED losses
  \/ /\ "tpmaster" \in scenario.fail
     /\ losses < MaxLosses /\ losses' = losses + 1
     /\ unstored' = unstored \union {<<p, shf.id>>}
     /\ Forward(shf) \/ UNCHANGED toEvent
     /\ UNCHANGED rows

(* The gate of flushWindow.  sev = 0 stands for a window without anomaly   *)
(* or one that the STA/LTA trigger does not confirm.                       *)
Judged(c, sev) == sev > 0 /\ calibrated[c] = CalibWindows

(* The returned record is read after the erase: it is another anomaly.     *)
FaultyPublished(h, saf) ==
  LET p == Position(h, saf)
      rest == Without(h.m_activeEvents, p)
  IN  IF ~saf.anomaly /\ p <= Len(rest) THEN rest[p] ELSE Returned(h, saf)

Published(h, saf) == Returned(h, saf)

(* flushWindow, for one axis.                                              *)
FlushWindow(c) ==
  /\ c \notin flushed /\ flushed' = flushed \union {c}
  /\ windows < MaxWindows /\ windows' = windows + 1
  /\ clock < MaxClock /\ Len(toEvent) < MaxQueue
  /\ \E sev \in Severities \union {0} :
       LET p   == scenario.proc[c]
           saf == [chan |-> c, t |-> clock, sev |-> sev, anomaly |-> Judged(c, sev)]
           ev  == Published(engine[p], saf)
           shf == [obj |-> ObjectOf(ev.chan), id |-> ev.id, start |-> ev.start,
                   sev |-> ev.sev,
                   status |-> IF saf.anomaly THEN "ACTIVE" ELSE "RESOLVED"]
       IN  /\ engine' = [engine EXCEPT ![p] = ProcessSaf(engine[p], saf)]
           /\ IF Returns(engine[p], saf)
              THEN Publish(p, shf)
              ELSE UNCHANGED <<store, toEvent>>
  /\ calibrated' = [calibrated EXCEPT ![c] =
                      IF @ < CalibWindows THEN @ + 1 ELSE @]
  /\ UNCHANGED <<scenario, clock, procRun, event, eventRows, toAlert, alert, shared, restarts>>

RestartProc(p) ==
  /\ "tpproc" \in scenario.fail
  /\ restarts < MaxRestarts /\ restarts' = restarts + 1
  /\ procRun' = [procRun EXCEPT ![p] = @ + 1]
  /\ engine' = [engine EXCEPT ![p] = NewEngine]
  /\ calibrated' = [c \in Channels |-> IF scenario.proc[c] = p THEN 0 ELSE calibrated[c]]
  /\ unstored' = {u \in unstored : u[1] # p}
  /\ UNCHANGED <<scenario, time, rows, losses, toEvent, event, eventRows, toAlert, alert,
                 shared>>

(* writeJournal: an operator confirms or rejects an anomaly.               *)
WriteJournal(i) ==
  /\ "tpjournal" \in scenario.run
  /\ rows[i] # None
  /\ rows' = [rows EXCEPT ![i].review = TRUE]
  /\ UNCHANGED <<scenario, time, proc, unstored, losses, toEvent, event, eventRows,
                 toAlert, alert, shared, restarts>>

-----------------------------------------------------------------------------
(* tpevent.                                                                *)

(* What publishEvent tells, and what writeEvent stores of it.              *)
EventOf(o, e, status) == [obj |-> o, id |-> e.id, sev |-> e.sev, status |-> status]

Stored(table, e, status) ==
  [table EXCEPT ![e.id] = [status |-> status, sev |-> e.sev, run |-> eventRun]]

(* Another start time moves the event to another number.                   *)
FaultyGrouped(e, shf) ==
  [id |-> shf.start, sev |-> IF e = None THEN shf.sev ELSE Larger(e.sev, shf.sev)]

(* The open event of an object absorbs the anomaly, or one is opened under *)
(* the start time of the anomaly, whatever the status of that.             *)
Grouped(e, shf) ==
  IF e = None THEN [id |-> shf.start, sev |-> shf.sev]
              ELSE [e EXCEPT !.sev = Larger(e.sev, shf.sev)]

HandleShf ==
  /\ toEvent # << >> /\ Len(toAlert) < MaxQueue
  /\ LET shf == Head(toEvent)
         o   == shf.obj
         e   == Grouped(open[o], shf)
     IN  /\ open' = [open EXCEPT ![o] = e]
         /\ quiet' = [quiet EXCEPT ![o] = 0]
         /\ eventRows' = Stored(eventRows, e, "ACTIVE")
         /\ toAlert' = Append(toAlert, EventOf(o, e, "ACTIVE"))
         /\ shared' = IF open[o] = None /\ eventRows[e.id] # None
                      THEN shared \union {e.id} ELSE shared
  /\ toEvent' = Tail(toEvent)
  /\ UNCHANGED <<scenario, time, proc, store, eventRun, alert, restarts>>

(* The sweep hangs on the arrival of messages instead of the timer.        *)
FaultyDue(o) == open[o] # None /\ quiet[o] > Quiet /\ toEvent # << >>

Due(o) == open[o] # None /\ quiet[o] > Quiet

(* What writeEvent leaves of a number when events are written one after    *)
(* the other: the last of them.                                            *)
StoredInTurn(table, order) ==
  [n \in Times |->
     LET these == {i \in DOMAIN order : open[order[i]].id = n} IN
     IF these = {} THEN table[n]
     ELSE Stored(table, open[order[Max(these)]], "RESOLVED")[n]]

(* sweep closes every event that has been quiet for long enough, in the    *)
(* order in which the hash table gives them.                               *)
Sweep ==
  LET due == {o \in Objects : Due(o)} IN
  /\ due # {} /\ Len(toAlert) < MaxQueue
  /\ \E order \in SetToSeqs(due) :
       /\ eventRows' = StoredInTurn(eventRows, order)
       /\ toAlert' = toAlert \o
            [i \in DOMAIN order |-> EventOf(order[i], open[order[i]], "RESOLVED")]
  /\ open' = [o \in Objects |-> IF o \in due THEN None ELSE open[o]]
  /\ quiet' = [o \in Objects |-> IF o \in due THEN 0 ELSE quiet[o]]
  /\ UNCHANGED <<scenario, time, proc, store, toEvent, eventRun, alert, shared, restarts>>

RestartEvent ==
  /\ "tpevent" \in scenario.fail
  /\ restarts < MaxRestarts /\ restarts' = restarts + 1
  /\ eventRun' = eventRun + 1
  /\ open' = [o \in Objects |-> None]
  /\ quiet' = [o \in Objects |-> 0]
  /\ toEvent' = << >>
  /\ UNCHANGED <<scenario, time, proc, store, eventRows, toAlert, alert, shared>>

-----------------------------------------------------------------------------
(* tpalert.                                                                *)

(* An escalation is taken for a repetition.                                *)
FaultyCovered(m) == alerted[m.id] > 0

(* Alert once per event, and again only if it escalates.                   *)
Covered(m) == alerted[m.id] >= m.sev

HandleEvent ==
  /\ toAlert # << >>
  /\ toAlert' = Tail(toAlert)
  /\ LET m == Head(toAlert) IN
       IF m.sev < MinSeverity \/ m.status = "RESOLVED" \/ Covered(m)
       THEN UNCHANGED alert
       ELSE /\ answered' = [answered EXCEPT ![m.obj][m.id] = Larger(@, m.sev)]
            /\ IF cool[m.obj] < Cooldown
               THEN UNCHANGED <<alerted, cool>>
               ELSE /\ alerted' = [alerted EXCEPT ![m.id] = m.sev]
                    /\ cool' = [cool EXCEPT ![m.obj] = 0]
  /\ UNCHANGED <<scenario, time, proc, store, toEvent, event, eventRows, shared, restarts>>

RestartAlert ==
  /\ "tpalert" \in scenario.fail
  /\ restarts < MaxRestarts /\ restarts' = restarts + 1
  /\ alerted' = [n \in Times |-> 0]
  /\ cool' = [o \in Objects |-> Cooldown]
  /\ answered' = [o \in Objects |-> [n \in Times |->
       LET lost == {m \in ToSet(toAlert) : m.obj = o /\ m.id = n}
       IN  Max({answered[o][n]} \union {m.sev : m \in lost})]]
  /\ toAlert' = << >>
  /\ UNCHANGED <<scenario, time, proc, store, toEvent, event, eventRows, shared>>

(* Time passes; windows come only up to MaxClock.                          *)
Tick ==
  /\ clock' = IF clock < MaxClock THEN clock + 1 ELSE clock
  /\ flushed' = {}
  /\ quiet' = [o \in Objects |-> IF open[o] # None /\ quiet[o] <= Quiet
                                 THEN quiet[o] + 1 ELSE quiet[o]]
  /\ cool' = [o \in Objects |-> IF cool[o] < Cooldown THEN cool[o] + 1 ELSE cool[o]]
  /\ UNCHANGED <<scenario, windows, proc, store, toEvent, open, eventRun, eventRows, toAlert,
                 alerted, answered, shared, restarts>>

ChainNext ==
  \/ \E c \in Channels : FlushWindow(c)
  \/ \E i \in Ids : WriteJournal(i)
  \/ HandleShf \/ Sweep \/ HandleEvent \/ Tick
  \/ \E p \in Procs : RestartProc(p)
  \/ RestartEvent \/ RestartAlert

(* The event loops take their messages, the sweep timer runs, time passes. *)
Fairness ==
  WF_vars(HandleShf) /\ WF_vars(Sweep) /\ WF_vars(HandleEvent) /\ WF_vars(Tick)

Spec == ChainInit /\ [][ChainNext]_vars /\ Fairness

-----------------------------------------------------------------------------
Row == [status : {"ACTIVE", "RESOLVED"}, review : BOOLEAN, proc : Procs,
        run : 0 .. MaxRestarts]
EventRow == [status : {"ACTIVE", "RESOLVED"}, sev : Severities, run : 0 .. MaxRestarts]
Event == [id : Times, sev : Severities]

TypeOK ==
  /\ \A p \in Procs : HistoryTypeOK(engine[p])
  /\ clock \in Times /\ flushed \subseteq Channels /\ windows \in 0 .. MaxWindows
  /\ calibrated \in [Channels -> 0 .. CalibWindows]
  /\ rows \in [Ids -> Row \union {None}]
  /\ unstored \subseteq Procs \X Nat /\ losses \in 0 .. MaxLosses
  /\ open \in [Objects -> Event \union {None}]
  /\ quiet \in [Objects -> 0 .. Quiet + 1]
  /\ eventRows \in [Times -> EventRow \union {None}]
  /\ Len(toEvent) <= MaxQueue /\ Len(toAlert) < MaxQueue + Cardinality(Objects)
  /\ alerted \in [Times -> Severities \union {0}]
  /\ cool \in [Objects -> 0 .. Cooldown]
  /\ shared \subseteq Times /\ restarts \in 0 .. MaxRestarts

(* The index of every engine leads to the anomaly of its sensor and axis.  *)
IndexConsistent == \A p \in Procs : Consistent(engine[p])

(* The anomalies table tells what the engine of the tpproc that wrote the  *)
(* row last holds: a RESOLVED row is of an anomaly that is over, and an    *)
(* ACTIVE row of one that is going on, unless the last publication about   *)
(* it was lost or could not be written.  What another tpproc with the same *)
(* number wrote before is gone, and rows from before a restart stay.       *)
RowsFollowEngine ==
  \A i \in Ids :
    LET row == rows[i] IN
    row # None /\ row.run = procRun[row.proc] =>
      IF row.status = "ACTIVE"
      THEN i \in GoingOn(engine[row.proc]) \/ <<row.proc, i>> \in unstored
      ELSE i \notin GoingOn(engine[row.proc])

(* An operator's review of an anomaly that is over stands until another    *)
(* tpproc, or this one after a restart, writes its number for an anomaly   *)
(* of its own.                                                             *)
ReviewStands ==
  [][\A i \in Ids :
       LET row == rows[i] IN
       row # None /\ row.status = "RESOLVED" /\ row.run = procRun[row.proc]
         => \/ rows'[i].proc # row.proc
            \/ rows'[i].status = "RESOLVED" /\ (row.review => rows'[i].review)]_vars

(* The events table tells what tpevent holds, except for events that share *)
(* a number and those a restart of tpevent left behind.                    *)
EventRowsFollow ==
  \A n \in Times \ shared : eventRows[n] # None /\ eventRows[n].run = eventRun =>
    IF eventRows[n].status = "ACTIVE"
    THEN \E o \in Objects : open[o] = [id |-> n, sev |-> eventRows[n].sev]
    ELSE \A o \in Objects : open[o] # None => open[o].id # n

(* Every open event that is severe enough has been alerted at its severity *)
(* when tpalert has read what there is, except when the cooldown or a      *)
(* restart swallowed it or another event has the same number.              *)
AlertedOrExcused ==
  \A o \in Objects :
    LET e == open[o] IN
    e # None =>
      \/ e.sev < MinSeverity
      \/ \E k \in DOMAIN toAlert : toAlert[k] = EventOf(o, e, "ACTIVE")
      \/ e.id \in shared
      \/ answered[o][e.id] >= e.sev

(* When the windows stop, every event closes.                              *)
EventsClose == <>[](\A o \in Objects : open[o] = None)
=============================================================================

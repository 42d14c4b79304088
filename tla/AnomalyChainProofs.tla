------------------------- MODULE AnomalyChainProofs -------------------------
(***************************************************************************)
(* The index of the history engine leads to its anomaly after any sequence *)
(* of results, for every set of channels and every key; over windows and   *)
(* restarts of the chain it still does, the anomalies table follows it and *)
(* reviews of anomalies that are over stand; the events table follows      *)
(* tpevent, and what is severe enough is alerted, whatever order messages, *)
(* ticks, sweeps and restarts of the three programs come in.               *)
(***************************************************************************)
EXTENDS AnomalyChain, Facts

-----------------------------------------------------------------------------
(* The history engine.                                                     *)
HistoryInv(h) == HistoryTypeOK(h) /\ Consistent(h)

(* The four branches of processSaf, from an engine h to an engine g.       *)
Opens(h, g, saf)   == saf.anomaly /\ ~Known(h, saf) /\ g = Open(h, saf)
Updates(h, g, saf) == saf.anomaly /\ Known(h, saf) /\ g = Update(h, saf)
Closes(h, g, saf)  == ~saf.anomaly /\ Known(h, saf) /\ g = Close(h, saf)
Leaves(h, g, saf)  == ~saf.anomaly /\ ~Known(h, saf) /\ g = h

(* What the list is after an erase at p.                                   *)
LEMMA WithoutType ==
  ASSUME NEW S, NEW events \in Seq(S), NEW p \in 1 .. Len(events)
  PROVE  /\ Without(events, p) \in Seq(S)
         /\ Len(Without(events, p)) = Len(events) - 1
         /\ \A i \in 1 .. Len(events) - 1 :
              Without(events, p)[i] = IF i < p THEN events[i] ELSE events[i + 1]
<1>1. Len(events) - 1 \in Nat
  OBVIOUS
<1>2. \A i \in 1 .. Len(events) - 1 : events[i] \in S /\ events[i + 1] \in S
  OBVIOUS
<1> QED
  BY <1>1, <1>2 DEF Without

(* The anomaly of a known key, in a consistent index.                      *)
LEMMA PositionRight ==
  ASSUME NEW h, HistoryInv(h), NEW saf, Known(h, saf)
  PROVE  /\ Position(h, saf) \in 1 .. Len(h.m_activeEvents)
         /\ Key(h.m_activeEvents[Position(h, saf)].chan) = Key(saf.chan)
<1>1. PICK i \in DOMAIN h.m_activeEvents : Key(saf.chan) = Key(h.m_activeEvents[i].chan)
  BY DEF HistoryInv, Consistent, Known
<1>2. h.m_activeIndex[Key(h.m_activeEvents[i].chan)] = i
  BY DEF HistoryInv, Consistent
<1> QED
  BY <1>1, <1>2 DEF HistoryInv, HistoryTypeOK, Position

(* What a consistent history says of one entry of the list.                *)
LEMMA Entry ==
  ASSUME NEW h, HistoryInv(h), NEW i \in 1 .. Len(h.m_activeEvents)
  PROVE  /\ h.m_activeEvents[i] \in Anomaly
         /\ h.m_activeEvents[i].id \in Nat /\ h.m_activeEvents[i].id < h.m_nextShfId
         /\ h.m_activeIndex[Key(h.m_activeEvents[i].chan)] = i
         /\ Key(h.m_activeEvents[i].chan) \in DOMAIN h.m_activeIndex
<1>1. h.m_activeEvents \in Seq(Anomaly) /\ i \in DOMAIN h.m_activeEvents
  BY DEF HistoryInv, HistoryTypeOK
<1>2. h.m_activeEvents[i] \in Anomaly
  BY <1>1
<1>3. h.m_activeEvents[i].id \in Nat
  BY <1>2 DEF Anomaly
<1> QED
  BY <1>1, <1>2, <1>3 DEF HistoryInv, Consistent

(* A new anomaly is entered at the end of the list.                        *)
LEMMA OpenKeeps ==
  ASSUME NEW h, NEW g, HistoryInv(h), NEW saf \in SafRecord, Opens(h, g, saf)
  PROVE  HistoryInv(g)
<1> DEFINE n == Len(h.m_activeEvents)
<1>1. Opened(h, saf) \in Anomaly /\ Opened(h, saf).chan = saf.chan /\ Opened(h, saf).id = h.m_nextShfId
  BY DEF Opened, Anomaly, SafRecord, HistoryInv, HistoryTypeOK
<1>2. /\ g.m_activeEvents \in Seq(Anomaly) /\ Len(g.m_activeEvents) = n + 1
      /\ n \in Nat
      /\ \A i \in 1 .. n : g.m_activeEvents[i] = h.m_activeEvents[i]
      /\ g.m_activeEvents[n + 1] = Opened(h, saf)
  BY <1>1 DEF Opens, Open, HistoryInv, HistoryTypeOK
<1>3. \A i \in 1 .. n : Key(h.m_activeEvents[i].chan) # Key(saf.chan)
  BY DEF Opens, Open, Known, HistoryInv, Consistent, HistoryTypeOK
<1>4. HistoryTypeOK(g)
  <2>1. Key(saf.chan) \in Keys
    BY DEF SafRecord, Keys
  <2>2. g.m_nextShfId \in Nat
    BY DEF Opens, Open, HistoryInv, HistoryTypeOK
  <2> QED
    BY <1>2, <2>1, <2>2 DEF Opens, Open, HistoryInv, HistoryTypeOK
<1>5. DOMAIN g.m_activeIndex = {Key(g.m_activeEvents[i].chan) : i \in DOMAIN g.m_activeEvents}
  <2>1. DOMAIN g.m_activeIndex = DOMAIN h.m_activeIndex \union {Key(saf.chan)}
    BY DEF Opens, Open
  <2>2. DOMAIN h.m_activeIndex = {Key(h.m_activeEvents[i].chan) : i \in 1 .. n}
    BY DEF HistoryInv, Consistent, HistoryTypeOK
  <2>3. DOMAIN g.m_activeEvents = 1 .. n \union {n + 1}
    BY <1>2
  <2> QED
    BY <1>1, <1>2, <2>1, <2>2, <2>3
<1>6. \A i \in DOMAIN g.m_activeEvents : g.m_activeIndex[Key(g.m_activeEvents[i].chan)] = i
  <2>2. ASSUME NEW i \in 1 .. n
        PROVE  g.m_activeIndex[Key(g.m_activeEvents[i].chan)] = i
    <3>1. /\ h.m_activeIndex[Key(h.m_activeEvents[i].chan)] = i
          /\ Key(h.m_activeEvents[i].chan) \in DOMAIN h.m_activeIndex
      BY DEF HistoryInv, Consistent, HistoryTypeOK
    <3> QED
      BY <1>2, <1>3, <3>1 DEF Opens, Open
  <2>3. g.m_activeIndex[Key(g.m_activeEvents[n + 1].chan)] = n + 1
    BY <1>1, <1>2 DEF Opens, Open
  <2> QED
    BY <1>2, <2>2, <2>3
<1>7. \A i \in DOMAIN g.m_activeEvents : g.m_activeEvents[i].id < g.m_nextShfId
  <2>1. h.m_nextShfId \in Nat /\ g.m_nextShfId = h.m_nextShfId + 1
    BY DEF Opens, Open, HistoryInv, HistoryTypeOK
  <2>2. \A i \in 1 .. n : g.m_activeEvents[i].id \in Nat /\ g.m_activeEvents[i].id < h.m_nextShfId
    BY <1>2, Entry
  <2> QED
    BY <1>1, <1>2, <2>1, <2>2
<1>8. \A i, j \in DOMAIN g.m_activeEvents :
        i # j => g.m_activeEvents[i].id # g.m_activeEvents[j].id
  <2>1. \A i \in 1 .. n : h.m_activeEvents[i].id < h.m_nextShfId /\ h.m_activeEvents[i].id \in Nat
    BY Entry
  <2>2. \A i, j \in 1 .. n : i # j => h.m_activeEvents[i].id # h.m_activeEvents[j].id
    BY DEF HistoryInv, Consistent, HistoryTypeOK
  <2>3. \A i \in 1 .. n : g.m_activeEvents[i].id = h.m_activeEvents[i].id
    BY <1>2
  <2>4. g.m_activeEvents[n + 1].id = h.m_nextShfId /\ DOMAIN g.m_activeEvents = 1 .. n + 1
    BY <1>1, <1>2
  <2>5. \A i \in 1 .. n + 1 : i \in 1 .. n \/ i = n + 1
    BY <1>2
  <2>6. \A i \in 1 .. n : g.m_activeEvents[i].id # g.m_activeEvents[n + 1].id
    BY <2>1, <2>3, <2>4
  <2> HIDE DEF n
  <2> QED
    BY <2>2, <2>3, <2>4, <2>5, <2>6
<1> QED
  BY <1>4, <1>5, <1>6, <1>7, <1>8 DEF HistoryInv, Consistent

(* An update leaves every anomaly where it is.                             *)
LEMMA UpdateKeeps ==
  ASSUME NEW h, NEW g, HistoryInv(h), NEW saf \in SafRecord, Updates(h, g, saf)
  PROVE  HistoryInv(g)
<1> DEFINE p == Position(h, saf)
<1>1. p \in 1 .. Len(h.m_activeEvents)
  BY PositionRight DEF Updates, Update
<1>2. h.m_activeEvents[p] \in Anomaly
  BY <1>1 DEF HistoryInv, HistoryTypeOK
<1>3. /\ Updated(h, saf) \in Anomaly /\ Updated(h, saf).chan = h.m_activeEvents[p].chan
      /\ Updated(h, saf).id = h.m_activeEvents[p].id
  BY <1>2 DEF Updated, Anomaly, SafRecord
<1>4. /\ g.m_activeEvents \in Seq(Anomaly) /\ DOMAIN g.m_activeEvents = DOMAIN h.m_activeEvents
      /\ \A i \in DOMAIN h.m_activeEvents :
           /\ g.m_activeEvents[i].chan = h.m_activeEvents[i].chan
           /\ g.m_activeEvents[i].id = h.m_activeEvents[i].id
  BY <1>1, <1>3 DEF Updates, Update, HistoryInv, HistoryTypeOK
<1>5. g.m_activeIndex = h.m_activeIndex /\ g.m_nextShfId = h.m_nextShfId
  BY DEF Updates, Update
<1>6. HistoryTypeOK(g)
  BY <1>4, <1>5 DEF HistoryInv, HistoryTypeOK
<1> QED
  BY <1>4, <1>5, <1>6 DEF HistoryInv, Consistent

(* A list with one anomaly for a sensor and axis, and an index into it.    *)
OneEach(events) ==
  \A i, j \in DOMAIN events : i # j => Key(events[i].chan) # Key(events[j].chan)

Leads(index, events) ==
  /\ index = [j \in DOMAIN index |-> index[j]]
  /\ DOMAIN index = {Key(events[i].chan) : i \in DOMAIN events}
  /\ \A i \in DOMAIN events : index[Key(events[i].chan)] = i

(* An index built anew leads from every key to its one entry.              *)
LEMMA ReindexedRight ==
  ASSUME NEW h, NEW events, NEW key, OneEach(events)
  PROVE  Leads(Reindexed(h, events, key), events)
<1> DEFINE index == Reindexed(h, events, key)
<1>0. \A i, j \in DOMAIN events : i # j => Key(events[i].chan) # Key(events[j].chan)
  BY DEF OneEach
<1>1. /\ index = [j \in DOMAIN index |-> index[j]]
      /\ DOMAIN index = {Key(events[i].chan) : i \in DOMAIN events}
  BY DEF Reindexed
<1>2. ASSUME NEW i \in DOMAIN events
      PROVE  index[Key(events[i].chan)] = i
  <2> DEFINE k == Key(events[i].chan)
  <2>1. index[k] = CHOOSE j \in DOMAIN events : Key(events[j].chan) = k
    BY DEF Reindexed
  <2>2. \A j \in DOMAIN events : Key(events[j].chan) = k => j = i
    BY <1>0
  <2> HIDE DEF k
  <2>3. Key(events[i].chan) = k
    BY DEF k
  <2>4. (CHOOSE j \in DOMAIN events : Key(events[j].chan) = k) = i
    BY <2>2, <2>3
  <2> QED
    BY <2>1, <2>4 DEF k
<1> QED
  BY <1>1, <1>2 DEF Leads

(* After an erase the rebuilt index leads to what is left.                 *)
LEMMA CloseKeeps ==
  ASSUME NEW h, NEW g, HistoryInv(h), NEW saf, Closes(h, g, saf)
  PROVE  HistoryInv(g)
<1> DEFINE p    == Position(h, saf)
           n    == Len(h.m_activeEvents)
           old(i) == IF i < p THEN i ELSE i + 1
<1>1. h.m_activeEvents \in Seq(Anomaly) /\ n \in Nat /\ p \in 1 .. n
  BY PositionRight DEF Closes, Close, HistoryInv, HistoryTypeOK
<1>2. /\ g.m_activeEvents \in Seq(Anomaly)
      /\ Len(g.m_activeEvents) = n - 1
      /\ \A i \in 1 .. n - 1 : g.m_activeEvents[i] = h.m_activeEvents[old(i)]
  BY <1>1, WithoutType DEF Closes, Close
<1>3. DOMAIN g.m_activeEvents = 1 .. n - 1
  BY <1>1, <1>2
<1>4. \A i \in 1 .. n - 1 : old(i) \in 1 .. n
  BY <1>1
<1>5. \A i, j \in 1 .. n - 1 : i # j => old(i) # old(j)
  BY <1>1
<1>6. \A i, j \in 1 .. n :
        i # j => /\ Key(h.m_activeEvents[i].chan) # Key(h.m_activeEvents[j].chan)
                 /\ h.m_activeEvents[i].id # h.m_activeEvents[j].id
  BY <1>1, Entry DEF HistoryInv, Consistent
<1>7. g.m_nextShfId = h.m_nextShfId
  BY DEF Closes, Close
<1>8. g.m_activeIndex = Reindexed(h, g.m_activeEvents, Key(saf.chan))
  <2>1. g = [m_activeEvents |-> Without(h.m_activeEvents, p),
             m_activeIndex  |-> Reindexed(h, Without(h.m_activeEvents, p), Key(saf.chan)),
             m_nextShfId    |-> h.m_nextShfId]
    BY DEF Closes, Close
  <2> DEFINE left == Without(h.m_activeEvents, p)
             index == Reindexed(h, left, Key(saf.chan))
  <2>2. g = [m_activeEvents |-> left, m_activeIndex |-> index, m_nextShfId |-> h.m_nextShfId]
    BY <2>1
  <2> HIDE DEF left, index
  <2>3. g.m_activeEvents = left /\ g.m_activeIndex = index
    BY <2>2
  <2> QED
    BY <2>3 DEF index
<1>9. /\ g.m_activeIndex = [j \in DOMAIN g.m_activeIndex |-> g.m_activeIndex[j]]
      /\ DOMAIN g.m_activeIndex = {Key(g.m_activeEvents[i].chan) : i \in DOMAIN g.m_activeEvents}
      /\ \A i \in DOMAIN g.m_activeEvents : g.m_activeIndex[Key(g.m_activeEvents[i].chan)] = i
  <2>1. ASSUME NEW i \in 1 .. n - 1, NEW j \in 1 .. n - 1, i # j
        PROVE  Key(g.m_activeEvents[i].chan) # Key(g.m_activeEvents[j].chan)
    <3>1. old(i) \in 1 .. n /\ old(j) \in 1 .. n /\ old(i) # old(j)
      BY <1>4, <1>5, <2>1
    <3>2. /\ g.m_activeEvents[i] = h.m_activeEvents[old(i)]
          /\ g.m_activeEvents[j] = h.m_activeEvents[old(j)]
      BY <1>2
    <3> HIDE DEF old
    <3> QED
      BY <1>6, <3>1, <3>2
  <2>2. \A i, j \in DOMAIN g.m_activeEvents :
          i # j => Key(g.m_activeEvents[i].chan) # Key(g.m_activeEvents[j].chan)
    BY <1>3, <2>1
  <2>3. OneEach(g.m_activeEvents)
    BY <2>2 DEF OneEach
  <2>4. Leads(g.m_activeIndex, g.m_activeEvents)
    BY <1>8, <2>3, ReindexedRight
  <2> QED
    BY <2>4 DEF Leads
<1>10. \A i, j \in DOMAIN g.m_activeEvents :
         i # j => g.m_activeEvents[i].id # g.m_activeEvents[j].id
  <2>1. ASSUME NEW i \in 1 .. n - 1, NEW j \in 1 .. n - 1, i # j
        PROVE  g.m_activeEvents[i].id # g.m_activeEvents[j].id
    <3>1. old(i) \in 1 .. n /\ old(j) \in 1 .. n /\ old(i) # old(j)
      BY <1>4, <1>5, <2>1
    <3>2. /\ g.m_activeEvents[i] = h.m_activeEvents[old(i)]
          /\ g.m_activeEvents[j] = h.m_activeEvents[old(j)]
      BY <1>2
    <3> HIDE DEF old
    <3> QED
      BY <1>6, <3>1, <3>2
  <2> QED
    BY <1>3, <2>1
<1>11. \A i \in DOMAIN g.m_activeEvents : g.m_activeEvents[i].id < g.m_nextShfId
  BY <1>2, <1>3, <1>4, <1>7, Entry
<1>12. HistoryTypeOK(g)
  <2>1. g.m_nextShfId \in Nat
    BY <1>7 DEF HistoryInv, HistoryTypeOK
  <2>2. \A i \in DOMAIN g.m_activeEvents : g.m_activeEvents[i].chan \in Channels
    <3>1. \A e \in Anomaly : e.chan \in Channels
      BY DEF Anomaly
    <3>2. \A i \in DOMAIN g.m_activeEvents : g.m_activeEvents[i] \in Anomaly
      BY <1>2
    <3> QED
      BY <3>1, <3>2
  <2>3. DOMAIN g.m_activeIndex \subseteq Keys
    BY <1>9, <2>2 DEF Keys
  <2>4. \A k \in DOMAIN g.m_activeIndex : g.m_activeIndex[k] \in Nat
    BY <1>1, <1>3, <1>9
  <2>5. g.m_activeIndex \in [DOMAIN g.m_activeIndex -> Nat]
    BY <1>9, <2>4
  <2> QED
    BY <1>2, <2>1, <2>3, <2>5 DEF HistoryTypeOK
<1> QED
  BY <1>9, <1>10, <1>11, <1>12 DEF HistoryInv, Consistent

(* A new engine.                                                           *)
LEMMA NewConsistent == HistoryInv(NewEngine)
<1>1. /\ NewEngine.m_activeEvents \in Seq(Anomaly)
      /\ DOMAIN NewEngine.m_activeEvents = {}
  BY DEF NewEngine
<1>2. /\ DOMAIN NewEngine.m_activeIndex = {}
      /\ NewEngine.m_activeIndex \in [{} -> Nat]
  BY DEF NewEngine
<1>3. NewEngine.m_nextShfId \in Nat
  BY DEF NewEngine
<1> QED
  BY <1>1, <1>2, <1>3 DEF HistoryInv, HistoryTypeOK, Consistent

(* processSaf takes one of its branches.                                   *)
LEMMA FourBranches ==
  ASSUME NEW h, NEW g, NEW saf, g = ProcessSaf(h, saf)
  PROVE  Opens(h, g, saf) \/ Updates(h, g, saf) \/ Closes(h, g, saf) \/ Leaves(h, g, saf)
<1>1. CASE saf.anomaly /\ ~Known(h, saf)
  BY <1>1 DEF ProcessSaf, Opens
<1>2. CASE saf.anomaly /\ Known(h, saf)
  BY <1>2 DEF ProcessSaf, Updates
<1>3. CASE ~saf.anomaly /\ Known(h, saf)
  BY <1>3 DEF ProcessSaf, Closes
<1>4. CASE ~saf.anomaly /\ ~Known(h, saf)
  BY <1>4 DEF ProcessSaf, Leaves
<1> QED
  BY <1>1, <1>2, <1>3, <1>4

(* processSaf keeps the history consistent, whatever the result says; of  *)
(* one without an anomaly nothing but the sensor and axis matters.         *)
LEMMA ProcessSafKeeps ==
  ASSUME NEW h, NEW g, HistoryInv(h), NEW saf, saf.anomaly => saf \in SafRecord, g = ProcessSaf(h, saf)
  PROVE  HistoryInv(g)
<1>1. CASE Opens(h, g, saf)
  BY <1>1, OpenKeeps DEF Opens, Open
<1>2. CASE Updates(h, g, saf)
  BY <1>2, UpdateKeeps DEF Updates, Update
<1>3. CASE Closes(h, g, saf)
  BY <1>3, CloseKeeps
<1>4. CASE Leaves(h, g, saf)
  BY <1>4 DEF Leaves
<1> QED
  BY <1>1, <1>2, <1>3, <1>4, FourBranches

-----------------------------------------------------------------------------
(* What processSaf does to the numbers of the anomalies.                   *)

(* The number to be given next is above all that are in use.               *)
LEMMA IdsBelow ==
  ASSUME NEW h, HistoryInv(h)
  PROVE  h.m_nextShfId \in Nat /\ \A i \in GoingOn(h) : i \in Nat /\ i < h.m_nextShfId
<1>1. DOMAIN h.m_activeEvents = 1 .. Len(h.m_activeEvents)
  BY DEF HistoryInv, HistoryTypeOK
<1>2. h.m_nextShfId \in Nat
  BY DEF HistoryInv, HistoryTypeOK
<1> QED
  BY <1>1, <1>2, Entry DEF GoingOn

(* An opened anomaly takes the next number.                                *)
LEMMA OpenIds ==
  ASSUME NEW h, NEW g, HistoryInv(h), NEW saf, saf \in SafRecord, Opens(h, g, saf)
  PROVE  /\ Returned(h, saf).id = h.m_nextShfId
         /\ GoingOn(g) = GoingOn(h) \union {h.m_nextShfId}
         /\ g.m_nextShfId = h.m_nextShfId + 1
<1> DEFINE n == Len(h.m_activeEvents)
<1>1. Returned(h, saf) = Opened(h, saf)
  BY DEF Opens, Open, Returned
<1>2. Opened(h, saf) \in Anomaly /\ Opened(h, saf).id = h.m_nextShfId
  BY DEF Opened, Anomaly, SafRecord, HistoryInv, HistoryTypeOK
<1>3. /\ g.m_activeEvents = Append(h.m_activeEvents, Opened(h, saf))
      /\ h.m_activeEvents \in Seq(Anomaly) /\ n \in Nat
  BY DEF Opens, Open, HistoryInv, HistoryTypeOK
<1>4. /\ DOMAIN h.m_activeEvents = 1 .. n /\ DOMAIN g.m_activeEvents = 1 .. n + 1
      /\ \A k \in 1 .. n : g.m_activeEvents[k] = h.m_activeEvents[k]
      /\ g.m_activeEvents[n + 1] = Opened(h, saf)
  BY <1>2, <1>3
<1>5. 1 .. n + 1 = 1 .. n \union {n + 1}
  BY <1>3
<1> QED
  BY <1>1, <1>2, <1>4, <1>5 DEF GoingOn, Opens, Open

(* An update keeps the numbers.                                            *)
LEMMA UpdateIds ==
  ASSUME NEW h, NEW g, HistoryInv(h), NEW saf, Updates(h, g, saf)
  PROVE  /\ Returned(h, saf).id \in GoingOn(h)
         /\ GoingOn(g) = GoingOn(h)
         /\ g.m_nextShfId = h.m_nextShfId
<1> DEFINE p == Position(h, saf)
<1>1. h.m_activeEvents \in Seq(Anomaly) /\ p \in 1 .. Len(h.m_activeEvents)
  BY PositionRight DEF Updates, Update, HistoryInv, HistoryTypeOK
<1>2. h.m_activeEvents[p] \in Anomaly
  BY <1>1
<1>3. Updated(h, saf).id = h.m_activeEvents[p].id
  BY <1>2 DEF Updated, Anomaly
<1>4. Returned(h, saf) = Updated(h, saf)
  BY DEF Updates, Update, Returned
<1>5. /\ DOMAIN g.m_activeEvents = DOMAIN h.m_activeEvents
      /\ \A k \in DOMAIN h.m_activeEvents : g.m_activeEvents[k].id = h.m_activeEvents[k].id
  BY <1>1, <1>3 DEF Updates, Update
<1> QED
  BY <1>1, <1>3, <1>4, <1>5 DEF GoingOn, Updates, Update

(* A closed anomaly takes its number with it, and no other one.            *)
LEMMA CloseIds ==
  ASSUME NEW h, NEW g, HistoryInv(h), NEW saf, Closes(h, g, saf)
  PROVE  /\ Returned(h, saf).id \in GoingOn(h)
         /\ GoingOn(g) = GoingOn(h) \ {Returned(h, saf).id}
         /\ g.m_nextShfId = h.m_nextShfId
<1> DEFINE p == Position(h, saf)
           n == Len(h.m_activeEvents)
<1>1. h.m_activeEvents \in Seq(Anomaly) /\ n \in Nat /\ p \in 1 .. n /\ DOMAIN h.m_activeEvents = 1 .. n
  BY PositionRight DEF Closes, Close, HistoryInv, HistoryTypeOK
<1>2. Returned(h, saf) = h.m_activeEvents[p]
  BY DEF Closes, Close, Returned
<1>3. /\ DOMAIN g.m_activeEvents = 1 .. n - 1
      /\ \A i \in 1 .. n - 1 :
           g.m_activeEvents[i] = IF i < p THEN h.m_activeEvents[i] ELSE h.m_activeEvents[i + 1]
  <2>1. g.m_activeEvents = Without(h.m_activeEvents, p)
    BY DEF Closes, Close
  <2>2. /\ Without(h.m_activeEvents, p) \in Seq(Anomaly)
        /\ Len(Without(h.m_activeEvents, p)) = n - 1
        /\ \A i \in 1 .. n - 1 : Without(h.m_activeEvents, p)[i] =
             IF i < p THEN h.m_activeEvents[i] ELSE h.m_activeEvents[i + 1]
    BY <1>1, WithoutType
  <2>3. DOMAIN g.m_activeEvents = 1 .. n - 1
    BY <2>1, <2>2
  <2> HIDE DEF p, n
  <2> QED
    BY <2>1, <2>2, <2>3
<1>4. \A i, j \in 1 .. n : i # j => h.m_activeEvents[i].id # h.m_activeEvents[j].id
  BY <1>1 DEF HistoryInv, Consistent
<1>5. GoingOn(g) \subseteq GoingOn(h) \ {h.m_activeEvents[p].id}
  <2> SUFFICES ASSUME NEW i \in 1 .. n - 1
               PROVE  g.m_activeEvents[i].id \in GoingOn(h) \ {h.m_activeEvents[p].id}
    BY <1>3 DEF GoingOn
  <2>1. CASE i < p
    <3>1. i \in 1 .. n /\ i # p /\ g.m_activeEvents[i] = h.m_activeEvents[i]
      BY <1>1, <1>3, <2>1
    <3> QED
      BY <1>1, <1>4, <3>1 DEF GoingOn
  <2>2. CASE ~(i < p)
    <3>1. i + 1 \in 1 .. n /\ i + 1 # p
      BY <1>1, <2>2
    <3> QED
      BY <1>1, <1>3, <1>4, <2>2, <3>1 DEF GoingOn
  <2> QED
    BY <2>1, <2>2
<1>6. GoingOn(h) \ {h.m_activeEvents[p].id} \subseteq GoingOn(g)
  <2> SUFFICES ASSUME NEW j \in 1 .. n, j # p
               PROVE  h.m_activeEvents[j].id \in GoingOn(g)
    BY <1>1 DEF GoingOn
  <2>1. CASE j < p
    <3>1. j \in 1 .. n - 1 /\ g.m_activeEvents[j] = h.m_activeEvents[j]
      BY <1>1, <1>3, <2>1
    <3> QED
      BY <1>3, <3>1 DEF GoingOn
  <2>2. CASE ~(j < p)
    <3>1. j - 1 \in 1 .. n - 1 /\ ~(j - 1 < p) /\ (j - 1) + 1 = j
      BY <1>1, <2>2
    <3>2. g.m_activeEvents[j - 1] = h.m_activeEvents[j]
      BY <1>3, <3>1
    <3> QED
      BY <1>3, <3>1, <3>2 DEF GoingOn
  <2> QED
    BY <2>1, <2>2
<1> QED
  BY <1>1, <1>2, <1>5, <1>6 DEF GoingOn, Closes, Close

(* What a result does to the number given next and to those in use.        *)
SafEffect(h, g, saf) ==
  LET id == Returned(h, saf).id IN
  /\ g.m_nextShfId >= h.m_nextShfId
  /\ Returns(h, saf) => /\ id \in GoingOn(h) \union {h.m_nextShfId}
                        /\ id < g.m_nextShfId
                        /\ ~saf.anomaly => id \in GoingOn(h)
  /\ GoingOn(g) = IF ~Returns(h, saf) THEN GoingOn(h)
                  ELSE IF saf.anomaly THEN GoingOn(h) \union {id}
                  ELSE GoingOn(h) \ {id}

(* The four branches together.                                             *)
LEMMA SafStep ==
  ASSUME NEW h, NEW g, HistoryInv(h), NEW saf, saf.anomaly => saf \in SafRecord,
         g = ProcessSaf(h, saf)
  PROVE  SafEffect(h, g, saf)
<1>0. h.m_nextShfId \in Nat /\ \A i \in GoingOn(h) : i \in Nat /\ i < h.m_nextShfId
  BY IdsBelow
<1>1. CASE Opens(h, g, saf)
  <2>1. saf.anomaly /\ Returns(h, saf)
    BY <1>1 DEF Opens, Open, Returns
  <2>2. /\ Returned(h, saf).id = h.m_nextShfId
        /\ GoingOn(g) = GoingOn(h) \union {h.m_nextShfId}
        /\ g.m_nextShfId = h.m_nextShfId + 1
    BY <1>1, <2>1, OpenIds
  <2> QED
    BY <1>0, <2>1, <2>2 DEF SafEffect
<1>2. CASE Updates(h, g, saf)
  <2>1. saf.anomaly /\ Returns(h, saf)
    BY <1>2 DEF Updates, Update, Returns
  <2>2. /\ Returned(h, saf).id \in GoingOn(h) /\ GoingOn(g) = GoingOn(h)
        /\ g.m_nextShfId = h.m_nextShfId
    BY <1>2, UpdateIds
  <2> QED
    BY <1>0, <2>1, <2>2 DEF SafEffect
<1>3. CASE Closes(h, g, saf)
  <2>1. ~saf.anomaly /\ Returns(h, saf)
    BY <1>3 DEF Closes, Close, Returns
  <2>2. /\ Returned(h, saf).id \in GoingOn(h) /\ g.m_nextShfId = h.m_nextShfId
        /\ GoingOn(g) = GoingOn(h) \ {Returned(h, saf).id}
    BY <1>3, CloseIds
  <2> QED
    BY <1>0, <2>1, <2>2 DEF SafEffect
<1>4. CASE Leaves(h, g, saf)
  <2>1. ~Returns(h, saf) /\ g = h
    BY <1>4 DEF Leaves, Returns
  <2> QED
    BY <1>0, <2>1 DEF SafEffect
<1> QED
  BY <1>1, <1>2, <1>3, <1>4, FourBranches

-----------------------------------------------------------------------------
(* The table.                                                              *)

(* The engines of the tpproc, each with channels of its own.               *)
EnginesInv ==
  /\ scenario.proc \in [Channels -> Procs]
  /\ engine = [p \in Procs |-> engine[p]]
  /\ procRun \in [Procs -> Nat]
  /\ \A p \in Procs : HistoryInv(engine[p])

StoredRow == [status : {"ACTIVE", "RESOLVED"}, review : BOOLEAN, proc : Procs, run : Nat]

(* A row against the engine e of its tpproc in its run n: it is of no      *)
(* later run, and one of this run has a number that was given and tells    *)
(* what the engine holds, but for the anomalies un that are not stored.    *)
RowRight(row, i, n, e, un) ==
  /\ row.run <= n
  /\ row.run = n =>
       /\ i < e.m_nextShfId
       /\ row.status = "ACTIVE" => i \in GoingOn(e) \/ <<row.proc, i>> \in un
       /\ row.status = "RESOLVED" => i \notin GoingOn(e)

RowsInv ==
  /\ clock \in Nat
  /\ unstored \subseteq Procs \X Nat /\ losses \in 0 .. MaxLosses
  /\ rows \in [Ids -> StoredRow \union {None}]
  /\ \A i \in Ids : rows[i] # None =>
       RowRight(rows[i], i, procRun[rows[i].proc], engine[rows[i].proc], unstored)

ChainInv == EnginesInv /\ RowsInv

(* The window of a channel as the engine gets it.                          *)
SafOf(c, sev) ==
  [chan |-> c, t |-> clock, sev |-> sev, anomaly |-> Judged(c, sev)]

RowOf(p, saf) ==
  [status |-> IF saf.anomaly THEN "ACTIVE" ELSE "RESOLVED",
   review |-> FALSE, proc |-> p, run |-> procRun[p]]

(* What becomes of the table when tpproc p publishes anomaly id.           *)
Written(p, id, row) ==
  rows' = [rows EXCEPT ![id] = row] /\ unstored' = unstored \ {<<p, id>>}
Lost(p, id) == rows' = rows /\ unstored' = unstored \union {<<p, id>>}

(* What a window does to the engine of tpproc p and to the table.          *)
WindowOf(p, saf) ==
  /\ saf.anomaly \in BOOLEAN
  /\ saf.anomaly => saf \in SafRecord
  /\ engine' = [engine EXCEPT ![p] = ProcessSaf(engine[p], saf)]
  /\ \/ Returns(engine[p], saf) /\ Written(p, Returned(engine[p], saf).id, RowOf(p, saf))
     \/ Returns(engine[p], saf) /\ Lost(p, Returned(engine[p], saf).id)
     \/ ~Returns(engine[p], saf) /\ UNCHANGED <<rows, unstored>>

(* A window of a channel is a window of its tpproc.                        *)
LEMMA FlushEffect ==
  ASSUME clock \in Nat, NEW c \in Channels, FlushWindow(c)
  PROVE  /\ clock' = clock /\ procRun' = procRun /\ scenario' = scenario
         /\ losses' = losses \/ (losses < MaxLosses /\ losses' = losses + 1)
         /\ \E saf : WindowOf(scenario.proc[c], saf)
<1> DEFINE p == scenario.proc[c]
           ShfOf(saf) ==
             [obj |-> ObjectOf(Returned(engine[p], saf).chan), id |-> Returned(engine[p], saf).id,
              start |-> Returned(engine[p], saf).start, sev |-> Returned(engine[p], saf).sev,
              status |-> IF saf.anomaly THEN "ACTIVE" ELSE "RESOLVED"]
<1>1. PICK sev \in Severities \union {0} :
        /\ engine' = [engine EXCEPT ![p] = ProcessSaf(engine[p], SafOf(c, sev))]
        /\ IF Returns(engine[p], SafOf(c, sev)) THEN Publish(p, ShfOf(SafOf(c, sev)))
           ELSE UNCHANGED <<store, toEvent>>
  BY DEF FlushWindow, SafOf, Published
<1> DEFINE saf == SafOf(c, sev)
<1>2. saf.anomaly = Judged(c, sev) /\ saf.chan = c /\ saf.t = clock /\ saf.sev = sev
  BY DEF SafOf
<1>3. saf.anomaly \in BOOLEAN
  BY <1>2 DEF Judged
<1>4. saf.anomaly => saf \in SafRecord
  <2> SUFFICES ASSUME saf.anomaly PROVE saf \in SafRecord
    OBVIOUS
  <2>1. Judged(c, sev)
    BY <1>2
  <2>2. sev \in Severities
    BY <2>1, SeveritiesAssumption DEF Judged
  <2> QED
    BY <1>3, <2>2 DEF SafOf, SafRecord
<1>5. clock' = clock /\ procRun' = procRun /\ scenario' = scenario
  BY DEF FlushWindow
<1> HIDE DEF saf, p
<1> DEFINE shf == ShfOf(saf)
<1>6. shf.id = Returned(engine[p], saf).id /\ shf.status = RowOf(p, saf).status
  BY DEF RowOf
<1>7. /\ engine' = [engine EXCEPT ![p] = ProcessSaf(engine[p], saf)]
      /\ IF Returns(engine[p], saf) THEN Publish(p, shf) ELSE UNCHANGED <<store, toEvent>>
  BY <1>1 DEF saf
<1> HIDE DEF shf, ShfOf
<1>10. WindowOf(p, saf) => \E w : WindowOf(scenario.proc[c], w)
  BY Zenon DEF p
<1>8. CASE ~Returns(engine[p], saf)
  <2>1. UNCHANGED <<rows, unstored, losses>>
    BY <1>7, <1>8 DEF store
  <2>2. WindowOf(p, saf)
    BY <1>3, <1>4, <1>7, <1>8, <2>1 DEF WindowOf
  <2> QED
    BY <1>5, <1>10, <2>1, <2>2
<1>9. CASE Returns(engine[p], saf)
  <2>1. Publish(p, shf)
    BY <1>7, <1>9
  <2>2. RowOf(p, saf) = [status |-> shf.status, review |-> FALSE, proc |-> p, run |-> procRun[p]]
    BY <1>6 DEF RowOf
  <2>3. \/ Written(p, Returned(engine[p], saf).id, RowOf(p, saf)) /\ losses' = losses
        \/ Lost(p, Returned(engine[p], saf).id) /\ losses < MaxLosses /\ losses' = losses + 1
    BY <1>6, <2>1, <2>2 DEF Publish, WriteShf, Written, Lost
  <2>4. WindowOf(p, saf)
    BY <1>3, <1>4, <1>7, <1>9, <2>3 DEF WindowOf
  <2> QED
    BY <1>5, <1>10, <2>3, <2>4
<1> QED
  BY <1>8, <1>9

(* Every other step leaves the engines and the clockwork of the table      *)
(* alone or is one of these.                                               *)
LEMMA StepCases ==
  ASSUME [ChainNext]_vars
  PROVE  \/ \E c \in Channels : FlushWindow(c)
         \/ \E i \in Ids : WriteJournal(i)
         \/ \E p \in Procs : RestartProc(p)
         \/ /\ UNCHANGED <<scenario, engine, procRun, rows, unstored, losses>>
            /\ clock' \in {clock, clock + 1}
<1>1. CASE HandleShf
  BY <1>1 DEF HandleShf, time, proc, store
<1>2. CASE Sweep
  BY <1>2 DEF Sweep, time, proc, store
<1>3. CASE HandleEvent
  BY <1>3 DEF HandleEvent, time, proc, store
<1>4. CASE Tick
  BY <1>4 DEF Tick, time, proc, store
<1>5. CASE RestartEvent
  BY <1>5 DEF RestartEvent, time, proc, store
<1>6. CASE RestartAlert
  BY <1>6 DEF RestartAlert, time, proc, store
<1>7. CASE UNCHANGED vars
  BY <1>7 DEF vars, time, proc, store
<1> QED
  BY <1>1, <1>2, <1>3, <1>4, <1>5, <1>6, <1>7 DEF ChainNext

(* A window keeps the engines consistent: the engine of its tpproc takes a *)
(* step of processSaf, the others stay.                                    *)
LEMMA EngineStep ==
  ASSUME EnginesInv, UNCHANGED <<scenario, procRun>>, NEW p \in Procs, NEW saf, WindowOf(p, saf)
  PROVE  /\ EnginesInv'
         /\ engine'[p] = ProcessSaf(engine[p], saf)
         /\ \A q \in Procs : q # p => engine'[q] = engine[q]
<1>1. /\ engine = [q \in Procs |-> engine[q]]
      /\ engine' = [engine EXCEPT ![p] = ProcessSaf(engine[p], saf)]
  BY DEF EnginesInv, WindowOf
<1>2. /\ engine' = [q \in Procs |-> engine'[q]]
      /\ engine'[p] = ProcessSaf(engine[p], saf)
      /\ \A q \in Procs : q # p => engine'[q] = engine[q]
  BY <1>1
<1>3. HistoryInv(engine'[p])
  BY <1>2, ProcessSafKeeps DEF EnginesInv, WindowOf
<1>4. \A q \in Procs : HistoryInv(engine'[q])
  BY <1>2, <1>3 DEF EnginesInv
<1> QED
  BY <1>2, <1>4 DEF EnginesInv

(* A window keeps the engines and the table consistent.                    *)
LEMMA FlushKeeps ==
  ASSUME ChainInv, NEW c \in Channels, FlushWindow(c)
  PROVE  ChainInv'
<1> DEFINE p == scenario.proc[c]
<1>1. p \in Procs /\ clock \in Nat
  BY DEF ChainInv, EnginesInv, RowsInv
<1>2. /\ clock' = clock /\ procRun' = procRun /\ scenario' = scenario
      /\ losses' = losses \/ (losses < MaxLosses /\ losses' = losses + 1)
  BY <1>1, FlushEffect
<1>3. PICK saf : WindowOf(p, saf)
  BY <1>1, FlushEffect
<1> DEFINE h  == engine[p]
           g  == engine'[p]
           id == Returned(h, saf).id
<1> HIDE DEF p
<1>4. /\ EnginesInv' /\ g = ProcessSaf(h, saf)
      /\ \A q \in Procs : q # p => engine'[q] = engine[q]
  BY <1>1, <1>2, <1>3, EngineStep DEF ChainInv
<1>5. HistoryInv(h) /\ HistoryInv(g)
  BY <1>1, <1>4 DEF ChainInv, EnginesInv
<1>6. saf.anomaly \in BOOLEAN /\ (saf.anomaly => saf \in SafRecord)
  BY <1>3 DEF WindowOf
<1>18. g = ProcessSaf(h, saf)
  BY <1>4
<1> HIDE DEF h, g
<1>7. /\ g.m_nextShfId >= h.m_nextShfId
      /\ Returns(h, saf) => id < g.m_nextShfId /\ id \in GoingOn(h) \union {h.m_nextShfId}
      /\ GoingOn(g) = IF ~Returns(h, saf) THEN GoingOn(h)
                      ELSE IF saf.anomaly THEN GoingOn(h) \union {id}
                      ELSE GoingOn(h) \ {id}
  <2>1. SafEffect(h, g, saf)
    BY <1>5, <1>6, <1>18, SafStep
  <2> QED
    BY <2>1 DEF SafEffect
<1>8. /\ h.m_nextShfId \in Nat /\ g.m_nextShfId \in Nat
      /\ \A i \in GoingOn(h) : i \in Nat
  BY <1>5, IdsBelow
<1>9. Returns(h, saf) => id \in Nat
  BY <1>7, <1>8
<1> HIDE DEF id
<1>10. procRun[p] \in Nat /\ rows \in [Ids -> StoredRow \union {None}]
  BY <1>1 DEF ChainInv, EnginesInv, RowsInv
<1> DEFINE row == RowOf(p, saf)
<1>11. /\ row \in StoredRow /\ row.run = procRun[p] /\ row.proc = p
       /\ row.status = IF saf.anomaly THEN "ACTIVE" ELSE "RESOLVED"
  BY <1>1, <1>6, <1>10 DEF RowOf, StoredRow
<1> HIDE DEF row
<1>12. \/ Returns(h, saf) /\ rows' = [rows EXCEPT ![id] = row] /\ unstored' = unstored \ {<<p, id>>}
       \/ Returns(h, saf) /\ rows' = rows /\ unstored' = unstored \union {<<p, id>>}
       \/ ~Returns(h, saf) /\ rows' = rows /\ unstored' = unstored
  BY <1>3 DEF WindowOf, Written, Lost, h, id, row
<1>13. rows' \in [Ids -> StoredRow \union {None}]
  BY <1>10, <1>11, <1>12
<1>14. unstored' \subseteq Procs \X Nat
  BY <1>1, <1>9, <1>12 DEF ChainInv, RowsInv
<1>15. losses' \in 0 .. MaxLosses
  BY <1>2, ChainAssumption DEF ChainInv, RowsInv
<1>16. ASSUME NEW i \in Ids, rows'[i] # None
       PROVE  RowRight(rows'[i], i, procRun[rows'[i].proc], engine'[rows'[i].proc], unstored')
  <2>1. CASE Returns(h, saf) /\ i = id /\ rows'[i] = row
    <3>1. rows'[i].proc = p /\ rows'[i].run = procRun[p]
      BY <1>11, <2>1
    <3>2. i < g.m_nextShfId /\ procRun[p] <= procRun[p]
      BY <1>7, <1>10, <2>1
    <3>3. rows'[i].status = "ACTIVE" => i \in GoingOn(g)
      BY <1>7, <1>11, <2>1
    <3>4. rows'[i].status = "RESOLVED" => i \notin GoingOn(g)
      BY <1>7, <1>11, <2>1
    <3> QED
      BY <3>1, <3>2, <3>3, <3>4 DEF RowRight, g
  <2>2. CASE rows'[i] = rows[i] /\ ~(Returns(h, saf) /\ i = id /\ rows'[i] = row)
    <3> DEFINE q == rows[i].proc
    <3>1. rows[i] \in StoredRow /\ q \in Procs
      BY <1>10, <1>16, <2>2 DEF StoredRow
    <3>2. RowRight(rows[i], i, procRun[q], engine[q], unstored)
      BY <1>16, <2>2 DEF ChainInv, RowsInv
    <3>3. CASE q # p
      <4>1. engine'[q] = engine[q]
        BY <1>4, <3>1, <3>3
      <4>2. <<q, i>> \in unstored => <<q, i>> \in unstored'
        BY <1>12, <3>3
      <4> QED
        BY <2>2, <3>2, <4>1, <4>2 DEF RowRight
    <3>4. CASE q = p
      <4>1. /\ rows[i].run <= procRun[p]
            /\ rows[i].run = procRun[p] =>
                 /\ i < h.m_nextShfId
                 /\ rows[i].status = "ACTIVE" => i \in GoingOn(h) \/ <<p, i>> \in unstored
                 /\ rows[i].status = "RESOLVED" => i \notin GoingOn(h)
        BY <3>2, <3>4 DEF RowRight, h
      <4>2. i \in Nat
        BY DEF Ids, ChainAssumption
      <4>3. i < h.m_nextShfId => i < g.m_nextShfId
        BY <1>7, <1>8, <4>2
      <4>4. i # id \/ ~Returns(h, saf) \/ <<p, id>> \in unstored'
        <5>1. CASE rows' = rows
          BY <1>12, <5>1, <2>2, <1>10, <1>11
        <5>2. CASE Returns(h, saf) /\ rows' = [rows EXCEPT ![id] = row] /\ i = id
          BY <1>10, <2>2, <5>2
        <5> QED
          BY <1>12, <5>1, <5>2
      <4>5. rows[i].status = "ACTIVE" /\ rows[i].run = procRun[p] =>
              i \in GoingOn(g) \/ <<p, i>> \in unstored'
        BY <1>7, <1>12, <4>1, <4>4
      <4>6. rows[i].status = "RESOLVED" /\ rows[i].run = procRun[p] => i \notin GoingOn(g)
        <5>1. SUFFICES ASSUME rows[i].status = "RESOLVED", rows[i].run = procRun[p]
                       PROVE  i \notin GoingOn(g)
          OBVIOUS
        <5>2. i \notin GoingOn(h) /\ i < h.m_nextShfId
          BY <4>1, <5>1
        <5>3. Returns(h, saf) => i # id
          BY <1>7, <1>8, <4>2, <5>2
        <5> QED
          BY <1>7, <5>2, <5>3
      <4> HIDE DEF q
      <4> QED
        BY <2>2, <3>4, <4>1, <4>3, <4>5, <4>6 DEF RowRight, g, q
    <3> QED
      BY <3>3, <3>4
  <2> QED
    BY <1>10, <1>12, <2>1, <2>2
<1>17. RowsInv'
  BY <1>1, <1>2, <1>13, <1>14, <1>15, <1>16 DEF RowsInv
<1> QED
  BY <1>4, <1>17 DEF ChainInv

(* An operator's review leaves whose row it is and what it tells.          *)
LEMMA JournalKeeps ==
  ASSUME ChainInv, NEW j \in Ids, WriteJournal(j)
  PROVE  ChainInv'
<1>1. /\ UNCHANGED <<scenario, engine, procRun, clock, unstored, losses>>
      /\ rows[j] # None /\ rows' = [rows EXCEPT ![j].review = TRUE]
  BY DEF WriteJournal, time, proc
<1>2. rows \in [Ids -> StoredRow \union {None}]
  BY DEF ChainInv, RowsInv
<1>3. rows[j] \in StoredRow
  BY <1>1, <1>2
<1>4. rows'[j] = [rows[j] EXCEPT !.review = TRUE]
  BY <1>1, <1>2
<1>5. /\ rows'[j] \in StoredRow /\ rows'[j].proc = rows[j].proc
      /\ rows'[j].run = rows[j].run /\ rows'[j].status = rows[j].status
  BY <1>3, <1>4 DEF StoredRow
<1>6. \A i \in Ids : i # j => rows'[i] = rows[i]
  BY <1>1, <1>2
<1>7. rows' \in [Ids -> StoredRow \union {None}]
  <2>1. \A i \in Ids : rows'[i] \in StoredRow \union {None}
    BY <1>2, <1>5, <1>6
  <2>2. rows' = [i \in Ids |-> rows'[i]]
    BY <1>1, <1>2, Zenon
  <2> QED
    BY <2>1, <2>2
<1>8. ASSUME NEW i \in Ids, rows'[i] # None
      PROVE  RowRight(rows'[i], i, procRun[rows'[i].proc], engine[rows'[i].proc], unstored)
  <2>1. rows[i] # None /\ rows'[i].proc = rows[i].proc
        /\ rows'[i].run = rows[i].run /\ rows'[i].status = rows[i].status
    BY <1>1, <1>5, <1>6, <1>8
  <2>2. RowRight(rows[i], i, procRun[rows[i].proc], engine[rows[i].proc], unstored)
    BY <2>1 DEF ChainInv, RowsInv
  <2> QED
    BY <2>1, <2>2 DEF RowRight
<1>9. EnginesInv'
  BY <1>1 DEF ChainInv, EnginesInv
<1> QED
  BY <1>1, <1>7, <1>8, <1>9 DEF ChainInv, RowsInv

(* After a restart of a tpproc no row is of its run.                       *)
LEMMA RestartKeeps ==
  ASSUME ChainInv, NEW p \in Procs, RestartProc(p)
  PROVE  ChainInv'
<1>1. /\ engine' = [engine EXCEPT ![p] = NewEngine]
      /\ procRun' = [procRun EXCEPT ![p] = @ + 1]
      /\ unstored' = {u \in unstored : u[1] # p}
      /\ UNCHANGED <<scenario, rows, clock, losses>>
  BY DEF RestartProc, time
<1>2. /\ engine = [q \in Procs |-> engine[q]] /\ procRun \in [Procs -> Nat]
      /\ \A q \in Procs : HistoryInv(engine[q])
  BY DEF ChainInv, EnginesInv
<1>3. /\ engine' = [q \in Procs |-> engine'[q]] /\ procRun' \in [Procs -> Nat]
      /\ engine'[p] = NewEngine /\ procRun'[p] = procRun[p] + 1
      /\ \A q \in Procs : q # p => engine'[q] = engine[q] /\ procRun'[q] = procRun[q]
  BY <1>1, <1>2
<1>4. EnginesInv'
  BY <1>1, <1>2, <1>3, NewConsistent DEF ChainInv, EnginesInv
<1>5. unstored' \subseteq Procs \X Nat
  BY <1>1 DEF ChainInv, RowsInv
<1>6. ASSUME NEW i \in Ids, rows[i] # None
      PROVE  RowRight(rows[i], i, procRun'[rows[i].proc], engine'[rows[i].proc], unstored')
  <2> DEFINE q == rows[i].proc
  <2>1. rows[i].run \in Nat /\ q \in Procs
    BY <1>6 DEF StoredRow, ChainInv, RowsInv
  <2>2. RowRight(rows[i], i, procRun[q], engine[q], unstored)
    BY <1>6 DEF ChainInv, RowsInv
  <2>3. CASE q = p
    <3>1. rows[i].run <= procRun[p] /\ procRun[p] \in Nat
      BY <1>2, <2>2, <2>3 DEF RowRight
    <3>2. rows[i].run <= procRun'[p] /\ rows[i].run # procRun'[p]
      BY <1>3, <2>1, <3>1
    <3> QED
      BY <2>3, <3>2 DEF RowRight
  <2>4. CASE q # p
    <3>1. <<q, i>> \in unstored => <<q, i>> \in unstored'
      BY <1>1, <2>4
    <3> QED
      BY <1>3, <2>1, <2>2, <2>4, <3>1 DEF RowRight
  <2> QED
    BY <2>3, <2>4
<1> QED
  BY <1>1, <1>4, <1>5, <1>6 DEF ChainInv, RowsInv

(* At the start nothing is held and no row is written.                     *)
LEMMA InitChain == ChainInit => ChainInv
<1> SUFFICES ASSUME ChainInit PROVE ChainInv
  OBVIOUS
<1>1. EnginesInv
  <2>1. /\ engine = [p \in Procs |-> NewEngine] /\ procRun = [p \in Procs |-> 0]
        /\ scenario \in Scenarios
    BY DEF ChainInit
  <2>2. scenario.proc \in [Channels -> Procs]
    BY <2>1, ChainAssumption
  <2> QED
    BY <2>1, <2>2, NewConsistent DEF EnginesInv
<1>2. clock = 1 /\ unstored = {} /\ losses = 0 /\ rows = [i \in Ids |-> None]
  BY DEF ChainInit
<1> QED
  BY <1>1, <1>2, ChainAssumption DEF ChainInv, RowsInv

(* Every step of the chain.                                                *)
LEMMA ChainKeeps ==
  ASSUME ChainInv, [ChainNext]_vars
  PROVE  ChainInv'
<1>1. CASE \E c \in Channels : FlushWindow(c)
  BY <1>1, FlushKeeps
<1>2. CASE \E i \in Ids : WriteJournal(i)
  BY <1>2, JournalKeeps
<1>3. CASE \E p \in Procs : RestartProc(p)
  BY <1>3, RestartKeeps
<1>4. CASE /\ UNCHANGED <<scenario, engine, procRun, rows, unstored, losses>>
           /\ clock' \in {clock, clock + 1}
  <2>1. EnginesInv'
    BY <1>4 DEF ChainInv, EnginesInv
  <2>2. clock' \in Nat
    BY <1>4 DEF ChainInv, RowsInv
  <2> QED
    BY <1>4, <2>1, <2>2 DEF ChainInv, RowsInv
<1> QED
  BY <1>1, <1>2, <1>3, <1>4, StepCases

(* The whole chain: windows of any channels and severities, any number of  *)
(* tpproc, restarts of each between any two windows, lost publications,    *)
(* whatever the other programs do.                                         *)
LEMMA ChainInvariant == Spec => []ChainInv
<1>1. ChainInit => ChainInv
  BY InitChain
<1>2. ChainInv /\ [ChainNext]_vars => ChainInv'
  BY ChainKeeps
<1> QED
  BY <1>1, <1>2, PTL DEF Spec

(* HistoryEngine within each tpproc: the index leads from every sensor and *)
(* axis to its one anomaly, whatever windows come and whenever it restarts.*)
THEOREM ChainIndexTheorem == Spec => []IndexConsistent
<1>1. ChainInv => IndexConsistent
  BY DEF ChainInv, EnginesInv, HistoryInv, IndexConsistent
<1> QED
  BY <1>1, ChainInvariant, PTL

(* DbStore::writeShf, for any number of tpproc that share the numbers of   *)
(* the table: a row tells what the engine of the tpproc that wrote it last *)
(* holds, but for the publications that were lost or not written.          *)
THEOREM RowsTheorem == Spec => []RowsFollowEngine
<1>1. ChainInv => RowsFollowEngine
  <2> SUFFICES ASSUME ChainInv, NEW i \in Ids, rows[i] # None,
                      rows[i].run = procRun[rows[i].proc]
               PROVE  IF rows[i].status = "ACTIVE"
                      THEN \/ i \in GoingOn(engine[rows[i].proc])
                           \/ <<rows[i].proc, i>> \in unstored
                      ELSE i \notin GoingOn(engine[rows[i].proc])
    BY DEF RowsFollowEngine
  <2>1. RowRight(rows[i], i, procRun[rows[i].proc], engine[rows[i].proc], unstored)
    BY DEF ChainInv, RowsInv
  <2>2. rows[i].status \in {"ACTIVE", "RESOLVED"}
    BY DEF ChainInv, RowsInv, StoredRow
  <2> QED
    BY <2>1, <2>2 DEF RowRight
<1> QED
  BY <1>1, ChainInvariant, PTL

(* An operator's review of an anomaly that is over is not reset by its     *)
(* tpproc, which writes rows of anomalies that are going on; another       *)
(* tpproc that has come to the same number replaces it.                    *)
THEOREM ReviewTheorem == Spec => ReviewStands
<1> DEFINE Stands == \A i \in Ids :
             rows[i] # None /\ rows[i].status = "RESOLVED" /\ rows[i].run = procRun[rows[i].proc]
               => \/ rows'[i].proc # rows[i].proc
                  \/ rows'[i].status = "RESOLVED" /\ (rows[i].review => rows'[i].review)
<1>1. ASSUME ChainInv, [ChainNext]_vars PROVE Stands
  <2> SUFFICES ASSUME NEW i \in Ids, rows[i] # None,
                      rows[i].status = "RESOLVED", rows[i].run = procRun[rows[i].proc],
                      rows'[i].proc = rows[i].proc
               PROVE  rows'[i].status = "RESOLVED" /\ (rows[i].review => rows'[i].review)
    OBVIOUS
  <2>1. rows \in [Ids -> StoredRow \union {None}]
    BY <1>1 DEF ChainInv, RowsInv
  <2>2. CASE rows' = rows
    BY <2>2
  <2>3. ASSUME NEW c \in Channels, FlushWindow(c) PROVE rows'[i] = rows[i]
    <3> DEFINE p == scenario.proc[c]
    <3>1. p \in Procs /\ clock \in Nat
      BY <1>1 DEF ChainInv, EnginesInv, RowsInv
    <3>2. PICK saf : WindowOf(p, saf)
      BY <2>3, <3>1, FlushEffect
    <3> HIDE DEF p
    <3> DEFINE h  == engine[p]
               id == Returned(h, saf).id
    <3>3. HistoryInv(h)
      BY <1>1, <3>1 DEF ChainInv, EnginesInv
    <3>5. rows' = rows \/ (Returns(h, saf) /\ rows' = [rows EXCEPT ![id] = RowOf(p, saf)])
      BY <3>2 DEF WindowOf, Written, Lost
    <3> DEFINE g == ProcessSaf(h, saf)
    <3>11. g = ProcessSaf(h, saf) /\ (saf.anomaly => saf \in SafRecord)
      BY <3>2 DEF WindowOf
    <3> HIDE DEF g, h
    <3>4. Returns(h, saf) => id \in GoingOn(h) \union {h.m_nextShfId}
      <4>1. SafEffect(h, g, saf)
        BY <3>3, <3>11, SafStep
      <4> QED
        BY <4>1 DEF SafEffect
    <3>6. RowRight(rows[i], i, procRun[rows[i].proc], engine[rows[i].proc], unstored)
      BY <1>1 DEF ChainInv, RowsInv
    <3>7. rows[i].proc = p => i \notin GoingOn(h) /\ i < h.m_nextShfId
      BY <3>6 DEF RowRight, h
    <3>8. h.m_nextShfId \in Nat
      BY <3>3, IdsBelow
    <3> HIDE DEF id
    <3>9. RowOf(p, saf).proc = p
      BY DEF RowOf
    <3>10. CASE Returns(h, saf) /\ rows' = [rows EXCEPT ![id] = RowOf(p, saf)] /\ i = id
      <4>1. rows'[i] = RowOf(p, saf)
        BY <2>1, <3>10
      <4>2. rows[i].proc = p
        BY <3>9, <4>1
      <4>3. i # h.m_nextShfId /\ i \notin GoingOn(h)
        BY <3>7, <3>8, <4>2
      <4> QED
        BY <3>4, <3>10, <4>3
    <3> QED
      BY <2>1, <3>5, <3>10
  <2>4. ASSUME NEW j \in Ids, WriteJournal(j)
        PROVE  rows'[i].status = "RESOLVED" /\ (rows[i].review => rows'[i].review)
    <3>1. rows' = [rows EXCEPT ![j].review = TRUE]
      BY <2>4 DEF WriteJournal
    <3>2. rows[i] \in StoredRow
      BY <2>1
    <3> QED
      BY <2>1, <3>1, <3>2 DEF StoredRow
  <2>5. ASSUME NEW p \in Procs, RestartProc(p) PROVE rows' = rows
    BY <2>5 DEF RestartProc
  <2> QED
    BY <1>1, <2>2, <2>3, <2>4, <2>5, StepCases
<1>2. ChainInv /\ [ChainNext]_vars => [Stands]_vars
  BY <1>1
<1> QED
  BY <1>2, ChainInvariant, PTL DEF Spec, ReviewStands

-----------------------------------------------------------------------------
(* The larger of two severities, and the largest of several.               *)

(* The larger of two numbers.                                              *)
LEMMA LargerFacts ==
  ASSUME NEW a \in Nat, NEW b \in Nat
  PROVE  /\ Larger(a, b) = a \/ Larger(a, b) = b
         /\ a <= Larger(a, b) /\ b <= Larger(a, b)
<1>1. \E x \in {a, b} : \A y \in {a, b} : x >= y
  OBVIOUS
<1>2. Larger(a, b) \in {a, b} /\ \A y \in {a, b} : Larger(a, b) >= y
  BY <1>1 DEF Larger, Max
<1> QED
  BY <1>2

(* The largest of several numbers.                                         *)
LEMMA MaxFacts ==
  ASSUME NEW S, S \subseteq Nat, S # {}, NEW n \in Nat, \A i \in S : i <= n
  PROVE  Max(S) \in S /\ \A i \in S : i <= Max(S)
<1>1. \E i \in S : \A j \in S : i >= j
  <2>1. PICK i \in S : \A j \in S : j <= i
    BY Largest
  <2>2. \A j \in S : i >= j
    BY <2>1
  <2> QED
    BY <2>2
<1> QED
  BY <1>1 DEF Max

-----------------------------------------------------------------------------
(* The types of what tpevent and tpalert work on.                          *)

ShfMessage == [obj : Objects, id : Nat, start : Times, sev : Severities,
               status : {"ACTIVE", "RESOLVED"}]
EventMessage == [obj : Objects, id : Times, sev : Severities,
                 status : {"ACTIVE", "RESOLVED"}]
StoredEvent == [status : {"ACTIVE", "RESOLVED"}, sev : Severities, run : Nat]

(* The starts of the anomalies that are going on.                          *)
Timed(h) == \A k \in DOMAIN h.m_activeEvents : h.m_activeEvents[k].start \in Times

(* The time, the tpproc and the restarts.                                  *)
SourceTypes ==
  /\ clock \in Times /\ flushed \subseteq Channels /\ windows \in 0 .. MaxWindows
  /\ calibrated \in [Channels -> 0 .. CalibWindows]
  /\ restarts \in 0 .. MaxRestarts
  /\ \A p \in Procs : Timed(engine[p]) /\ procRun[p] <= restarts
  /\ eventRun \in Nat /\ eventRun <= restarts

EventTypes ==
  /\ toEvent \in Seq(ShfMessage) /\ Len(toEvent) <= MaxQueue
  /\ open \in [Objects -> Event \union {None}]
  /\ quiet \in [Objects -> 0 .. Quiet + 1]
  /\ eventRows \in [Times -> StoredEvent \union {None}]
  /\ \A n \in Times : eventRows[n] # None => eventRows[n].run <= eventRun
  /\ toAlert \in Seq(EventMessage) /\ Len(toAlert) < MaxQueue + Cardinality(Objects)
  /\ shared \subseteq Times

AlertTypes ==
  /\ alerted \in [Times -> Severities \union {0}]
  /\ cool \in [Objects -> 0 .. Cooldown]
  /\ answered \in [Objects -> [Times -> Nat]]

(* The constants of the chain as numbers.                                  *)
LEMMA ChainBounds ==
  /\ IsFiniteSet(Objects) /\ Cardinality(Objects) \in Nat
  /\ CalibWindows \in Nat /\ Quiet \in Nat /\ Cooldown \in Nat
  /\ MaxClock \in Nat /\ MaxClock >= 1 /\ MaxWindows \in Nat
  /\ MaxQueue \in Nat /\ MaxQueue >= 1 /\ MaxRestarts \in Nat
  /\ Severities \subseteq Nat /\ Times \subseteq Nat /\ 1 \in Times
  /\ \A c \in Channels : ObjectOf(c) \in Objects
BY ChainAssumption, SeveritiesAssumption, FS_CardinalityType DEF Times

(* A record is not the absence of one.                                     *)
LEMMA Some ==
  /\ \A e \in Event : e # None
  /\ \A r \in StoredEvent : r # None
<1>1. DOMAIN None = {"none"}
  BY DEF None
<1>2. ASSUME NEW e \in Event PROVE e # None
  <2>1. DOMAIN e = {"id", "sev"}
    BY DEF Event
  <2> QED
    BY <1>1, <2>1
<1>3. ASSUME NEW r \in StoredEvent PROVE r # None
  <2>1. DOMAIN r = {"status", "sev", "run"}
    BY DEF StoredEvent
  <2> QED
    BY <1>1, <2>1
<1> QED
  BY <1>2, <1>3

-----------------------------------------------------------------------------
(* The anomalies keep the time at which they began.                        *)

(* processSaf keeps the start of an anomaly as it was, and gives a new one *)
(* the time of its window.                                                 *)
LEMMA StartsStay ==
  ASSUME NEW h, NEW g, HistoryInv(h), Timed(h), NEW saf,
         saf.anomaly => saf \in SafRecord /\ saf.t \in Times, g = ProcessSaf(h, saf)
  PROVE  /\ Timed(g)
         /\ Returns(h, saf) => Returned(h, saf) \in Anomaly /\ Returned(h, saf).start \in Times
<1> DEFINE p == Position(h, saf)
           n == Len(h.m_activeEvents)
<1>1. /\ h.m_activeEvents \in Seq(Anomaly) /\ n \in Nat /\ DOMAIN h.m_activeEvents = 1 .. n
      /\ \A k \in 1 .. n : h.m_activeEvents[k] \in Anomaly /\ h.m_activeEvents[k].start \in Times
  BY DEF HistoryInv, HistoryTypeOK, Timed
<1>2. CASE Opens(h, g, saf)
  <2>1. saf.anomaly /\ Returned(h, saf) = Opened(h, saf)
    BY <1>2 DEF Opens, Returned
  <2>2. Opened(h, saf) \in Anomaly /\ Opened(h, saf).start \in Times
    BY <2>1 DEF Opened, Anomaly, SafRecord, HistoryInv, HistoryTypeOK
  <2>3. g.m_activeEvents = Append(h.m_activeEvents, Opened(h, saf))
    BY <1>2 DEF Opens, Open
  <2>4. /\ DOMAIN g.m_activeEvents = 1 .. n + 1
        /\ \A k \in 1 .. n : g.m_activeEvents[k] = h.m_activeEvents[k]
        /\ g.m_activeEvents[n + 1] = Opened(h, saf)
    BY <1>1, <2>2, <2>3
  <2>5. 1 .. n + 1 = 1 .. n \union {n + 1}
    BY <1>1
  <2> QED
    BY <1>1, <2>1, <2>2, <2>4, <2>5 DEF Timed
<1>3. CASE Updates(h, g, saf)
  <2>1. p \in 1 .. n /\ saf.anomaly
    BY <1>3, PositionRight DEF Updates
  <2>2. Updated(h, saf) \in Anomaly /\ Updated(h, saf).start \in Times
    BY <1>1, <2>1 DEF Updated, Anomaly, SafRecord
  <2>3. Returned(h, saf) = Updated(h, saf)
    BY <1>3 DEF Updates, Returned
  <2>4. g.m_activeEvents = [h.m_activeEvents EXCEPT ![p] = Updated(h, saf)]
    BY <1>3 DEF Updates, Update
  <2> HIDE DEF p
  <2> QED
    BY <1>1, <2>1, <2>2, <2>3, <2>4 DEF Timed
<1>4. CASE Closes(h, g, saf)
  <2>1. p \in 1 .. n
    BY <1>4, PositionRight DEF Closes
  <2>2. Returned(h, saf) = h.m_activeEvents[p]
    BY <1>4 DEF Closes, Returned
  <2>3. g.m_activeEvents = Without(h.m_activeEvents, p)
    BY <1>4 DEF Closes, Close
  <2>4. /\ DOMAIN g.m_activeEvents = 1 .. n - 1
        /\ \A i \in 1 .. n - 1 :
             g.m_activeEvents[i] = IF i < p THEN h.m_activeEvents[i] ELSE h.m_activeEvents[i + 1]
    <3>1. /\ Without(h.m_activeEvents, p) \in Seq(Anomaly)
          /\ Len(Without(h.m_activeEvents, p)) = n - 1
          /\ \A i \in 1 .. n - 1 : Without(h.m_activeEvents, p)[i] =
               IF i < p THEN h.m_activeEvents[i] ELSE h.m_activeEvents[i + 1]
      BY <1>1, <2>1, WithoutType
    <3> QED
      BY <1>1, <2>3, <3>1
  <2>5. \A i \in 1 .. n - 1 : i \in 1 .. n /\ i + 1 \in 1 .. n
    BY <1>1
  <2> HIDE DEF p
  <2> QED
    BY <1>1, <2>1, <2>2, <2>4, <2>5 DEF Timed
<1>5. CASE Leaves(h, g, saf)
  <2>1. ~Returns(h, saf) /\ g = h
    BY <1>5 DEF Leaves, Returns
  <2> QED
    BY <2>1
<1> QED
  BY <1>2, <1>3, <1>4, <1>5, FourBranches

-----------------------------------------------------------------------------
(* A window: the time goes on as it was, and at most one message for       *)
(* tpevent is added.                                                       *)
LEMMA FlushStep ==
  ASSUME EnginesInv, SourceTypes, NEW c \in Channels, FlushWindow(c)
  PROVE  /\ SourceTypes'
         /\ toEvent' = toEvent \/ \E shf \in ShfMessage : toEvent' = Append(toEvent, shf)
         /\ Len(toEvent) < MaxQueue
         /\ UNCHANGED <<scenario, procRun, event, eventRows, toAlert, alert, shared, restarts>>
<1> DEFINE p == scenario.proc[c]
           h == engine[p]
           ShfOf(saf) ==
             [obj |-> ObjectOf(Returned(h, saf).chan), id |-> Returned(h, saf).id,
              start |-> Returned(h, saf).start, sev |-> Returned(h, saf).sev,
              status |-> IF saf.anomaly THEN "ACTIVE" ELSE "RESOLVED"]
<1>1. PICK sev \in Severities \union {0} :
        /\ engine' = [engine EXCEPT ![p] = ProcessSaf(h, SafOf(c, sev))]
        /\ toEvent' = toEvent \/ (Returns(h, SafOf(c, sev))
                                    /\ toEvent' = Append(toEvent, ShfOf(SafOf(c, sev))))
  BY DEF FlushWindow, SafOf, Published, Publish, Forward
<1> DEFINE saf == SafOf(c, sev)
<1>0. p \in Procs /\ engine = [q \in Procs |-> engine[q]] /\ HistoryInv(h) /\ Timed(h)
  BY DEF EnginesInv, SourceTypes
<1>2. /\ saf.anomaly = Judged(c, sev) /\ saf.t = clock /\ saf.sev = sev
      /\ saf.anomaly \in BOOLEAN
  BY Zenon DEF SafOf, Judged
<1>3. saf.anomaly => saf \in SafRecord /\ saf.t \in Times
  <2> SUFFICES ASSUME saf.anomaly PROVE saf \in SafRecord /\ saf.t \in Times
    OBVIOUS
  <2>1. sev > 0 /\ sev \in Severities \union {0}
    BY <1>2 DEF Judged
  <2>2. clock \in Times /\ clock \in Nat
    BY ChainBounds DEF SourceTypes
  <2> QED
    BY <1>2, <2>1, <2>2, SeveritiesAssumption DEF SafOf, SafRecord
<1> HIDE DEF saf, p, h
<1>4. /\ Timed(ProcessSaf(h, saf))
      /\ Returns(h, saf) => Returned(h, saf) \in Anomaly /\ Returned(h, saf).start \in Times
  BY <1>0, <1>3, StartsStay
<1>11. \A q \in Procs : Timed(engine'[q])
  <2>1. engine' = [engine EXCEPT ![p] = ProcessSaf(h, saf)]
    BY <1>1 DEF saf
  <2>2. \A q \in Procs : Timed(engine[q])
    BY DEF SourceTypes
  <2> QED
    BY <1>0, <1>4, <2>1, <2>2
<1>5. Returns(h, saf) => ShfOf(saf) \in ShfMessage
  BY <1>4, ChainBounds DEF ShfMessage, Anomaly
<1>6. /\ clock' = clock /\ flushed' = flushed \union {c}
      /\ windows < MaxWindows /\ windows' = windows + 1
      /\ Len(toEvent) < MaxQueue
      /\ calibrated' = [calibrated EXCEPT ![c] = IF @ < CalibWindows THEN @ + 1 ELSE @]
      /\ UNCHANGED <<scenario, procRun, event, eventRows, toAlert, alert, shared, restarts>>
  BY DEF FlushWindow
<1>7. calibrated' \in [Channels -> 0 .. CalibWindows]
  <2>1. calibrated \in [Channels -> 0 .. CalibWindows] /\ CalibWindows \in Nat
    BY ChainBounds DEF SourceTypes
  <2>2. (IF calibrated[c] < CalibWindows THEN calibrated[c] + 1 ELSE calibrated[c])
          \in 0 .. CalibWindows
    BY <2>1
  <2> QED
    BY <1>6, <2>1, <2>2
<1>8. flushed' \subseteq Channels /\ windows' \in 0 .. MaxWindows
  BY <1>6, ChainBounds DEF SourceTypes
<1>9. SourceTypes'
  BY <1>6, <1>7, <1>8, <1>11 DEF SourceTypes, event
<1>10. toEvent' = toEvent \/ \E shf \in ShfMessage : toEvent' = Append(toEvent, shf)
  BY <1>1, <1>5 DEF saf
<1> HIDE DEF ShfOf
<1> QED
  BY <1>6, <1>9, <1>10

(* The other steps.                                                        *)
LEMMA SourceStep ==
  ASSUME EnginesInv, SourceTypes, [ChainNext]_vars
  PROVE  SourceTypes'
<1>0. /\ clock \in Nat /\ MaxClock \in Nat /\ MaxClock >= 1 /\ restarts \in Nat
      /\ MaxRestarts \in Nat
      /\ restarts <= MaxRestarts
      /\ procRun \in [Procs -> Nat] /\ eventRun \in Nat
  BY ChainBounds DEF SourceTypes, EnginesInv
<1> DEFINE Still == /\ UNCHANGED <<windows, calibrated, engine, procRun>>
                    /\ flushed' = flushed \/ flushed' = {}
                    /\ clock' \in Times
<1> DEFINE Runs == /\ restarts' \in 0 .. MaxRestarts /\ eventRun' \in Nat
                   /\ eventRun' <= restarts' /\ restarts <= restarts'
<1>1. ASSUME Still, Runs PROVE SourceTypes'
  <2>1. ASSUME NEW q \in Procs PROVE procRun[q] <= restarts'
    <3>1. procRun[q] <= restarts /\ restarts <= restarts' /\ restarts' \in Nat /\ procRun[q] \in Nat
      BY <1>0, <1>1 DEF SourceTypes
    <3> QED
      BY <1>0, <3>1
  <2> QED
    BY <1>1, <2>1 DEF SourceTypes
<1>2. Still /\ restarts' = restarts /\ eventRun' = eventRun => SourceTypes'
  BY <1>0, <1>1 DEF SourceTypes
<1>3. ASSUME NEW c \in Channels, FlushWindow(c) PROVE SourceTypes'
  BY <1>3, FlushStep
<1>4. ASSUME NEW i \in Ids, WriteJournal(i) PROVE SourceTypes'
  BY <1>2, <1>4 DEF SourceTypes, WriteJournal, time, proc, event
<1>5. CASE HandleShf
  BY <1>2, <1>5 DEF SourceTypes, HandleShf, time, proc
<1>6. CASE Sweep
  BY <1>2, <1>6 DEF SourceTypes, Sweep, time, proc
<1>7. CASE HandleEvent
  BY <1>2, <1>7 DEF SourceTypes, HandleEvent, time, proc, event
<1>8. CASE Tick
  BY <1>0, <1>2, <1>8 DEF Tick, Times, proc, event, SourceTypes
<1>9. ASSUME NEW p \in Procs, RestartProc(p) PROVE SourceTypes'
  <2>1. /\ engine' = [engine EXCEPT ![p] = NewEngine]
        /\ calibrated' = [c \in Channels |-> IF scenario.proc[c] = p THEN 0 ELSE calibrated[c]]
        /\ procRun' = [procRun EXCEPT ![p] = @ + 1]
        /\ restarts' = restarts + 1 /\ restarts < MaxRestarts
        /\ UNCHANGED <<clock, flushed, windows, eventRun>>
    BY <1>9 DEF RestartProc, time, event
  <2>2. restarts' \in 0 .. MaxRestarts /\ restarts' \in Nat
        /\ eventRun' \in Nat /\ eventRun' <= restarts'
    BY <1>0, <2>1 DEF SourceTypes
  <2>3. calibrated' \in [Channels -> 0 .. CalibWindows]
    BY <2>1, ChainBounds DEF SourceTypes
  <2>4. ASSUME NEW q \in Procs PROVE procRun'[q] <= restarts'
    <3>1. procRun[q] \in Nat /\ procRun[q] <= restarts
      BY <1>0 DEF SourceTypes
    <3>2. procRun'[q] = procRun[q] \/ procRun'[q] = procRun[q] + 1
      BY <1>0, <2>1
    <3> QED
      BY <1>0, <2>1, <3>1, <3>2
  <2>5. \A q \in Procs : Timed(engine'[q])
    <3>1. Timed(NewEngine)
      BY DEF Timed, NewEngine
    <3>2. engine = [q \in Procs |-> engine[q]] /\ \A q \in Procs : Timed(engine[q])
      BY DEF EnginesInv, SourceTypes
    <3> QED
      BY <2>1, <3>1, <3>2
  <2> QED
    BY <2>1, <2>2, <2>3, <2>4, <2>5 DEF SourceTypes
<1>10. CASE RestartEvent
  <2>1. Still /\ eventRun' = eventRun + 1 /\ restarts' = restarts + 1 /\ restarts < MaxRestarts
    BY <1>10 DEF RestartEvent, SourceTypes, time, proc
  <2>2. Runs
    BY <1>0, <2>1 DEF SourceTypes
  <2> QED
    BY <1>1, <2>1, <2>2
<1>11. CASE RestartAlert
  <2>1. Still /\ eventRun' = eventRun /\ restarts' = restarts + 1 /\ restarts < MaxRestarts
    BY <1>11 DEF RestartAlert, SourceTypes, time, proc, event
  <2>2. Runs
    BY <1>0, <2>1 DEF SourceTypes
  <2> QED
    BY <1>1, <2>1, <2>2
<1>12. CASE UNCHANGED vars
  BY <1>2, <1>12 DEF SourceTypes, vars, time, proc, event
<1> QED
  BY <1>3, <1>4, <1>5, <1>6, <1>7, <1>8, <1>9, <1>10, <1>11, <1>12 DEF ChainNext

-----------------------------------------------------------------------------
(* What the events do.                                                     *)

(* A sequence of the members of a set, each of them once.                  *)
LEMMA OrderFacts ==
  ASSUME NEW S, IsFiniteSet(S), NEW order \in SetToSeqs(S)
  PROVE  /\ Cardinality(S) \in Nat /\ DOMAIN order = 1 .. Cardinality(S)
         /\ \A i \in DOMAIN order : order[i] \in S
         /\ \A x \in S : \E i \in DOMAIN order : order[i] = x
<1> DEFINE n == Cardinality(S)
<1>1. n \in Nat
  BY FS_CardinalityType
<1>2. order \in [1 .. n -> S] /\ \A i, j \in 1 .. n : i # j => order[i] # order[j]
  BY DEF SetToSeqs
<1>3. order \in Injection(1 .. n, S)
  BY <1>2 DEF Injection, IsInjective
<1>4. Cardinality(1 .. n) = n /\ IsFiniteSet(1 .. n)
  <2>1. Cardinality(1 .. n) = IF 1 > n THEN 0 ELSE n - 1 + 1
    BY <1>1, FS_Interval
  <2>2. IsFiniteSet(1 .. n)
    BY <1>1, FS_Interval
  <2> HIDE DEF n
  <2> QED
    BY <1>1, <2>1, <2>2
<1>5. order \in Surjection(1 .. n, S)
  BY <1>3, <1>4, FS_Injection
<1> QED
  BY <1>1, <1>2, <1>5 DEF Surjection

(* An anomaly that tpevent takes: its event, the row, the message.         *)
LEMMA ShfEffect ==
  ASSUME EventTypes, eventRun \in Nat, HandleShf
  PROVE  \E o \in Objects, e \in Event :
           /\ open[o] # None => open[o] \in Event /\ e.id = open[o].id /\ open[o].sev <= e.sev
           /\ open' = [open EXCEPT ![o] = e]
           /\ quiet' = [quiet EXCEPT ![o] = 0]
           /\ eventRows' = Stored(eventRows, e, "ACTIVE")
           /\ EventOf(o, e, "ACTIVE") \in EventMessage
           /\ toAlert' = Append(toAlert, EventOf(o, e, "ACTIVE"))
           /\ shared' = IF open[o] = None /\ eventRows[e.id] # None
                        THEN shared \union {e.id} ELSE shared
<1> DEFINE shf == Head(toEvent)
           o == shf.obj
           e == Grouped(open[o], shf)
<1>1. shf \in ShfMessage
  BY DEF EventTypes, HandleShf
<1>2. o \in Objects /\ shf.start \in Times /\ shf.sev \in Severities
  BY <1>1 DEF ShfMessage
<1>3. open[o] \in Event \union {None}
  BY <1>2 DEF EventTypes
<1>4. CASE open[o] = None
  <2>1. e = [id |-> shf.start, sev |-> shf.sev]
    BY <1>4 DEF Grouped
  <2> QED
    BY <1>2, <1>4, <2>1 DEF Event, HandleShf, EventOf, EventMessage
<1>5. CASE open[o] # None
  <2>1. open[o] \in Event
    BY <1>3, <1>5
  <2>2. e = [open[o] EXCEPT !.sev = Larger(open[o].sev, shf.sev)]
    BY <1>5 DEF Grouped
  <2>3. open[o].sev \in Severities /\ open[o].sev \in Nat /\ shf.sev \in Nat
    BY <1>2, <2>1, ChainBounds DEF Event
  <2>4. /\ Larger(open[o].sev, shf.sev) \in Severities
        /\ open[o].sev <= Larger(open[o].sev, shf.sev)
    BY <1>2, <2>3, LargerFacts
  <2>5. e \in Event /\ e.id = open[o].id /\ e.sev = Larger(open[o].sev, shf.sev)
    BY <2>1, <2>2, <2>4 DEF Event
  <2>6. EventOf(o, e, "ACTIVE") \in EventMessage
    BY <1>2, <2>5 DEF EventOf, EventMessage, Event
  <2> HIDE DEF e
  <2>7. /\ open' = [open EXCEPT ![o] = e]
        /\ quiet' = [quiet EXCEPT ![o] = 0]
        /\ eventRows' = Stored(eventRows, e, "ACTIVE")
        /\ toAlert' = Append(toAlert, EventOf(o, e, "ACTIVE"))
        /\ shared' = IF open[o] = None /\ eventRows[e.id] # None
                     THEN shared \union {e.id} ELSE shared
    BY DEF HandleShf, e
  <2> QED
    BY <1>2, <2>1, <2>4, <2>5, <2>6, <2>7
<1> QED
  BY <1>4, <1>5

(* The events that a sweep closes: their rows and their messages.          *)
LEMMA SweepEffect ==
  ASSUME EventTypes, eventRun \in Nat, Sweep
  PROVE  LET due == {o \in Objects : Due(o)} IN
         /\ \A n \in Times :
              \/ /\ \A o \in due : open[o].id # n
                 /\ eventRows'[n] = eventRows[n]
              \/ \E o \in due :
                   /\ open[o].id = n
                   /\ eventRows'[n] = [status |-> "RESOLVED", sev |-> open[o].sev, run |-> eventRun]
         /\ DOMAIN eventRows' = Times
         /\ eventRows' = [n \in Times |-> eventRows'[n]]
         /\ toAlert' \in Seq(EventMessage)
         /\ Len(toAlert') < MaxQueue + Cardinality(Objects)
         /\ Len(toAlert') >= Len(toAlert)
         /\ \A k \in 1 .. Len(toAlert) : toAlert'[k] = toAlert[k]
         /\ \A k \in 1 .. Len(toAlert') : k > Len(toAlert) =>
              \E o \in due : toAlert'[k] = EventOf(o, open[o], "RESOLVED")
<1> DEFINE due == {o \in Objects : Due(o)}
<1>1. PICK order \in SetToSeqs(due) :
        /\ eventRows' = StoredInTurn(eventRows, order)
        /\ toAlert' = toAlert \o
             [i \in DOMAIN order |-> EventOf(order[i], open[order[i]], "RESOLVED")]
  BY DEF Sweep
<1>2. IsFiniteSet(due) /\ Cardinality(due) <= Cardinality(Objects)
  BY ChainBounds, FS_Subset
<1> HIDE DEF due
<1> DEFINE m == Cardinality(due)
<1>3. /\ m \in Nat /\ DOMAIN order = 1 .. m
      /\ \A i \in 1 .. m : order[i] \in due
      /\ \A x \in due : \E i \in 1 .. m : order[i] = x
  BY <1>2, OrderFacts
<1>4. \A o \in due : o \in Objects /\ open[o] \in Event
  BY DEF due, Due, EventTypes
<1>5. /\ open \in [Objects -> Event \union {None}]
      /\ eventRows \in [Times -> StoredEvent \union {None}]
      /\ toAlert \in Seq(EventMessage) /\ Len(toAlert) < MaxQueue /\ Len(toAlert) \in Nat
  BY DEF EventTypes, Sweep
<1> HIDE DEF m
<1>6. ASSUME NEW n \in Times
      PROVE  \/ /\ \A o \in due : open[o].id # n
                /\ eventRows'[n] = eventRows[n]
             \/ \E o \in due :
                  /\ open[o].id = n
                  /\ eventRows'[n] = [status |-> "RESOLVED", sev |-> open[o].sev, run |-> eventRun]
  <2> DEFINE these == {i \in DOMAIN order : open[order[i]].id = n}
  <2>1. eventRows'[n] = IF these = {} THEN eventRows[n]
                        ELSE Stored(eventRows, open[order[Max(these)]], "RESOLVED")[n]
    BY <1>1 DEF StoredInTurn
  <2>2. CASE these = {}
    <3>1. \A i \in 1 .. m : open[order[i]].id # n
      BY <1>3, <2>2
    <3>2. \A o \in due : open[o].id # n
      BY <1>3, <3>1
    <3> QED
      BY <2>1, <2>2, <3>2
  <2>3. CASE these # {}
    <3>1. these \subseteq Nat /\ \A i \in these : i <= m
      BY <1>3
    <3>2. Max(these) \in these
      BY <1>3, <2>3, <3>1, MaxFacts
    <3> DEFINE o == order[Max(these)]
    <3>3. o \in due /\ open[o].id = n
      BY <1>3, <3>2
    <3> HIDE DEF o
    <3>4. eventRows'[n] = Stored(eventRows, open[o], "RESOLVED")[n]
      BY <2>1, <2>3 DEF o
    <3>5. Stored(eventRows, open[o], "RESOLVED")[n]
            = [status |-> "RESOLVED", sev |-> open[o].sev, run |-> eventRun]
      BY <1>5, <3>3 DEF Stored
    <3> QED
      BY <3>3, <3>4, <3>5
  <2> HIDE DEF these
  <2> QED
    BY <2>2, <2>3
<1>7. /\ DOMAIN eventRows' = Times
      /\ eventRows' = [n \in Times |-> eventRows'[n]]
  BY <1>1 DEF StoredInTurn
<1> DEFINE told == [i \in DOMAIN order |-> EventOf(order[i], open[order[i]], "RESOLVED")]
<1>8. told \in Seq(EventMessage) /\ Len(told) = m
  <2>1. ASSUME NEW i \in 1 .. m PROVE EventOf(order[i], open[order[i]], "RESOLVED") \in EventMessage
    BY <1>3, <1>4 DEF EventOf, EventMessage, Event
  <2> QED
    BY <1>3, <2>1
<1>9. \A i \in 1 .. m : told[i] = EventOf(order[i], open[order[i]], "RESOLVED")
  BY <1>3
<1>10. toAlert' = toAlert \o told
  BY <1>1
<1> HIDE DEF told
<1>11. /\ toAlert' \in Seq(EventMessage) /\ Len(toAlert') = Len(toAlert) + m
       /\ \A k \in 1 .. Len(toAlert) : toAlert'[k] = toAlert[k]
       /\ \A k \in 1 .. Len(toAlert) + m : k > Len(toAlert) =>
            k - Len(toAlert) \in 1 .. m /\ toAlert'[k] = told[k - Len(toAlert)]
  <2> DEFINE l == Len(toAlert)
  <2>1. /\ toAlert' \in Seq(EventMessage) /\ Len(toAlert') = l + m
        /\ \A k \in 1 .. l + m :
             toAlert'[k] = IF k <= l THEN toAlert[k] ELSE told[k - l]
    <3>1. /\ toAlert \o told \in Seq(EventMessage)
          /\ Len(toAlert \o told) = Len(toAlert) + Len(told)
          /\ \A k \in 1 .. Len(toAlert) + Len(told) :
               (toAlert \o told)[k] =
                 IF k <= Len(toAlert) THEN toAlert[k] ELSE told[k - Len(toAlert)]
      BY <1>5, <1>8, ConcatFacts
    <3> QED
      BY <1>8, <1>10, <3>1
  <2>2. l \in Nat
    BY <1>5
  <2>3. \A k \in 1 .. l : k \in 1 .. l + m /\ k <= l
    BY <1>3, <2>2
  <2>4. \A k \in 1 .. l + m : k > l => k - l \in 1 .. m /\ ~(k <= l)
    BY <1>3, <2>2
  <2> HIDE DEF l
  <2>5. /\ \A k \in 1 .. l : toAlert'[k] = toAlert[k]
        /\ \A k \in 1 .. l + m : k > l =>
             k - l \in 1 .. m /\ toAlert'[k] = told[k - l]
    BY <2>1, <2>3, <2>4
  <2> QED
    BY <2>1, <2>5 DEF l
<1>12. \A k \in 1 .. Len(toAlert') : k > Len(toAlert) =>
         \E o \in due : toAlert'[k] = EventOf(o, open[o], "RESOLVED")
  <2> SUFFICES ASSUME NEW k \in 1 .. Len(toAlert'), k > Len(toAlert)
               PROVE  \E o \in due : toAlert'[k] = EventOf(o, open[o], "RESOLVED")
    OBVIOUS
  <2> DEFINE i == k - Len(toAlert)
  <2>1. i \in 1 .. m /\ toAlert'[k] = told[i]
    BY <1>11
  <2> HIDE DEF i
  <2>2. order[i] \in due /\ told[i] = EventOf(order[i], open[order[i]], "RESOLVED")
    BY <1>3, <1>9, <2>1
  <2> QED
    BY <2>1, <2>2
<1>13. /\ Len(toAlert') < MaxQueue + Cardinality(Objects) /\ Len(toAlert') >= Len(toAlert)
  BY <1>2, <1>3, <1>5, <1>11, ChainBounds DEF m
<1> QED
  BY <1>6, <1>7, <1>11, <1>12, <1>13 DEF due

-----------------------------------------------------------------------------
(* The types are kept.                                                     *)

(* The steps that tpevent and tpalert do not notice.                       *)
LEMMA EventSteps ==
  ASSUME [ChainNext]_vars
  PROVE  \/ \E c \in Channels : FlushWindow(c)
         \/ HandleShf \/ Sweep \/ HandleEvent \/ Tick \/ RestartEvent \/ RestartAlert
         \/ UNCHANGED <<toEvent, event, eventRows, toAlert, alert, shared>>
<1>1. ASSUME NEW i \in Ids, WriteJournal(i)
      PROVE  UNCHANGED <<toEvent, event, eventRows, toAlert, alert, shared>>
  BY <1>1 DEF WriteJournal
<1>2. ASSUME NEW p \in Procs, RestartProc(p)
      PROVE  UNCHANGED <<toEvent, event, eventRows, toAlert, alert, shared>>
  BY <1>2 DEF RestartProc
<1>3. CASE UNCHANGED vars
  BY <1>3 DEF vars
<1> QED
  BY <1>1, <1>2, <1>3 DEF ChainNext

(* Every step keeps the types and bounds of what tpevent works on.         *)
LEMMA EventTypesKeep ==
  ASSUME EnginesInv, SourceTypes, EventTypes, [ChainNext]_vars
  PROVE  EventTypes'
<1>0. /\ toEvent \in Seq(ShfMessage) /\ Len(toEvent) <= MaxQueue /\ Len(toEvent) \in Nat
      /\ toAlert \in Seq(EventMessage) /\ Len(toAlert) < MaxQueue + Cardinality(Objects)
      /\ Len(toAlert) \in Nat
      /\ MaxQueue \in Nat /\ MaxQueue >= 1 /\ Cardinality(Objects) \in Nat
      /\ eventRun \in Nat /\ Quiet \in Nat
  BY ChainBounds DEF EventTypes, SourceTypes
<1>1. ASSUME NEW c \in Channels, FlushWindow(c) PROVE EventTypes'
  <2>1. /\ toEvent' = toEvent \/ \E shf \in ShfMessage : toEvent' = Append(toEvent, shf)
        /\ Len(toEvent) < MaxQueue
        /\ UNCHANGED <<open, quiet, eventRun, eventRows, toAlert, shared>>
    BY <1>1, FlushStep DEF event
  <2>2. toEvent' \in Seq(ShfMessage) /\ Len(toEvent') <= MaxQueue
    BY <1>0, <2>1
  <2> QED
    BY <2>1, <2>2 DEF EventTypes
<1>2. CASE HandleShf
  <2>1. PICK o \in Objects, e \in Event :
          /\ open' = [open EXCEPT ![o] = e]
          /\ quiet' = [quiet EXCEPT ![o] = 0]
          /\ eventRows' = Stored(eventRows, e, "ACTIVE")
          /\ EventOf(o, e, "ACTIVE") \in EventMessage
          /\ toAlert' = Append(toAlert, EventOf(o, e, "ACTIVE"))
          /\ shared' = IF open[o] = None /\ eventRows[e.id] # None
                       THEN shared \union {e.id} ELSE shared
    BY <1>0, <1>2, ShfEffect
  <2>2. /\ toEvent # << >> /\ Len(toAlert) < MaxQueue /\ toEvent' = Tail(toEvent)
        /\ eventRun' = eventRun
    BY <1>2 DEF HandleShf
  <2>3. toEvent' \in Seq(ShfMessage) /\ Len(toEvent') <= MaxQueue
    BY <1>0, <2>2
  <2>4. toAlert' \in Seq(EventMessage) /\ Len(toAlert') = Len(toAlert) + 1
    BY <1>0, <2>1
  <2>5. Len(toAlert') < MaxQueue + Cardinality(Objects)
    <3>1. Cardinality(Objects) # 0
      BY <2>1, ChainBounds, FS_EmptySet
    <3> QED
      BY <1>0, <2>2, <2>4, <3>1
  <2>6. open' \in [Objects -> Event \union {None}] /\ quiet' \in [Objects -> 0 .. Quiet + 1]
    BY <1>0, <2>1 DEF EventTypes
  <2>7. e.id \in Times /\ e.sev \in Severities
    BY DEF Event
  <2>8. [status |-> "ACTIVE", sev |-> e.sev, run |-> eventRun] \in StoredEvent
    BY <1>0, <2>7 DEF StoredEvent
  <2>9. eventRows' = [eventRows EXCEPT ![e.id] =
                        [status |-> "ACTIVE", sev |-> e.sev, run |-> eventRun]]
    BY <2>1 DEF Stored
  <2>10. /\ eventRows' \in [Times -> StoredEvent \union {None}]
         /\ \A n \in Times : eventRows'[n] # None => eventRows'[n].run <= eventRun
    BY <1>0, <2>7, <2>8, <2>9 DEF EventTypes
  <2>11. shared' \subseteq Times
    BY <2>1, <2>7 DEF EventTypes
  <2> QED
    BY <2>2, <2>3, <2>4, <2>5, <2>6, <2>10, <2>11 DEF EventTypes
<1>3. CASE Sweep
  <2> DEFINE due == {o \in Objects : Due(o)}
  <2>1. /\ \A n \in Times :
             \/ eventRows'[n] = eventRows[n]
             \/ \E o \in due :
                  eventRows'[n] = [status |-> "RESOLVED", sev |-> open[o].sev, run |-> eventRun]
        /\ eventRows' = [n \in Times |-> eventRows'[n]]
        /\ toAlert' \in Seq(EventMessage)
        /\ Len(toAlert') < MaxQueue + Cardinality(Objects)
    BY <1>0, <1>3, SweepEffect
  <2>2. /\ open' = [o \in Objects |-> IF o \in due THEN None ELSE open[o]]
        /\ quiet' = [o \in Objects |-> IF o \in due THEN 0 ELSE quiet[o]]
        /\ UNCHANGED <<toEvent, eventRun, shared>>
    BY <1>3 DEF Sweep
  <2>3. \A o \in due : open[o].sev \in Severities
    BY DEF Due, EventTypes, Event
  <2>4. open' \in [Objects -> Event \union {None}]
    BY <2>2 DEF EventTypes
  <2>5. quiet' \in [Objects -> 0 .. Quiet + 1]
    BY <1>0, <2>2 DEF EventTypes
  <2>6. ASSUME NEW n \in Times
        PROVE  /\ eventRows'[n] \in StoredEvent \union {None}
               /\ eventRows'[n] # None => eventRows'[n].run <= eventRun
    <3>1. CASE eventRows'[n] = eventRows[n]
      BY <3>1 DEF EventTypes
    <3>2. ASSUME NEW o \in due,
                 eventRows'[n] = [status |-> "RESOLVED", sev |-> open[o].sev, run |-> eventRun]
          PROVE  eventRows'[n] \in StoredEvent /\ eventRows'[n].run = eventRun
      BY <1>0, <2>3, <3>2 DEF StoredEvent
    <3> QED
      BY <1>0, <2>1, <3>1, <3>2
  <2>7. eventRows' \in [Times -> StoredEvent \union {None}]
    BY <2>1, <2>6
  <2> HIDE DEF due
  <2> QED
    BY <2>1, <2>2, <2>4, <2>5, <2>6, <2>7 DEF EventTypes
<1>4. CASE HandleEvent
  <2>1. /\ toAlert # << >> /\ toAlert' = Tail(toAlert)
        /\ UNCHANGED <<toEvent, open, quiet, eventRun, eventRows, shared>>
    BY <1>4 DEF HandleEvent, event
  <2>2. toAlert' \in Seq(EventMessage) /\ Len(toAlert') < MaxQueue + Cardinality(Objects)
    BY <1>0, <2>1
  <2> QED
    BY <2>1, <2>2 DEF EventTypes
<1>5. CASE Tick
  <2>1. /\ quiet' = [o \in Objects |-> IF open[o] # None /\ quiet[o] <= Quiet
                                       THEN quiet[o] + 1 ELSE quiet[o]]
        /\ UNCHANGED <<toEvent, open, eventRun, eventRows, toAlert, shared>>
    BY <1>5 DEF Tick
  <2>2. quiet' \in [Objects -> 0 .. Quiet + 1]
    BY <1>0, <2>1 DEF EventTypes
  <2> QED
    BY <2>1, <2>2 DEF EventTypes
<1>6. CASE RestartEvent
  <2>1. /\ eventRun' = eventRun + 1 /\ open' = [o \in Objects |-> None]
        /\ quiet' = [o \in Objects |-> 0] /\ toEvent' = << >>
        /\ UNCHANGED <<eventRows, toAlert, shared>>
    BY <1>6 DEF RestartEvent
  <2>2. \A n \in Times : eventRows[n] # None => eventRows[n].run <= eventRun + 1
    <3> SUFFICES ASSUME NEW n \in Times, eventRows[n] # None
                 PROVE  eventRows[n].run <= eventRun + 1
      OBVIOUS
    <3>1. eventRows[n].run \in Nat /\ eventRows[n].run <= eventRun
      BY DEF EventTypes, StoredEvent
    <3> QED
      BY <1>0, <3>1
  <2>3. /\ open' \in [Objects -> Event \union {None}] /\ quiet' \in [Objects -> 0 .. Quiet + 1]
        /\ toEvent' \in Seq(ShfMessage) /\ Len(toEvent') <= MaxQueue
    BY <1>0, <2>1
  <2> QED
    BY <2>1, <2>2, <2>3 DEF EventTypes
<1>7. CASE RestartAlert
  <2>1. toAlert' = << >> /\ UNCHANGED <<toEvent, open, quiet, eventRun, eventRows, shared>>
    BY <1>7 DEF RestartAlert, event
  <2>2. toAlert' \in Seq(EventMessage) /\ Len(toAlert') < MaxQueue + Cardinality(Objects)
    BY <1>0, <2>1
  <2> QED
    BY <2>1, <2>2 DEF EventTypes
<1>8. CASE UNCHANGED <<toEvent, event, eventRows, toAlert, alert, shared>>
  BY <1>8 DEF EventTypes, event
<1> QED
  BY <1>1, <1>2, <1>3, <1>4, <1>5, <1>6, <1>7, <1>8, EventSteps

(* What a restart of tpalert remembers of the messages it loses.           *)
LEMMA LostFacts ==
  ASSUME EventTypes, AlertTypes, NEW o \in Objects, NEW n \in Times
  PROVE  LET lost == {m \in ToSet(toAlert) : m.obj = o /\ m.id = n}
             all  == {answered[o][n]} \union {m.sev : m \in lost}
         IN  /\ Max(all) \in Nat /\ answered[o][n] <= Max(all)
             /\ \A k \in DOMAIN toAlert :
                  toAlert[k].obj = o /\ toAlert[k].id = n => toAlert[k].sev <= Max(all)
<1> DEFINE lost == {m \in ToSet(toAlert) : m.obj = o /\ m.id = n}
           all  == {answered[o][n]} \union {m.sev : m \in lost}
           sevs == [k \in 1 .. Len(toAlert) |-> toAlert[k].sev]
<1>1. /\ toAlert \in Seq(EventMessage) /\ Len(toAlert) \in Nat
      /\ DOMAIN toAlert = 1 .. Len(toAlert)
      /\ \A k \in 1 .. Len(toAlert) : toAlert[k] \in EventMessage
  BY DEF EventTypes
<1>2. \A k \in 1 .. Len(toAlert) : toAlert[k].sev \in Nat
  BY <1>1, ChainBounds DEF EventMessage
<1>3. sevs \in Seq(Nat) /\ Len(sevs) = Len(toAlert)
  BY <1>1, <1>2
<1>4. PICK b \in Nat : \A k \in 1 .. Len(sevs) : sevs[k] <= b
  BY <1>3, SequenceBounded
<1>5. answered[o][n] \in Nat
  BY DEF AlertTypes
<1>6. ASSUME NEW m \in lost
      PROVE  m.sev \in Nat /\ m.sev <= b
  <2>1. PICK k \in 1 .. Len(toAlert) : m = toAlert[k]
    BY <1>1, <1>6 DEF ToSet
  <2> QED
    BY <1>2, <1>3, <1>4, <2>1
<1> HIDE DEF lost
<1>7. all \subseteq Nat /\ all # {} /\ answered[o][n] \in all
  BY <1>5, <1>6
<1>8. PICK c \in Nat : b <= c /\ answered[o][n] <= c
  BY <1>5
<1>9. \A i \in all : i <= c
  <2> SUFFICES ASSUME NEW m \in lost PROVE m.sev <= c
    BY <1>8
  <2> QED
    BY <1>6, <1>8
<1>10. Max(all) \in all /\ \A i \in all : i <= Max(all)
  BY <1>7, <1>9, MaxFacts
<1>11. ASSUME NEW k \in DOMAIN toAlert, toAlert[k].obj = o, toAlert[k].id = n
       PROVE  toAlert[k].sev \in all
  <2>1. toAlert[k] \in lost
    BY <1>1, <1>11 DEF lost, ToSet
  <2> QED
    BY <2>1
<1> HIDE DEF all
<1>12. Max(all) \in Nat
  BY <1>7, <1>10
<1> QED
  BY <1>7, <1>10, <1>11, <1>12 DEF all, lost

(* Every step keeps the types of what tpalert works on.                    *)
LEMMA AlertTypesKeep ==
  ASSUME SourceTypes, EventTypes, AlertTypes, [ChainNext]_vars
  PROVE  AlertTypes'
<1>1. CASE HandleEvent
  <2> DEFINE m == Head(toAlert)
  <2>1. m \in EventMessage
    BY <1>1 DEF HandleEvent, EventTypes
  <2> HIDE DEF m
  <2>2. m.obj \in Objects /\ m.id \in Times /\ m.sev \in Severities /\ m.sev \in Nat
    BY <2>1, ChainBounds DEF EventMessage
  <2>3. CASE UNCHANGED alert
    BY <2>3 DEF alert, AlertTypes
  <2>4. CASE /\ answered' = [answered EXCEPT ![m.obj][m.id] = Larger(@, m.sev)]
             /\ \/ UNCHANGED <<alerted, cool>>
                \/ /\ alerted' = [alerted EXCEPT ![m.id] = m.sev]
                   /\ cool' = [cool EXCEPT ![m.obj] = 0]
    <3>1. answered[m.obj][m.id] \in Nat
      BY <2>2 DEF AlertTypes
    <3>2. Larger(answered[m.obj][m.id], m.sev) \in Nat
      BY <2>2, <3>1, LargerFacts
    <3>3. answered' \in [Objects -> [Times -> Nat]]
      BY <2>2, <2>4, <3>2 DEF AlertTypes
    <3>4. alerted' \in [Times -> Severities \union {0}] /\ cool' \in [Objects -> 0 .. Cooldown]
      BY <2>2, <2>4, ChainBounds DEF AlertTypes
    <3> QED
      BY <3>3, <3>4 DEF AlertTypes
  <2> QED
    BY <1>1, <2>3, <2>4 DEF HandleEvent, m
<1>2. CASE Tick
  <2>1. /\ cool' = [o \in Objects |-> IF cool[o] < Cooldown THEN cool[o] + 1 ELSE cool[o]]
        /\ UNCHANGED <<alerted, answered>>
    BY <1>2 DEF Tick
  <2>2. cool' \in [Objects -> 0 .. Cooldown]
    BY <2>1, ChainBounds DEF AlertTypes
  <2> QED
    BY <2>1, <2>2 DEF AlertTypes
<1>3. CASE RestartAlert
  <2> DEFINE all(o, n) ==
        {answered[o][n]} \union {m.sev : m \in {x \in ToSet(toAlert) : x.obj = o /\ x.id = n}}
  <2>1. \A o \in Objects, n \in Times : Max(all(o, n)) \in Nat
    BY LostFacts
  <2>2. answered' = [o \in Objects |-> [n \in Times |-> Max(all(o, n))]]
    BY <1>3 DEF RestartAlert
  <2> HIDE DEF all
  <2>3. answered' \in [Objects -> [Times -> Nat]]
    BY <2>1, <2>2
  <2>4. alerted' = [n \in Times |-> 0] /\ cool' = [o \in Objects |-> Cooldown]
    BY <1>3 DEF RestartAlert
  <2>5. alerted' \in [Times -> Severities \union {0}] /\ cool' \in [Objects -> 0 .. Cooldown]
    BY <2>4, ChainBounds
  <2> QED
    BY <2>3, <2>5 DEF AlertTypes
<1>4. CASE UNCHANGED alert
  BY <1>4 DEF alert, AlertTypes
<1>5. ASSUME NEW c \in Channels, FlushWindow(c) PROVE UNCHANGED alert
  BY <1>5 DEF FlushWindow
<1>6. HandleShf \/ Sweep \/ RestartEvent => UNCHANGED alert
  BY DEF HandleShf, Sweep, RestartEvent
<1> QED
  BY <1>1, <1>2, <1>3, <1>4, <1>5, <1>6, EventSteps

-----------------------------------------------------------------------------
(* The events table.                                                       *)

(* An open event has its row; it is the event of that row, and the only    *)
(* open event of its number, unless the number is shared.                  *)
OpenEvents ==
  /\ \A o \in Objects : open[o] # None => eventRows[open[o].id] # None
  /\ \A o \in Objects : open[o] # None /\ open[o].id \notin shared =>
       eventRows[open[o].id] = [status |-> "ACTIVE", sev |-> open[o].sev, run |-> eventRun]
  /\ \A o, p \in Objects :
       open[o] # None /\ open[p] # None /\ open[o].id = open[p].id =>
         o = p \/ open[o].id \in shared

EventInv == OpenEvents /\ EventRowsFollow

(* An anomaly that tpevent takes gives its event a number that no other    *)
(* open event has, or the number is shared from now on.                    *)
LEMMA OtherEvents ==
  ASSUME OpenEvents, NEW o \in Objects, NEW e,
         open[o] # None => e.id = open[o].id,
         shared' = IF open[o] = None /\ eventRows[e.id] # None
                   THEN shared \union {e.id} ELSE shared,
         NEW x \in Objects, x # o, open[x] # None, open[x].id \notin shared'
  PROVE  open[x].id # e.id /\ open[x].id \notin shared
<1>1. open[x].id \notin shared
  OBVIOUS
<1>2. ASSUME open[x].id = e.id PROVE FALSE
  <2>1. CASE open[o] # None
    BY <1>1, <1>2, <2>1 DEF OpenEvents
  <2>2. CASE open[o] = None
    <3>1. eventRows[e.id] # None
      BY <1>2 DEF OpenEvents
    <3> QED
      BY <1>2, <2>2, <3>1
  <2> QED
    BY <2>1, <2>2
<1> QED
  BY <1>1, <1>2

(* An anomaly that tpevent takes: the row of its event is the event, and   *)
(* no other row is touched.                                                *)
LEMMA ShfKeepsEvents ==
  ASSUME EventTypes, eventRun \in Nat, EventInv, HandleShf
  PROVE  EventInv'
<1>1. PICK o \in Objects, e \in Event :
        /\ open[o] # None => open[o] \in Event /\ e.id = open[o].id
        /\ open' = [open EXCEPT ![o] = e]
        /\ eventRows' = Stored(eventRows, e, "ACTIVE")
        /\ shared' = IF open[o] = None /\ eventRows[e.id] # None
                     THEN shared \union {e.id} ELSE shared
  BY ShfEffect
<1>2. eventRun' = eventRun
  BY DEF HandleShf
<1> DEFINE row == [status |-> "ACTIVE", sev |-> e.sev, run |-> eventRun]
<1>3. /\ e.id \in Times /\ e.sev \in Severities /\ e = [id |-> e.id, sev |-> e.sev]
      /\ e # None
  BY Some DEF Event
<1>4. row \in StoredEvent /\ row # None /\ row.status = "ACTIVE" /\ row.sev = e.sev
  BY <1>3, Some DEF StoredEvent
<1>5. /\ eventRows'[e.id] = row
      /\ \A n \in Times : n # e.id => eventRows'[n] = eventRows[n]
  BY <1>1, <1>3 DEF Stored, EventTypes
<1>6. /\ open'[o] = e
      /\ \A x \in Objects : x # o => open'[x] = open[x]
  BY <1>1 DEF EventTypes
<1> HIDE DEF row
<1>7. \A x \in Objects : open[x] # None => open[x].id \in Times
  BY DEF EventTypes, Event
<1>8. ASSUME NEW x \in Objects, x # o, open[x] # None, open[x].id \notin shared'
      PROVE  open[x].id # e.id /\ open[x].id \notin shared
  BY <1>1, <1>8, OtherEvents DEF EventInv
<1>9. \A x \in Objects : open'[x] # None => eventRows'[open'[x].id] # None
  BY <1>3, <1>4, <1>5, <1>6, <1>7 DEF EventInv, OpenEvents
<1>10. ASSUME NEW x \in Objects, open'[x] # None, open'[x].id \notin shared'
       PROVE  eventRows'[open'[x].id]
                = [status |-> "ACTIVE", sev |-> open'[x].sev, run |-> eventRun']
  <2>1. CASE x = o
    BY <1>2, <1>5, <1>6, <2>1 DEF row
  <2>2. CASE x # o
    <3>1. open'[x] = open[x] /\ open[x].id # e.id /\ open[x].id \notin shared
      BY <1>6, <1>8, <1>10, <2>2
    <3>2. eventRows'[open[x].id] = eventRows[open[x].id]
      BY <1>5, <1>7, <1>10, <3>1
    <3> QED
      BY <1>2, <1>10, <3>1, <3>2 DEF EventInv, OpenEvents
  <2> QED
    BY <2>1, <2>2
<1>11. ASSUME NEW x \in Objects, NEW y \in Objects, open'[x] # None, open'[y] # None,
              open'[x].id = open'[y].id, x # y, open'[x].id \notin shared'
       PROVE  FALSE
  <2>1. CASE x = o
    BY <1>6, <1>8, <1>11, <2>1
  <2>2. CASE y = o
    BY <1>6, <1>8, <1>11, <2>2
  <2>3. CASE x # o /\ y # o
    BY <1>6, <1>8, <1>11, <2>3 DEF EventInv, OpenEvents
  <2> QED
    BY <2>1, <2>2, <2>3
<1>12. OpenEvents'
  BY <1>9, <1>10, <1>11 DEF OpenEvents
<1>13. ASSUME NEW n \in Times \ shared', eventRows'[n] # None, eventRows'[n].run = eventRun'
       PROVE  IF eventRows'[n].status = "ACTIVE"
              THEN \E x \in Objects : open'[x] = [id |-> n, sev |-> eventRows'[n].sev]
              ELSE \A x \in Objects : open'[x] # None => open'[x].id # n
  <2>1. CASE n = e.id
    BY <1>3, <1>4, <1>5, <1>6, <2>1
  <2>2. CASE n # e.id
    <3>1. eventRows'[n] = eventRows[n] /\ n \notin shared
      BY <1>1, <1>5, <1>13, <2>2
    <3>2. IF eventRows[n].status = "ACTIVE"
          THEN \E x \in Objects : open[x] = [id |-> n, sev |-> eventRows[n].sev]
          ELSE \A x \in Objects : open[x] # None => open[x].id # n
      BY <1>2, <1>13, <3>1 DEF EventInv, EventRowsFollow
    <3>3. CASE eventRows[n].status = "ACTIVE"
      <4>1. PICK x \in Objects : open[x] = [id |-> n, sev |-> eventRows[n].sev]
        BY <3>2, <3>3
      <4>2. open[x].id = n /\ open[x] # None
        <5>1. eventRows[n].sev \in Severities
          BY <1>13, <3>1 DEF EventTypes, StoredEvent
        <5>2. open[x] \in Event
          BY <4>1, <5>1 DEF Event
        <5> QED
          BY <4>1, <5>2, Some
      <4>3. x # o
        BY <1>1, <2>2, <4>2
      <4> QED
        BY <1>6, <3>1, <3>3, <4>1, <4>3
    <3>4. CASE eventRows[n].status # "ACTIVE"
      BY <1>6, <2>2, <3>1, <3>2, <3>4
    <3> QED
      BY <3>3, <3>4
  <2> QED
    BY <2>1, <2>2
<1>14. EventRowsFollow'
  BY <1>13 DEF EventRowsFollow
<1> QED
  BY <1>12, <1>14 DEF EventInv

(* A sweep writes the rows of the events it closes; an event that stays    *)
(* open has another number than these, or a shared one.                    *)
LEMMA SweepKeepsEvents ==
  ASSUME EventTypes, eventRun \in Nat, EventInv, Sweep
  PROVE  EventInv'
<1> DEFINE due == {o \in Objects : Due(o)}
<1>1. \A n \in Times :
        \/ /\ \A o \in due : open[o].id # n
           /\ eventRows'[n] = eventRows[n]
        \/ \E o \in due :
             /\ open[o].id = n
             /\ eventRows'[n] = [status |-> "RESOLVED", sev |-> open[o].sev, run |-> eventRun]
  BY SweepEffect
<1>2. /\ open' = [o \in Objects |-> IF o \in due THEN None ELSE open[o]]
      /\ eventRun' = eventRun /\ shared' = shared
  BY DEF Sweep
<1>3. \A o \in due : o \in Objects /\ open[o] # None /\ open[o] \in Event
  BY DEF Due, EventTypes
<1> HIDE DEF due
<1>4. \A x \in Objects : open'[x] # None => open'[x] = open[x] /\ x \notin due
  BY <1>2
<1>5. \A x \in Objects : open[x] # None => open[x].id \in Times
  BY DEF EventTypes, Event
<1>6. ASSUME NEW o \in due
      PROVE  /\ [status |-> "RESOLVED", sev |-> open[o].sev, run |-> eventRun] \in StoredEvent
             /\ [status |-> "RESOLVED", sev |-> open[o].sev, run |-> eventRun] # None
  BY <1>3, Some DEF Event, StoredEvent
<1>7. ASSUME NEW n \in Times, eventRows[n] # None
      PROVE  eventRows'[n] # None
  <2>1. ASSUME NEW o \in due,
               eventRows'[n] = [status |-> "RESOLVED", sev |-> open[o].sev, run |-> eventRun]
        PROVE  eventRows'[n] # None
    BY <1>6, <2>1, Zenon
  <2> QED
    BY <1>1, <1>7, <2>1
<1>8. ASSUME NEW x \in Objects, x \notin due, open[x] # None, open[x].id \notin shared,
             NEW o \in due
      PROVE  open[o].id # open[x].id
  BY <1>3, <1>8 DEF EventInv, OpenEvents
<1>9. \A x \in Objects : open'[x] # None => eventRows'[open'[x].id] # None
  BY <1>4, <1>5, <1>7 DEF EventInv, OpenEvents
<1>10. ASSUME NEW x \in Objects, open'[x] # None, open'[x].id \notin shared'
       PROVE  eventRows'[open'[x].id]
                = [status |-> "ACTIVE", sev |-> open'[x].sev, run |-> eventRun']
  <2>1. open'[x] = open[x] /\ x \notin due /\ open[x] # None /\ open[x].id \notin shared
    BY <1>2, <1>4, <1>10
  <2>2. eventRows'[open[x].id] = eventRows[open[x].id]
    BY <1>1, <1>5, <1>8, <2>1
  <2> QED
    BY <1>2, <2>1, <2>2 DEF EventInv, OpenEvents
<1>11. ASSUME NEW x \in Objects, NEW y \in Objects, open'[x] # None, open'[y] # None,
              open'[x].id = open'[y].id
       PROVE  x = y \/ open'[x].id \in shared'
  BY <1>2, <1>4, <1>11 DEF EventInv, OpenEvents
<1>12. OpenEvents'
  BY <1>9, <1>10, <1>11 DEF OpenEvents
<1>13. ASSUME NEW n \in Times \ shared', eventRows'[n] # None, eventRows'[n].run = eventRun'
       PROVE  IF eventRows'[n].status = "ACTIVE"
              THEN \E x \in Objects : open'[x] = [id |-> n, sev |-> eventRows'[n].sev]
              ELSE \A x \in Objects : open'[x] # None => open'[x].id # n
  <2>1. ASSUME NEW o \in due, open[o].id = n,
               eventRows'[n] = [status |-> "RESOLVED", sev |-> open[o].sev, run |-> eventRun]
        PROVE  /\ eventRows'[n].status # "ACTIVE"
               /\ \A x \in Objects : open'[x] # None => open'[x].id # n
    BY <1>2, <1>4, <1>8, <2>1
  <2>2. CASE (\A o \in due : open[o].id # n) /\ eventRows'[n] = eventRows[n]
    <3>1. IF eventRows[n].status = "ACTIVE"
          THEN \E x \in Objects : open[x] = [id |-> n, sev |-> eventRows[n].sev]
          ELSE \A x \in Objects : open[x] # None => open[x].id # n
      BY <1>2, <1>13, <2>2 DEF EventInv, EventRowsFollow
    <3>2. CASE eventRows[n].status = "ACTIVE"
      <4>1. PICK x \in Objects : open[x] = [id |-> n, sev |-> eventRows[n].sev]
        BY <3>1, <3>2
      <4>2. x \notin due
        BY <2>2, <4>1
      <4> QED
        BY <1>2, <2>2, <3>2, <4>1, <4>2
    <3>3. CASE eventRows[n].status # "ACTIVE"
      BY <1>4, <2>2, <3>1, <3>3
    <3> QED
      BY <3>2, <3>3
  <2>3. CASE eventRows'[n].status = "ACTIVE"
    BY <1>1, <2>1, <2>2, <2>3
  <2>4. CASE eventRows'[n].status # "ACTIVE"
    BY <1>1, <2>1, <2>2, <2>4
  <2> QED
    BY <2>3, <2>4
<1>14. EventRowsFollow'
  BY <1>13 DEF EventRowsFollow
<1> QED
  BY <1>12, <1>14 DEF EventInv

(* Every step keeps the events table; after a restart of tpevent no row is *)
(* of its run.                                                             *)
LEMMA EventKeeps ==
  ASSUME EnginesInv, SourceTypes, EventTypes, EventInv, [ChainNext]_vars
  PROVE  EventInv'
<1>0. eventRun \in Nat
  BY DEF SourceTypes
<1>1. CASE UNCHANGED <<open, eventRun, eventRows, shared>>
  BY <1>1 DEF EventInv, OpenEvents, EventRowsFollow
<1>2. CASE RestartEvent
  <2>1. /\ open' = [o \in Objects |-> None] /\ eventRun' = eventRun + 1
        /\ eventRows' = eventRows
    BY <1>2 DEF RestartEvent
  <2>2. \A n \in Times : eventRows'[n] # None => eventRows'[n].run # eventRun'
    <3> SUFFICES ASSUME NEW n \in Times, eventRows[n] # None
                 PROVE  eventRows[n].run # eventRun + 1
      BY <2>1
    <3>1. eventRows[n].run \in Nat /\ eventRows[n].run <= eventRun
      BY DEF EventTypes, StoredEvent
    <3> QED
      BY <1>0, <3>1
  <2> QED
    BY <2>1, <2>2 DEF EventInv, OpenEvents, EventRowsFollow
<1>3. ASSUME NEW c \in Channels, FlushWindow(c)
      PROVE  UNCHANGED <<open, eventRun, eventRows, shared>>
  BY <1>3 DEF FlushWindow, event
<1>4. HandleEvent \/ Tick \/ RestartAlert => UNCHANGED <<open, eventRun, eventRows, shared>>
  BY DEF HandleEvent, Tick, RestartAlert, event
<1>5. UNCHANGED <<toEvent, event, eventRows, toAlert, alert, shared>>
        => UNCHANGED <<open, eventRun, eventRows, shared>>
  BY DEF event
<1> QED
  BY <1>0, <1>1, <1>2, <1>3, <1>4, <1>5, ShfKeepsEvents, SweepKeepsEvents, EventSteps

-----------------------------------------------------------------------------
(* The alerts.                                                             *)

(* A number no event has had has neither alerts nor messages.  The number  *)
(* of an open event that is not shared is told for its object only, and    *)
(* what was alerted under it was alerted for that object.                  *)
AlertedNumbers ==
  /\ \A n \in Times : eventRows[n] = None =>
       alerted[n] = 0 /\ \A k \in DOMAIN toAlert : toAlert[k].id # n
  /\ \A o \in Objects : open[o] # None /\ open[o].id \notin shared =>
       /\ \A k \in DOMAIN toAlert : toAlert[k].id = open[o].id => toAlert[k].obj = o
       /\ alerted[open[o].id] <= answered[o][open[o].id]

AlertInv == AlertedNumbers /\ AlertedOrExcused

(* An event that is opened or grows has a message that tells its severity. *)
LEMMA ShfKeepsAlerts ==
  ASSUME EventTypes, AlertTypes, eventRun \in Nat, OpenEvents, AlertInv, HandleShf
  PROVE  AlertInv'
<1>1. PICK o \in Objects, e \in Event :
        /\ open[o] # None => open[o] \in Event /\ e.id = open[o].id
        /\ open' = [open EXCEPT ![o] = e]
        /\ eventRows' = Stored(eventRows, e, "ACTIVE")
        /\ EventOf(o, e, "ACTIVE") \in EventMessage
        /\ toAlert' = Append(toAlert, EventOf(o, e, "ACTIVE"))
        /\ shared' = IF open[o] = None /\ eventRows[e.id] # None
                     THEN shared \union {e.id} ELSE shared
  BY ShfEffect
<1>2. alerted' = alerted /\ answered' = answered
  BY DEF HandleShf, alert
<1> DEFINE row == [status |-> "ACTIVE", sev |-> e.sev, run |-> eventRun]
           l   == Len(toAlert)
<1>3. e.id \in Times /\ e.sev \in Severities /\ e # None
  BY Some DEF Event
<1>4. row # None
  BY <1>3, Some DEF StoredEvent
<1>5. /\ eventRows'[e.id] = row
      /\ \A n \in Times : n # e.id => eventRows'[n] = eventRows[n]
  BY <1>1, <1>3 DEF Stored, EventTypes
<1>6. /\ open'[o] = e
      /\ \A x \in Objects : x # o => open'[x] = open[x]
  BY <1>1 DEF EventTypes
<1>7. /\ l \in Nat /\ DOMAIN toAlert = 1 .. l /\ DOMAIN toAlert' = 1 .. l + 1
      /\ \A k \in 1 .. l : toAlert'[k] = toAlert[k]
      /\ toAlert'[l + 1] = EventOf(o, e, "ACTIVE")
  BY <1>1 DEF EventTypes
<1>8. EventOf(o, e, "ACTIVE").id = e.id /\ EventOf(o, e, "ACTIVE").obj = o
  BY DEF EventOf
<1>9. \A k \in 1 .. l + 1 : k \in 1 .. l \/ k = l + 1
  BY <1>7
<1>10. \A k \in 1 .. l : k \in 1 .. l + 1
  BY <1>7
<1>11. l + 1 \in 1 .. l + 1
  BY <1>7
<1> HIDE DEF row, l
<1>12. ASSUME NEW n \in Times, eventRows'[n] = None
       PROVE  alerted'[n] = 0 /\ \A k \in DOMAIN toAlert' : toAlert'[k].id # n
  <2>1. n # e.id /\ eventRows[n] = None
    BY <1>4, <1>5, <1>12
  <2>2. alerted[n] = 0 /\ \A k \in 1 .. l : toAlert[k].id # n
    BY <1>7, <2>1 DEF AlertInv, AlertedNumbers
  <2> QED
    BY <1>2, <1>7, <1>8, <1>9, <2>1, <2>2
<1>13. ASSUME NEW x \in Objects, open'[x] # None, open'[x].id \notin shared'
       PROVE  /\ \A k \in DOMAIN toAlert' :
                   toAlert'[k].id = open'[x].id => toAlert'[k].obj = x
              /\ alerted'[open'[x].id] <= answered'[x][open'[x].id]
  <2>1. CASE x = o
    <3>1. open'[x] = e /\ e.id \notin shared
      BY <1>1, <1>6, <1>13, <2>1
    <3>2. /\ \A k \in 1 .. l : toAlert[k].id = e.id => toAlert[k].obj = o
          /\ alerted[e.id] <= answered[o][e.id]
      <4>1. CASE open[o] # None
        BY <1>1, <1>7, <3>1, <4>1 DEF AlertInv, AlertedNumbers
      <4>2. CASE open[o] = None
        <5>1. eventRows[e.id] = None
          BY <1>1, <1>6, <1>13, <2>1, <4>2
        <5>2. alerted[e.id] = 0 /\ \A k \in 1 .. l : toAlert[k].id # e.id
          BY <1>3, <1>7, <5>1 DEF AlertInv, AlertedNumbers
        <5>3. answered[o][e.id] \in Nat
          BY <1>3 DEF AlertTypes
        <5> QED
          BY <5>2, <5>3
      <4> QED
        BY <4>1, <4>2
    <3> QED
      BY <1>2, <1>7, <1>8, <1>9, <2>1, <3>1, <3>2
  <2>2. CASE x # o
    <3>1. open'[x] = open[x] /\ open[x] # None /\ open[x].id \notin shared'
      BY <1>6, <1>13, <2>2
    <3>2. open[x].id # e.id /\ open[x].id \notin shared
      BY <1>1, <2>2, <3>1, OtherEvents
    <3>3. /\ \A k \in 1 .. l : toAlert[k].id = open[x].id => toAlert[k].obj = x
          /\ alerted[open[x].id] <= answered[x][open[x].id]
      BY <1>7, <3>1, <3>2 DEF AlertInv, AlertedNumbers
    <3> QED
      BY <1>2, <1>7, <1>8, <1>9, <3>1, <3>2, <3>3
  <2> QED
    BY <2>1, <2>2
<1>14. ASSUME NEW x \in Objects, open'[x] # None
       PROVE  \/ open'[x].sev < MinSeverity
              \/ \E k \in DOMAIN toAlert' : toAlert'[k] = EventOf(x, open'[x], "ACTIVE")
              \/ open'[x].id \in shared'
              \/ answered'[x][open'[x].id] >= open'[x].sev
  <2>1. CASE x = o
    BY <1>6, <1>7, <1>11, <2>1
  <2>2. CASE x # o
    <3>1. open'[x] = open[x] /\ open[x] # None
      BY <1>6, <1>14, <2>2
    <3>2. \/ open[x].sev < MinSeverity
          \/ \E k \in 1 .. l : toAlert[k] = EventOf(x, open[x], "ACTIVE")
          \/ open[x].id \in shared
          \/ answered[x][open[x].id] >= open[x].sev
      BY <1>7, <3>1 DEF AlertInv, AlertedOrExcused
    <3>3. ASSUME NEW k \in 1 .. l, toAlert[k] = EventOf(x, open[x], "ACTIVE")
          PROVE  k \in DOMAIN toAlert' /\ toAlert'[k] = EventOf(x, open[x], "ACTIVE")
      BY <1>7, <1>10, <3>3
    <3>4. shared \subseteq shared'
      BY <1>1
    <3> QED
      BY <1>2, <3>1, <3>2, <3>3, <3>4
  <2> QED
    BY <2>1, <2>2
<1>15. AlertedNumbers'
  BY <1>12, <1>13 DEF AlertedNumbers
<1>16. AlertedOrExcused'
  BY <1>14, Zenon DEF AlertedOrExcused, EventOf
<1> QED
  BY <1>15, <1>16 DEF AlertInv

(* The messages of a sweep tell events that are no longer open.            *)
LEMMA SweepKeepsAlerts ==
  ASSUME EventTypes, eventRun \in Nat, OpenEvents, AlertInv, Sweep
  PROVE  AlertInv'
<1> DEFINE due == {o \in Objects : Due(o)}
           l   == Len(toAlert)
<1>1. /\ \A n \in Times :
           \/ /\ \A o \in due : open[o].id # n
              /\ eventRows'[n] = eventRows[n]
           \/ \E o \in due :
                /\ open[o].id = n
                /\ eventRows'[n] = [status |-> "RESOLVED", sev |-> open[o].sev, run |-> eventRun]
      /\ toAlert' \in Seq(EventMessage) /\ Len(toAlert') >= l
      /\ \A k \in 1 .. l : toAlert'[k] = toAlert[k]
      /\ \A k \in 1 .. Len(toAlert') : k > l =>
           \E o \in due : toAlert'[k] = EventOf(o, open[o], "RESOLVED")
  BY SweepEffect
<1>2. /\ open' = [o \in Objects |-> IF o \in due THEN None ELSE open[o]]
      /\ UNCHANGED <<alerted, answered, shared>>
  BY DEF Sweep, alert
<1>3. \A o \in due : o \in Objects /\ open[o] # None /\ open[o] \in Event
  BY DEF Due, EventTypes
<1>4. /\ l \in Nat /\ DOMAIN toAlert = 1 .. l /\ DOMAIN toAlert' = 1 .. Len(toAlert')
      /\ Len(toAlert') \in Nat
  BY <1>1 DEF EventTypes
<1> HIDE DEF due, l
<1>5. \A x \in Objects : open'[x] # None => open'[x] = open[x] /\ x \notin due
  BY <1>2
<1>6. \A k \in 1 .. Len(toAlert') :
        \/ k \in 1 .. l
        \/ \E o \in due : toAlert'[k] = EventOf(o, open[o], "RESOLVED")
  BY <1>1, <1>4
<1>7. \A k \in 1 .. l : k \in 1 .. Len(toAlert')
  BY <1>1, <1>4
<1>8. \A o \in due : /\ EventOf(o, open[o], "RESOLVED").id = open[o].id
                     /\ EventOf(o, open[o], "RESOLVED").obj = o
  BY DEF EventOf
<1>9. ASSUME NEW n \in Times, eventRows'[n] = None
      PROVE  alerted'[n] = 0 /\ \A k \in DOMAIN toAlert' : toAlert'[k].id # n
  <2>1. ASSUME NEW o \in due,
               eventRows'[n] = [status |-> "RESOLVED", sev |-> open[o].sev, run |-> eventRun]
        PROVE  FALSE
    <3>1. [status |-> "RESOLVED", sev |-> open[o].sev, run |-> eventRun] \in StoredEvent
      BY <1>3 DEF StoredEvent, Event
    <3>2. [status |-> "RESOLVED", sev |-> open[o].sev, run |-> eventRun] # None
      BY <3>1, Some
    <3> QED
      BY <1>9, <2>1, <3>2, Zenon
  <2>2. (\A o \in due : open[o].id # n) /\ eventRows[n] = None
    BY <1>1, <1>9, <2>1
  <2>3. alerted[n] = 0 /\ \A k \in 1 .. l : toAlert[k].id # n
    BY <1>4, <2>2 DEF AlertInv, AlertedNumbers
  <2>4. ASSUME NEW k \in 1 .. Len(toAlert') PROVE toAlert'[k].id # n
    <3>1. CASE k \in 1 .. l
      BY <1>1, <2>3, <3>1
    <3>2. ASSUME NEW o \in due, toAlert'[k] = EventOf(o, open[o], "RESOLVED")
          PROVE  toAlert'[k].id # n
      BY <1>8, <2>2, <3>2
    <3> QED
      BY <1>6, <3>1, <3>2
  <2> QED
    BY <1>2, <1>4, <2>3, <2>4
<1>10. ASSUME NEW x \in Objects, open'[x] # None, open'[x].id \notin shared'
       PROVE  /\ \A k \in DOMAIN toAlert' :
                   toAlert'[k].id = open'[x].id => toAlert'[k].obj = x
              /\ alerted'[open'[x].id] <= answered'[x][open'[x].id]
  <2>1. open'[x] = open[x] /\ open[x] # None /\ open[x].id \notin shared /\ x \notin due
    BY <1>2, <1>5, <1>10
  <2>2. /\ \A k \in 1 .. l : toAlert[k].id = open[x].id => toAlert[k].obj = x
        /\ alerted[open[x].id] <= answered[x][open[x].id]
    BY <1>4, <2>1 DEF AlertInv, AlertedNumbers
  <2>3. ASSUME NEW k \in 1 .. Len(toAlert'), toAlert'[k].id = open[x].id
        PROVE  toAlert'[k].obj = x
    <3>1. CASE k \in 1 .. l
      BY <1>1, <2>2, <2>3, <3>1
    <3>2. ASSUME NEW o \in due, toAlert'[k] = EventOf(o, open[o], "RESOLVED")
          PROVE  FALSE
      <4>1. open[o].id = open[x].id /\ open[o] # None /\ o # x /\ o \in Objects
        BY <1>3, <1>8, <2>1, <2>3, <3>2
      <4> QED
        BY <2>1, <4>1 DEF OpenEvents
    <3> QED
      BY <1>6, <3>1, <3>2
  <2> QED
    BY <1>2, <1>4, <2>1, <2>2, <2>3
<1>11. ASSUME NEW x \in Objects, open'[x] # None
       PROVE  \/ open'[x].sev < MinSeverity
              \/ \E k \in DOMAIN toAlert' : toAlert'[k] = EventOf(x, open'[x], "ACTIVE")
              \/ open'[x].id \in shared'
              \/ answered'[x][open'[x].id] >= open'[x].sev
  <2>1. open'[x] = open[x] /\ open[x] # None
    BY <1>5, <1>11
  <2>2. \/ open[x].sev < MinSeverity
        \/ \E k \in 1 .. l : toAlert[k] = EventOf(x, open[x], "ACTIVE")
        \/ open[x].id \in shared
        \/ answered[x][open[x].id] >= open[x].sev
    BY <1>4, <2>1 DEF AlertInv, AlertedOrExcused
  <2>3. ASSUME NEW k \in 1 .. l, toAlert[k] = EventOf(x, open[x], "ACTIVE")
        PROVE  k \in DOMAIN toAlert' /\ toAlert'[k] = EventOf(x, open[x], "ACTIVE")
    BY <1>1, <1>4, <1>7, <2>3
  <2> QED
    BY <1>2, <2>1, <2>2, <2>3
<1>12. AlertedNumbers'
  BY <1>9, <1>10 DEF AlertedNumbers
<1>13. AlertedOrExcused'
  BY <1>11, Zenon DEF AlertedOrExcused, EventOf
<1> QED
  BY <1>12, <1>13 DEF AlertInv

(* tpalert takes a message: what it alerts, it alerts for that object; and *)
(* what it does not alert is covered, minor, or over.                      *)
LEMMA AlertKeepsAlerts ==
  ASSUME EventTypes, AlertTypes, AlertInv, HandleEvent
  PROVE  AlertInv'
<1> DEFINE m == Head(toAlert)
           l == Len(toAlert)
<1>1. /\ l \in Nat /\ l >= 1 /\ toAlert' = Tail(toAlert) /\ m = toAlert[1]
      /\ DOMAIN toAlert = 1 .. l /\ DOMAIN toAlert' = 1 .. l - 1
      /\ \A k \in 1 .. l - 1 : toAlert'[k] = toAlert[k + 1]
  <2>1. toAlert \in Seq(EventMessage) /\ toAlert # << >> /\ toAlert' = Tail(toAlert)
    BY DEF EventTypes, HandleEvent
  <2> QED
    BY <2>1
<1>2. m \in EventMessage
  BY DEF HandleEvent, EventTypes
<1>3. m.obj \in Objects /\ m.id \in Times /\ m.sev \in Severities /\ m.sev \in Nat
  BY <1>2, ChainBounds DEF EventMessage
<1>4. /\ UNCHANGED <<open, eventRows, shared>>
      /\ IF m.sev < MinSeverity \/ m.status = "RESOLVED" \/ Covered(m)
         THEN UNCHANGED alert
         ELSE /\ answered' = [answered EXCEPT ![m.obj][m.id] = Larger(@, m.sev)]
              /\ IF cool[m.obj] < Cooldown
                 THEN UNCHANGED <<alerted, cool>>
                 ELSE /\ alerted' = [alerted EXCEPT ![m.id] = m.sev]
                      /\ cool' = [cool EXCEPT ![m.obj] = 0]
  BY DEF HandleEvent, event
<1> DEFINE Skipped == m.sev < MinSeverity \/ m.status = "RESOLVED" \/ Covered(m)
<1> HIDE DEF m
<1>5. \A o \in Objects, n \in Times : answered[o][n] \in Nat /\ alerted[n] \in Nat
  <2>1. \A n \in Times : alerted[n] \in Nat
    <3>1. Severities \union {0} \subseteq Nat
      BY ChainBounds
    <3>2. \A n \in Times : alerted[n] \in Severities \union {0}
      BY DEF AlertTypes
    <3> HIDE DEF l
    <3> QED
      BY <3>1, <3>2
  <2>2. \A o \in Objects, n \in Times : answered[o][n] \in Nat
    BY DEF AlertTypes
  <2> QED
    BY <2>1, <2>2
<1>6. Larger(answered[m.obj][m.id], m.sev) \in Nat
      /\ answered[m.obj][m.id] <= Larger(answered[m.obj][m.id], m.sev)
      /\ m.sev <= Larger(answered[m.obj][m.id], m.sev)
  BY <1>3, <1>5, LargerFacts
<1> DEFINE Given == Larger(answered[m.obj][m.id], m.sev)
<1> HIDE DEF l
(* What has been answered only grows, and grows to the severity of the     *)
(* message when that is not skipped.                                       *)
<1>7. /\ \A o \in Objects, n \in Times :
           answered'[o][n] \in Nat /\ answered[o][n] <= answered'[o][n]
      /\ ~Skipped => m.sev <= answered'[m.obj][m.id]
      /\ \A n \in Times : alerted'[n] = alerted[n] \/ (n = m.id /\ ~Skipped /\ alerted'[n] = m.sev)
  <2>1. CASE Skipped
    BY <1>4, <1>5, <2>1 DEF alert
  <2>2. CASE ~Skipped
    <3>1. answered' = [answered EXCEPT ![m.obj][m.id] = Given]
      BY <1>4, <2>2
    <3>2. alerted' = alerted \/ alerted' = [alerted EXCEPT ![m.id] = m.sev]
      BY <1>4, <2>2
    <3> HIDE DEF Skipped, Given
    <3>3. answered'[m.obj][m.id] = Given
      BY <1>3, <3>1 DEF AlertTypes
    <3>4. \A o \in Objects, n \in Times : o # m.obj \/ n # m.id => answered'[o][n] = answered[o][n]
      BY <1>3, <3>1 DEF AlertTypes
    <3>5. \A n \in Times : alerted'[n] = alerted[n] \/ (n = m.id /\ alerted'[n] = m.sev)
      BY <1>3, <3>2 DEF AlertTypes
    <3>6. Given \in Nat /\ answered[m.obj][m.id] <= Given /\ m.sev <= Given
      BY <1>6 DEF Given
    <3>7. ASSUME NEW o \in Objects, NEW n \in Times
          PROVE  answered'[o][n] \in Nat /\ answered[o][n] <= answered'[o][n]
      <4>1. CASE o = m.obj /\ n = m.id
        BY <3>3, <3>6, <4>1
      <4>2. CASE o # m.obj \/ n # m.id
        BY <1>5, <3>4, <4>2
      <4> QED
        BY <4>1, <4>2
    <3> QED
      BY <2>2, <3>3, <3>5, <3>6, <3>7
  <2> QED
    BY <2>1, <2>2
<1> HIDE DEF Skipped
<1>8. \A k \in 1 .. l - 1 : k + 1 \in 1 .. l
  BY <1>1
<1>9. 1 \in 1 .. l
  BY <1>1
<1>10. ASSUME NEW n \in Times, eventRows'[n] = None
       PROVE  alerted'[n] = 0 /\ \A k \in DOMAIN toAlert' : toAlert'[k].id # n
  <2>1. alerted[n] = 0 /\ \A k \in 1 .. l : toAlert[k].id # n
    BY <1>1, <1>4, <1>10 DEF AlertInv, AlertedNumbers
  <2>2. n # m.id
    BY <1>1, <1>9, <2>1
  <2> QED
    BY <1>1, <1>7, <1>8, <2>1, <2>2
<1>11. ASSUME NEW x \in Objects, open'[x] # None, open'[x].id \notin shared'
       PROVE  /\ \A k \in DOMAIN toAlert' :
                   toAlert'[k].id = open'[x].id => toAlert'[k].obj = x
              /\ alerted'[open'[x].id] <= answered'[x][open'[x].id]
  <2> DEFINE n == open[x].id
  <2>1. /\ \A k \in 1 .. l : toAlert[k].id = n => toAlert[k].obj = x
        /\ alerted[n] <= answered[x][n] /\ n \in Times
    BY <1>1, <1>4, <1>11 DEF AlertInv, AlertedNumbers, EventTypes, Event
  <2> HIDE DEF n
  <2>2. \A k \in 1 .. l - 1 : toAlert'[k].id = n => toAlert'[k].obj = x
    BY <1>1, <1>8, <2>1
  <2>3. answered[x][n] \in Nat /\ alerted[n] \in Nat /\ answered'[x][n] \in Nat
        /\ answered[x][n] <= answered'[x][n]
    BY <1>5, <1>7, <2>1
  <2>4. alerted'[n] <= answered'[x][n]
    <3>1. CASE alerted'[n] = alerted[n]
      <4> DEFINE a == answered[x][n]
                 b == answered'[x][n]
                 c == alerted[n]
      <4>1. a \in Nat /\ b \in Nat /\ c \in Nat /\ c <= a /\ a <= b
        BY <2>1, <2>3
      <4> HIDE DEF a, b, c
      <4>2. c <= b
        BY <4>1
      <4> QED
        BY <3>1, <4>2 DEF b, c
    <3>2. CASE n = m.id /\ ~Skipped /\ alerted'[n] = m.sev
      <4>1. m.obj = x
        BY <1>1, <1>9, <2>1, <3>2
      <4> QED
        BY <1>7, <3>2, <4>1
    <3> QED
      BY <1>7, <2>1, <3>1, <3>2
  <2> QED
    BY <1>1, <1>4, <2>2, <2>4 DEF n
<1>12. ASSUME NEW x \in Objects, open'[x] # None
       PROVE  \/ open'[x].sev < MinSeverity
              \/ \E k \in DOMAIN toAlert' : toAlert'[k] = EventOf(x, open'[x], "ACTIVE")
              \/ open'[x].id \in shared'
              \/ answered'[x][open'[x].id] >= open'[x].sev
  <2> DEFINE e == open[x]
  <2>1. e \in Event /\ open'[x] = e /\ e # None
    BY <1>4, <1>12 DEF EventTypes
  <2>2. e.id \in Times /\ e.sev \in Nat
    BY <2>1, ChainBounds DEF Event
  <2>3. \/ e.sev < MinSeverity
        \/ \E k \in 1 .. l : toAlert[k] = EventOf(x, e, "ACTIVE")
        \/ e.id \in shared
        \/ answered[x][e.id] >= e.sev
    BY <1>1, <2>1 DEF AlertInv, AlertedOrExcused
  <2>4. /\ answered[x][e.id] \in Nat /\ answered'[x][e.id] \in Nat
        /\ answered[x][e.id] <= answered'[x][e.id]
    BY <1>5, <1>7, <2>2
  <2>5. CASE answered[x][e.id] >= e.sev
    <3> DEFINE a == answered[x][e.id]
               b == answered'[x][e.id]
               c == e.sev
    <3>1. a \in Nat /\ b \in Nat /\ c \in Nat /\ a >= c /\ a <= b
      BY <2>2, <2>4, <2>5
    <3> HIDE DEF a, b, c
    <3>2. b >= c
      BY <3>1
    <3>3. answered'[x][e.id] >= e.sev
      BY <3>2 DEF b, c
    <3> QED
      BY <2>1, <3>3
  <2>6. ASSUME NEW k \in 1 .. l, toAlert[k] = EventOf(x, e, "ACTIVE"), k # 1
        PROVE  \E j \in DOMAIN toAlert' : toAlert'[j] = EventOf(x, open'[x], "ACTIVE")
    <3>1. k - 1 \in 1 .. l - 1 /\ (k - 1) + 1 = k
      BY <1>1, <2>6
    <3>2. toAlert'[k - 1] = toAlert[k]
      BY <1>1, <3>1
    <3> QED
      BY <1>1, <2>1, <2>6, <3>1, <3>2
  <2>7. CASE toAlert[1] = EventOf(x, e, "ACTIVE") /\ ~(e.sev < MinSeverity) /\ e.id \notin shared
    <3>1. /\ m.obj = x /\ m.id = e.id /\ m.sev = e.sev /\ m.status = "ACTIVE"
      BY <1>1, <2>7 DEF EventOf
    <3>2. CASE ~Skipped
      <4>1. e.sev <= answered'[x][e.id]
        BY <1>7, <3>1, <3>2
      <4>2. answered'[x][e.id] >= e.sev
        BY <2>2, <2>4, <4>1
      <4> QED
        BY <2>1, <4>2
    <3>3. CASE Skipped
      <4>1. alerted[e.id] >= e.sev
        BY <2>7, <3>1, <3>3 DEF Skipped, Covered
      <4>2. alerted[e.id] <= answered[x][e.id] /\ alerted[e.id] \in Nat
        BY <1>5, <2>1, <2>2, <2>7 DEF AlertInv, AlertedNumbers
      <4>3. answered[x][e.id] >= e.sev
        <5> DEFINE a == answered[x][e.id]
                   b == alerted[e.id]
                   c == e.sev
        <5>1. a \in Nat /\ b \in Nat /\ c \in Nat /\ b >= c /\ b <= a
          BY <2>2, <2>4, <4>1, <4>2
        <5> HIDE DEF a, b, c
        <5>2. a >= c
          BY <5>1
        <5> QED
          BY <5>2 DEF a, c
      <4> QED
        BY <2>5, <4>3
    <3> QED
      BY <3>2, <3>3
  <2> HIDE DEF e
  <2>8. CASE e.sev < MinSeverity \/ e.id \in shared
    BY <1>4, <2>1, <2>8
  <2> QED
    BY <1>9, <2>3, <2>5, <2>6, <2>7, <2>8
<1>13. AlertedNumbers'
  BY <1>10, <1>11 DEF AlertedNumbers
<1>14. AlertedOrExcused'
  BY <1>12, Zenon DEF AlertedOrExcused, EventOf
<1> QED
  BY <1>13, <1>14 DEF AlertInv

(* A restart of tpalert loses messages; what they told counts as answered. *)
LEMMA LossKeepsAlerts ==
  ASSUME EventTypes, AlertTypes, AlertInv, RestartAlert
  PROVE  AlertInv'
<1> DEFINE all(o, n) ==
      {answered[o][n]} \union {m.sev : m \in {x \in ToSet(toAlert) : x.obj = o /\ x.id = n}}
<1>1. \A o \in Objects, n \in Times :
        /\ Max(all(o, n)) \in Nat /\ answered[o][n] <= Max(all(o, n))
        /\ \A k \in DOMAIN toAlert :
             toAlert[k].obj = o /\ toAlert[k].id = n => toAlert[k].sev <= Max(all(o, n))
  BY LostFacts
<1>2. /\ answered' = [o \in Objects |-> [n \in Times |-> Max(all(o, n))]]
      /\ alerted' = [n \in Times |-> 0] /\ toAlert' = << >>
      /\ UNCHANGED <<open, eventRows, shared>>
  BY DEF RestartAlert, event
<1> HIDE DEF all
<1>3. ASSUME NEW o \in Objects, NEW n \in Times
      PROVE  /\ answered'[o][n] \in Nat /\ answered[o][n] <= answered'[o][n]
             /\ \A k \in DOMAIN toAlert :
                  toAlert[k].obj = o /\ toAlert[k].id = n => toAlert[k].sev <= answered'[o][n]
  BY <1>1, <1>2
<1>4. DOMAIN toAlert' = {}
  BY <1>2
<1>5. ASSUME NEW x \in Objects, open[x] # None
      PROVE  open[x].id \in Times /\ open[x].sev \in Nat
  BY <1>5, ChainBounds DEF EventTypes, Event
<1>6. AlertedNumbers'
  <2>1. ASSUME NEW x \in Objects, open[x] # None
        PROVE  alerted'[open[x].id] <= answered'[x][open[x].id]
    <3>1. alerted'[open[x].id] = 0 /\ answered'[x][open[x].id] \in Nat
      BY <1>2, <1>3, <1>5, <2>1
    <3> QED
      BY <3>1
  <2> QED
    BY <1>2, <1>4, <2>1 DEF AlertedNumbers
<1>7. AlertedOrExcused'
  <2> SUFFICES ASSUME NEW x \in Objects, open[x] # None
               PROVE  \/ open[x].sev < MinSeverity
                      \/ open[x].id \in shared
                      \/ answered'[x][open[x].id] >= open[x].sev
    BY <1>2, Zenon DEF AlertedOrExcused, EventOf
  <2> DEFINE e == open[x]
             b == answered'[x][e.id]
             a == answered[x][e.id]
  <2>1. e.id \in Times /\ e.sev \in Nat
    BY <1>5
  <2>2. a \in Nat /\ b \in Nat /\ a <= b
    BY <1>3, <2>1 DEF AlertTypes
  <2>3. \/ e.sev < MinSeverity
        \/ \E k \in DOMAIN toAlert : toAlert[k] = EventOf(x, e, "ACTIVE")
        \/ e.id \in shared
        \/ a >= e.sev
    BY DEF AlertInv, AlertedOrExcused
  <2>4. ASSUME NEW k \in DOMAIN toAlert, toAlert[k] = EventOf(x, e, "ACTIVE") PROVE e.sev <= b
    <3>1. toAlert[k].obj = x /\ toAlert[k].id = e.id /\ toAlert[k].sev = e.sev
      BY <2>4 DEF EventOf
    <3>2. toAlert[k].sev <= b
      BY <1>3, <2>1, <3>1
    <3> QED
      BY <3>1, <3>2
  <2> DEFINE s == e.sev
  <2>5. s \in Nat /\ (s <= b \/ a >= s \/ e.sev < MinSeverity \/ e.id \in shared)
    BY <2>1, <2>3, <2>4
  <2> HIDE DEF s, a, b, e
  <2>6. b >= s \/ e.sev < MinSeverity \/ e.id \in shared
    BY <2>2, <2>5
  <2> QED
    BY <2>6 DEF s, b, e
<1> QED
  BY <1>6, <1>7 DEF AlertInv

(* Every step keeps what is known of the alerts.                           *)
LEMMA AlertKeeps ==
  ASSUME EnginesInv, SourceTypes, EventTypes, AlertTypes, OpenEvents, AlertInv, [ChainNext]_vars
  PROVE  AlertInv'
<1> DEFINE Still == UNCHANGED <<open, eventRows, shared, toAlert, alerted, answered>>
<1>0. eventRun \in Nat
  BY DEF SourceTypes
<1>1. CASE Still
  BY <1>1 DEF AlertInv, AlertedNumbers, AlertedOrExcused, EventOf
<1>2. CASE RestartEvent
  <2>1. /\ open' = [o \in Objects |-> None]
        /\ UNCHANGED <<eventRows, shared, toAlert, alerted, answered>>
    BY <1>2 DEF RestartEvent, alert
  <2> QED
    BY <2>1 DEF AlertInv, AlertedNumbers, AlertedOrExcused
<1>3. ASSUME NEW c \in Channels, FlushWindow(c) PROVE Still
  BY <1>3 DEF FlushWindow, event, alert
<1>4. Tick => Still
  BY DEF Tick
<1>5. UNCHANGED <<toEvent, event, eventRows, toAlert, alert, shared>> => Still
  BY DEF event, alert
<1> QED
  BY <1>0, <1>1, <1>2, <1>3, <1>4, <1>5, ShfKeepsAlerts, SweepKeepsAlerts,
     AlertKeepsAlerts, LossKeepsAlerts, EventSteps

-----------------------------------------------------------------------------
(* The whole chain.                                                        *)

AlarmInv == ChainInv /\ SourceTypes /\ EventTypes /\ AlertTypes /\ EventInv /\ AlertInv

(* At the start nothing is open and nothing told.                          *)
LEMMA InitAlarm == ChainInit => AlarmInv
<1> SUFFICES ASSUME ChainInit PROVE AlarmInv
  OBVIOUS
<1>1. ChainInv
  BY InitChain
<1>2. /\ clock = 1 /\ flushed = {} /\ windows = 0
      /\ calibrated = [c \in Channels |-> 0]
      /\ toEvent = << >> /\ toAlert = << >> /\ engine = [p \in Procs |-> NewEngine]
      /\ open = [o \in Objects |-> None] /\ quiet = [o \in Objects |-> 0]
      /\ eventRows = [n \in Times |-> None] /\ alerted = [n \in Times |-> 0]
      /\ cool = [o \in Objects |-> Cooldown]
      /\ answered = [o \in Objects |-> [n \in Times |-> 0]]
      /\ shared = {} /\ procRun = [p \in Procs |-> 0] /\ eventRun = 0 /\ restarts = 0
  BY DEF ChainInit
<1>3. SourceTypes
  <2>1. Timed(NewEngine)
    BY DEF Timed, NewEngine
  <2> QED
    BY <1>2, <2>1, ChainBounds DEF SourceTypes
<1>4. EventTypes
  BY <1>2, ChainBounds DEF EventTypes
<1>5. AlertTypes
  BY <1>2, ChainBounds DEF AlertTypes
<1>6. EventInv
  BY <1>2 DEF EventInv, OpenEvents, EventRowsFollow
<1>7. AlertInv
  BY <1>2 DEF AlertInv, AlertedNumbers, AlertedOrExcused
<1> QED
  BY <1>1, <1>3, <1>4, <1>5, <1>6, <1>7 DEF AlarmInv

(* Every step keeps all the parts together.                                *)
LEMMA AlarmKeeps ==
  ASSUME AlarmInv, [ChainNext]_vars
  PROVE  AlarmInv'
<1>1. EnginesInv /\ OpenEvents
  BY DEF AlarmInv, ChainInv, EventInv
<1> QED
  BY <1>1, ChainKeeps, SourceStep, EventTypesKeep, AlertTypesKeep, EventKeeps, AlertKeeps
     DEF AlarmInv

(* The parts hold in every behaviour.                                      *)
LEMMA AlarmInvariant == Spec => []AlarmInv
<1>1. ChainInit => AlarmInv
  BY InitAlarm
<1>2. AlarmInv /\ [ChainNext]_vars => AlarmInv'
  BY AlarmKeeps
<1> QED
  BY <1>1, <1>2, PTL DEF Spec

(* The variables of the chain keep their types, and its queues and         *)
(* counters their bounds.                                                  *)
THEOREM TypeTheorem == Spec => []TypeOK
<1>1. AlarmInv => TypeOK
  <2> SUFFICES ASSUME AlarmInv PROVE TypeOK
    OBVIOUS
  <2>0. /\ MaxRestarts \in Nat /\ restarts \in Nat /\ restarts <= MaxRestarts
        /\ (\A p \in Procs : procRun[p] \in Nat /\ procRun[p] <= restarts) /\ eventRun \in Nat /\ eventRun <= restarts
    BY ChainBounds DEF AlarmInv, ChainInv, EnginesInv, SourceTypes
  <2>1. rows \in [Ids -> Row \union {None}]
    <3>1. rows \in [Ids -> StoredRow \union {None}]
      BY DEF AlarmInv, ChainInv, RowsInv
    <3>2. ASSUME NEW i \in Ids, rows[i] # None PROVE rows[i] \in Row
      <4>1. rows[i] \in StoredRow /\ rows[i].run <= procRun[rows[i].proc]
        BY <3>1, <3>2 DEF AlarmInv, ChainInv, RowsInv, RowRight
      <4>2. rows[i].run \in 0 .. MaxRestarts
        BY <2>0, <4>1 DEF StoredRow
      <4> QED
        BY <4>1, <4>2 DEF StoredRow, Row
    <3> QED
      BY <3>1, <3>2
  <2>2. eventRows \in [Times -> EventRow \union {None}]
    <3>1. eventRows \in [Times -> StoredEvent \union {None}]
      BY DEF AlarmInv, EventTypes
    <3>2. ASSUME NEW n \in Times, eventRows[n] # None PROVE eventRows[n] \in EventRow
      <4>1. eventRows[n] \in StoredEvent /\ eventRows[n].run <= eventRun
        BY <3>1, <3>2 DEF AlarmInv, EventTypes
      <4>2. eventRows[n].run \in 0 .. MaxRestarts
        BY <2>0, <4>1 DEF StoredEvent
      <4> QED
        BY <4>1, <4>2 DEF StoredEvent, EventRow
    <3> QED
      BY <3>1, <3>2
  <2> QED
    BY <2>1, <2>2 DEF AlarmInv, ChainInv, EnginesInv, RowsInv, HistoryInv, SourceTypes, EventTypes,
                      AlertTypes, TypeOK
<1> QED
  BY <1>1, AlarmInvariant, PTL

(* DbStore::writeEvent: the row of a number that is not shared tells the   *)
(* open event of tpevent, or that none has this number.                    *)
THEOREM EventRowsTheorem == Spec => []EventRowsFollow
<1>1. AlarmInv => EventRowsFollow
  BY DEF AlarmInv, EventInv
<1> QED
  BY <1>1, AlarmInvariant, PTL

(* AlertApp: an open event has been alerted at its severity, its message   *)
(* waits, or it is one of those that the cooldown, a restart of tpalert or *)
(* a shared number excuses.                                                *)
THEOREM AlertedTheorem == Spec => []AlertedOrExcused
<1>1. AlarmInv => AlertedOrExcused
  BY DEF AlarmInv, AlertInv
<1> QED
  BY <1>1, AlarmInvariant, PTL
=============================================================================

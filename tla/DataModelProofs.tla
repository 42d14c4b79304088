--------------------------- MODULE DataModelProofs ---------------------------
(***************************************************************************)
(* What a client of tpmaster knows, for any number of structures, parts,   *)
(* runs of tpinv and features, and any sequence of faults.                 *)
(***************************************************************************)
EXTENDS DataModel, Facts

Message == Notifier \union Feature

(* What a client can show of a channel.                                    *)
Entry == Feature \union {NoFeature}

TypeInv ==
  /\ out \in [Tools -> Seq(Notifier)]
  /\ inv \subseteq Items /\ model \subseteq Items
  /\ snapshot \in [items : SUBSET Items, feature : Entry]
  /\ phase \in {"asking", "served", "live"}
  /\ inbox \in Seq(Message)
  /\ missed \subseteq Items /\ unstored \subseteq Items /\ cascaded \subseteq Parts

CountInv == runs \in 0 .. MaxRuns /\ faults \in 0 .. MaxFaults

(* Nothing is forwarded to a client before it has subscribed.              *)
PhaseInv == phase # "live" => inbox = << >> /\ ~attached

(* The features on their way follow each other, and what is shown.         *)
FeatureInv ==
  /\ features \in 0 .. MaxFeatures
  /\ saf \subseteq Feature /\ \A f \in saf : f.item \in 1 .. features
  /\ \A f, g \in saf : f.t = g.t
  /\ shown \in Entry /\ shown.item \in 0 .. features
  /\ snapshot.feature.item \in 0 .. features
  /\ \A i \in 1 .. Len(inbox) :
       inbox[i].op = "saf" => inbox[i].item \in 1 .. features /\ shown.item < inbox[i].item
  /\ \A i, j \in 1 .. Len(inbox) :
       i < j /\ inbox[i].op = "saf" /\ inbox[j].op = "saf" => inbox[i].item < inbox[j].item

LaterSays(q, k, op, i) ==
  \E j \in 1 .. Len(q) : k < j /\ q[j].op = op /\ q[j].item = i

(* What message k says of its item is so in the table, is in doubt, or the *)
(* opposite follows.                                                       *)
Said(q, k, table, doubts) ==
  /\ q[k].op = "add" =>
       q[k].item \in table \union doubts \/ LaterSays(q, k, "remove", q[k].item)
  /\ q[k].op = "remove" =>
       \/ q[k].item \notin table \/ q[k].item \in doubts
       \/ LaterSays(q, k, "add", q[k].item)

InboxInv == \A k \in 1 .. Len(inbox) : Said(inbox, k, inv, unstored \union missed)

Named(q, i) == \E k \in 1 .. Len(q) : q[k].op # "saf" /\ q[k].item = i

(* An item of which the client has nothing to read is with it as it is in  *)
(* the table.                                                              *)
CopyInv ==
  /\ phase = "served" =>
       \A i \in Items : (i \in snapshot.items <=> i \in inv) \/ i \in missed \union unstored
  /\ phase = "live" =>
       \A i \in Items :
         \/ Named(inbox, i) \/ (i \in model <=> i \in inv)
         \/ i \in missed \union unstored \union cascaded


-----------------------------------------------------------------------------
(* Messages and queues.                                                    *)

(* A message tells a notifier or a feature, never both.                    *)
LEMMA MessageFacts ==
  ASSUME NEW m \in Message
  PROVE  /\ m.op \in {"add", "remove", "saf"}
         /\ m.op = "saf" => m.item \in 1 .. MaxFeatures /\ m.item \notin Items
         /\ m.op # "saf" => m.item \in Items /\ m \in Notifier
<1>1. CASE m \in Notifier
  BY <1>1 DEF Notifier
<1>2. CASE m \in Feature
  <2>1. m.op = "saf" /\ m.item \in 1 .. MaxFeatures
    BY <1>2 DEF Feature
  <2> QED
    BY <2>1, DataModelAssumption DEF Items
<1> QED
  BY <1>1, <1>2 DEF Message

(* What a notifier tells.                                                  *)
LEMMA NotifierFacts ==
  ASSUME NEW n \in Notifier
  PROVE  n.op \in {"add", "remove"} /\ n.item \in Items /\ n \in Message /\ n.op # "saf"
BY DEF Notifier, Message

(* A part of the inbox.                                                    *)
LEMMA PrefixFacts ==
  ASSUME NEW q \in Seq(Message), NEW k \in 0 .. Len(q)
  PROVE  /\ SubSeq(q, 1, k) \in Seq(Message) /\ Len(SubSeq(q, 1, k)) = k
         /\ \A i \in 1 .. k : SubSeq(q, 1, k)[i] = q[i] /\ i \in 1 .. Len(q)
<1>1. Len(q) \in Nat /\ k \in Nat /\ k <= Len(q) /\ 1 \in Int
  OBVIOUS
<1>2. \A i \in 1 .. k : i \in 1 .. Len(q) /\ q[i] \in Message
  BY <1>1
<1>3. /\ SubSeq(q, 1, k) \in Seq(Message) /\ Len(SubSeq(q, 1, k)) = k
      /\ \A i \in 1 .. k : SubSeq(q, 1, k)[i] = q[1 + i - 1]
  BY <1>1, <1>2, SubSeqProperties
<1> QED
  BY <1>1, <1>2, <1>3

(* The inbox without its first message.                                    *)
LEMMA RestFacts ==
  ASSUME NEW q \in Seq(Message), q # << >>
  PROVE  /\ Tail(q) \in Seq(Message) /\ Len(Tail(q)) = Len(q) - 1
         /\ Len(q) \in Nat /\ Len(q) >= 1 /\ 1 \in 1 .. Len(q)
         /\ Head(q) = q[1] /\ Head(q) \in Message
         /\ \A i \in 1 .. Len(Tail(q)) : i + 1 \in 1 .. Len(q) /\ Tail(q)[i] = q[i + 1]
OBVIOUS

(* The inbox with one more message.                                        *)
LEMMA MoreFacts ==
  ASSUME NEW q \in Seq(Message), NEW m \in Message
  PROVE  /\ Append(q, m) \in Seq(Message) /\ Len(Append(q, m)) = Len(q) + 1
         /\ Len(q) \in Nat /\ Append(q, m)[Len(q) + 1] = m
         /\ \A i \in 1 .. Len(q) : Append(q, m)[i] = q[i] /\ i < Len(q) + 1
         /\ \A i \in 1 .. Len(q) + 1 : i \in 1 .. Len(q) \/ i = Len(q) + 1
OBVIOUS

(* A list of a finite set.                                                 *)
LEMMA SetToSeqType ==
  ASSUME NEW S, IsFiniteSet(S)
  PROVE  SetToSeq(S) \in Seq(S)
<1> DEFINE n == Cardinality(S)
<1>1. n \in Nat /\ ExistsBijection(1 .. n, S)
  BY FS_CardinalityType
<1>2. \E f \in [1 .. n -> S] : IsInjective(f)
  BY <1>1 DEF ExistsBijection, Bijection, Injection
<1>3. SetToSeq(S) \in [1 .. n -> S]
  BY <1>2 DEF SetToSeq
<1> QED
  BY <1>1, <1>3

-----------------------------------------------------------------------------
(* Types.                                                                  *)

(* publishInventory queues notifiers.                                      *)
LEMMA PublishType ==
  ASSUME TypeInv, NEW t \in Tools, PublishInventory(t)
  PROVE  out' \in [Tools -> Seq(Notifier)]
<1>1. PICK op \in {"add", "remove"}, s \in Structures, listed \in SUBSET Parts :
        LET items == <<s>> \o SetToSeq(listed)
        IN  out' = [out EXCEPT ![t] = [i \in DOMAIN items |-> [op |-> op, item |-> items[i]]]]
  BY ZenonT(40) DEF PublishInventory
<1> DEFINE items == <<s>> \o SetToSeq(listed)
           list  == [i \in DOMAIN items |-> [op |-> op, item |-> items[i]]]
<1>2. IsFiniteSet(listed)
  BY DataModelAssumption, FS_Subset
<1>3. SetToSeq(listed) \in Seq(Items)
  <2>1. SetToSeq(listed) \in Seq(listed)
    BY <1>2, SetToSeqType
  <2>2. listed \subseteq Items
    BY DEF Items
  <2> QED
    BY <2>1, <2>2, SeqMonotonic
<1>4. <<s>> \in Seq(Items)
  BY DEF Items
<1>5. items \in Seq(Items)
  BY <1>3, <1>4, ConcatProperties
<1> HIDE DEF items
<1>6. /\ Len(items) \in Nat /\ DOMAIN items = 1 .. Len(items)
      /\ \A i \in 1 .. Len(items) : items[i] \in Items
  BY <1>5
<1>7. list \in Seq(Notifier)
  <2>1. \A i \in 1 .. Len(items) : [op |-> op, item |-> items[i]] \in Notifier
    BY <1>6 DEF Notifier
  <2>2. list \in [1 .. Len(items) -> Notifier]
    BY <1>6, <2>1
  <2> QED
    BY <1>6, <2>2
<1>8. out' = [out EXCEPT ![t] = list]
  BY <1>1 DEF items
<1> HIDE DEF list
<1> QED
  BY <1>7, <1>8 DEF TypeInv

(* A message put into the inbox of a subscribed client, or missed.         *)
LEMMA SendOutcome ==
  ASSUME NEW m, SendToClient(m)
  PROVE  \/ attached /\ inbox' = Append(inbox, m) /\ missed' = missed \ {m.item}
         \/ inbox' = inbox /\ missed' = missed \union ({m.item} \intersect Items)
BY DEF SendToClient

(* Forwarding keeps the inbox an inbox.                                    *)
LEMMA SendType ==
  ASSUME NEW m \in Message, TypeInv, SendToClient(m)
  PROVE  inbox' \in Seq(Message) /\ missed' \subseteq Items
<1>1. inbox \in Seq(Message) /\ missed \subseteq Items
  BY DEF TypeInv
<1>2. inbox' \in Seq(Message)
  BY <1>1, SendOutcome, MoreFacts
<1>3. missed' \subseteq Items
  BY <1>1, SendOutcome
<1> QED
  BY <1>2, <1>3

(* The outcomes of applyInventory.                                         *)
LEMMA ApplyOutcome ==
  ASSUME NEW n, Apply(n)
  PROVE  \/ /\ n.op = "add"
            /\ model' = model \union {n.item} /\ cascaded' = cascaded \ {n.item}
         \/ /\ n.op = "remove" /\ n.item \in Structures
            /\ model' = model \ ({p \in Parts : Owner[p] = n.item} \union {n.item})
            /\ cascaded' = cascaded \union {p \in Parts : Owner[p] = n.item}
         \/ /\ ~(n.op = "add") /\ ~(n.op = "remove" /\ n.item \in Structures)
            /\ model' = model \ {n.item} /\ cascaded' = cascaded \ {n.item}
<1>1. CASE n.op = "add"
  BY <1>1 DEF Apply
<1>2. CASE n.op = "remove" /\ n.item \in Structures
  <2>1. ~(n.op = "add")
    BY <1>2
  <2> QED
    BY <1>2, <2>1 DEF Apply
<1>3. CASE ~(n.op = "add") /\ ~(n.op = "remove" /\ n.item \in Structures)
  BY <1>3 DEF Apply
<1> QED
  BY <1>1, <1>2, <1>3

(* What the snapshot may hold of a channel.                                *)
LEMMA LatestFacts ==
  ASSUME FeatureInv, NEW f \in Latest
  PROVE  f \in Entry /\ f.item \in 0 .. features
<1>1. features \in Nat
  BY DataModelAssumption DEF FeatureInv
<1>2. CASE saf = {}
  BY <1>1, <1>2 DEF Latest, Entry, NoFeature
<1>3. CASE saf # {}
  <2>1. f \in saf
    BY <1>3 DEF Latest
  <2> QED
    BY <1>1, <2>1 DEF FeatureInv, Entry
<1> QED
  BY <1>2, <1>3

(* The rows with the largest time stamp after one more is written.         *)
LEMMA NewestFacts ==
  ASSUME saf \subseteq Feature, NEW f \in Feature
  PROVE  /\ Newest(f) \subseteq saf \union {f}
         /\ \A g, h \in Newest(f) : g.t = h.t
<1>1. Newest(f) \subseteq saf \union {f}
  BY DEF Newest
<1>2. ASSUME NEW g \in Newest(f), NEW h \in Newest(f) PROVE g.t = h.t
  <2>1. g.t <= h.t /\ h.t <= g.t
    BY DEF Newest
  <2>2. g.t \in Nat /\ h.t \in Nat
    <3>1. \A e \in Feature : e.t \in Nat
      BY DataModelAssumption DEF Feature
    <3> QED
      BY <1>1, <3>1
  <2> QED
    BY <2>1, <2>2
<1> QED
  BY <1>1, <1>2

(* The feature that is forwarded.                                          *)
LEMMA ForwardFacts ==
  ASSUME FeatureInv, ForwardFeature
  PROVE  /\ features < MaxFeatures /\ features' = features + 1
         /\ UNCHANGED <<out, inv, phase, snapshot, attached, model, shown, cascaded, unstored>>
         /\ \E m \in Feature :
              /\ m \in Message /\ m.op = "saf" /\ m.item = features + 1
              /\ SendToClient(m) /\ (saf' = Newest(m) \/ saf' = saf)
<1>1. features < MaxFeatures /\ features' = features + 1
  BY DEF ForwardFeature
<1>2. PICK t \in Stamps :
        LET f == [op |-> "saf", item |-> features', t |-> t]
        IN  (saf' = Newest(f) \/ saf' = saf) /\ SendToClient(f)
  BY DEF ForwardFeature
<1> DEFINE m == [op |-> "saf", item |-> features', t |-> t]
<1>3. features' \in 1 .. MaxFeatures
  BY <1>1, DataModelAssumption DEF FeatureInv
<1>4. m \in Feature /\ m.op = "saf" /\ m.item = features + 1
  BY <1>1, <1>3 DEF Feature
<1>5. SendToClient(m) /\ (saf' = Newest(m) \/ saf' = saf)
  BY <1>2
<1> HIDE DEF m
<1>6. UNCHANGED <<out, inv, phase, snapshot, attached, model, shown, cascaded, unstored>>
  BY DEF ForwardFeature
<1> QED
  BY <1>1, <1>4, <1>5, <1>6 DEF Message

(* Every step keeps the types and the phases.                              *)
LEMMA TypeInvInductive ==
  TypeInv /\ PhaseInv /\ FeatureInv /\ [Next]_vars => TypeInv' /\ PhaseInv'
<1> SUFFICES ASSUME TypeInv, PhaseInv, FeatureInv, [Next]_vars
             PROVE  TypeInv' /\ PhaseInv'
  OBVIOUS
<1>1. ASSUME NEW t \in Tools, PublishInventory(t) PROVE TypeInv' /\ PhaseInv'
  <2>1. out' \in [Tools -> Seq(Notifier)]
    BY <1>1, PublishType
  <2> QED
    BY <1>1, <2>1 DEF PublishInventory, TypeInv, PhaseInv, client
<1>2. ASSUME NEW t \in Tools, Quit(t) PROVE TypeInv' /\ PhaseInv'
  BY <1>2 DEF Quit, TypeInv, PhaseInv, client
<1>3. ASSUME NEW t \in Tools, ForwardInventory(t) PROVE TypeInv' /\ PhaseInv'
  <2> DEFINE n == Head(out[t])
  <2>1. out[t] \in Seq(Notifier) /\ out[t] # << >>
    BY <1>3 DEF ForwardInventory, TypeInv
  <2>2. n \in Notifier /\ Tail(out[t]) \in Seq(Notifier)
    BY <2>1
  <2>3. /\ SendToClient(n) /\ out' = [out EXCEPT ![t] = Tail(out[t])]
        /\ UNCHANGED <<phase, snapshot, attached, model, cascaded>>
        /\ \/ inv' = WriteInventory(n) /\ unstored' = unstored \ {n.item}
           \/ inv' = inv /\ unstored' = unstored \union {n.item}
    BY <1>3 DEF ForwardInventory
  <2> HIDE DEF n
  <2>4. n \in Message /\ n.item \in Items
    BY <2>2, NotifierFacts
  <2>5. inbox' \in Seq(Message) /\ missed' \subseteq Items
    BY <2>3, <2>4, SendType
  <2>6. inv' \subseteq Items /\ unstored' \subseteq Items
    BY <2>3, <2>4 DEF WriteInventory, TypeInv
  <2>7. out' \in [Tools -> Seq(Notifier)]
    BY <2>2, <2>3 DEF TypeInv
  <2>8. PhaseInv'
    BY <2>3 DEF PhaseInv, SendToClient
  <2> QED
    BY <2>3, <2>5, <2>6, <2>7, <2>8 DEF TypeInv
<1>4. CASE ForwardFeature
  <2>1. PICK m \in Message : SendToClient(m)
    BY <1>4, ForwardFacts
  <2>2. /\ SendToClient(m)
        /\ UNCHANGED <<out, inv, phase, snapshot, attached, model, cascaded, unstored>>
    BY <1>4, <2>1, ForwardFacts
  <2>3. inbox' \in Seq(Message) /\ missed' \subseteq Items
    BY <2>2, <2>1, SendType
  <2>4. PhaseInv'
    BY <2>2 DEF PhaseInv, SendToClient
  <2> QED
    BY <2>2, <2>3, <2>4 DEF TypeInv
<1>5. CASE Serve
  <2>1. PICK f \in Latest : snapshot' = [items |-> inv, feature |-> f]
    BY <1>5 DEF Serve
  <2>2. snapshot' \in [items : SUBSET Items, feature : Entry]
    BY <2>1, LatestFacts DEF TypeInv
  <2> QED
    BY <1>5, <2>2 DEF Serve, TypeInv, PhaseInv
<1>6. CASE Launch
  BY <1>6 DEF Launch, TypeInv, PhaseInv
<1>7. CASE ApplySnapshot \/ Timeout
  <2>1. NoSnapshot \in [items : SUBSET Items, feature : Entry]
    BY DEF NoSnapshot, Entry
  <2>2. model' \subseteq Items
    BY <1>7 DEF ApplySnapshot, Timeout, TypeInv
  <2> QED
    BY <1>7, <2>1, <2>2 DEF ApplySnapshot, Timeout, TypeInv, PhaseInv
<1>8. CASE Attach
  BY <1>8 DEF Attach, TypeInv, PhaseInv
<1>9. CASE Detach
  <2>1. /\ attached /\ attached' = FALSE
        /\ UNCHANGED <<out, inv, phase, snapshot, model, cascaded, unstored>>
    BY <1>9 DEF Detach
  <2>2. PICK k \in 0 .. Len(inbox) :
          /\ inbox' = SubSeq(inbox, 1, k)
          /\ missed' = missed \union
               {inbox[i].item : i \in {j \in k + 1 .. Len(inbox) : inbox[j].op # "saf"}}
    BY <1>9 DEF Detach
  <2>3. inbox \in Seq(Message) /\ Len(inbox) \in Nat
    BY DEF TypeInv
  <2>4. inbox' \in Seq(Message)
    BY <2>2, <2>3, PrefixFacts
  <2>5. missed' \subseteq Items
    <3>1. ASSUME NEW i \in k + 1 .. Len(inbox), inbox[i].op # "saf"
          PROVE  inbox[i].item \in Items
      <4>1. i \in 1 .. Len(inbox)
        BY <2>3
      <4>2. inbox[i] \in Message
        BY <2>3, <4>1
      <4> QED
        BY <3>1, <4>2, MessageFacts
    <3> QED
      BY <2>2, <3>1 DEF TypeInv
  <2>6. phase = "live"
    BY <2>1 DEF PhaseInv
  <2> QED
    BY <2>1, <2>4, <2>5, <2>6 DEF TypeInv, PhaseInv
<1>10. CASE Poll
  <2> DEFINE m == Head(inbox)
  <2>1. /\ phase = "live" /\ inbox # << >> /\ inbox' = Tail(inbox)
        /\ UNCHANGED <<out, inv, phase, snapshot, attached, missed, unstored>>
        /\ \/ model' = model /\ cascaded' = cascaded
           \/ m.op # "saf" /\ Apply(m)
    BY <1>10 DEF Poll
  <2>2. m \in Message /\ inbox' \in Seq(Message)
    BY <2>1, RestFacts DEF TypeInv
  <2> HIDE DEF m
  <2>3. ASSUME m.op # "saf", Apply(m)
        PROVE  model' \subseteq Items /\ cascaded' \subseteq Parts
    <3>1. m.item \in Items /\ model \subseteq Items /\ cascaded \subseteq Parts
      BY <2>2, <2>3, MessageFacts DEF TypeInv
    <3> QED
      BY <2>3, <3>1, ApplyOutcome
  <2>4. model' \subseteq Items /\ cascaded' \subseteq Parts
    BY <2>1, <2>3 DEF TypeInv
  <2> QED
    BY <2>1, <2>2, <2>4 DEF TypeInv, PhaseInv
<1>11. CASE UNCHANGED vars
  BY <1>11 DEF vars, client, TypeInv, PhaseInv
<1> QED
  BY <1>1, <1>2, <1>3, <1>4, <1>5, <1>6, <1>7, <1>8, <1>9, <1>10, <1>11 DEF Next

(* Every step keeps the bounds of runs and faults.                         *)
LEMMA CountInvInductive == CountInv /\ [Next]_vars => CountInv'
<1> SUFFICES ASSUME CountInv, [Next]_vars
             PROVE  CountInv'
  OBVIOUS
<1>1. MaxRuns \in Nat /\ MaxFaults \in Nat
  BY DataModelAssumption
<1>2. \/ runs' = runs /\ faults' = faults
      \/ runs < MaxRuns /\ runs' = runs + 1 /\ faults' = faults
      \/ faults < MaxFaults /\ faults' = faults + 1 /\ runs' = runs
  BY DEF Next, vars, PublishInventory, Quit, ForwardInventory, ForwardFeature, Serve, Launch,
         ApplySnapshot, Timeout, Attach, Detach, Poll
<1> QED
  BY <1>1, <1>2 DEF CountInv

-----------------------------------------------------------------------------
(* Features.                                                               *)

(* Every step keeps the features in their order.                           *)
LEMMA FeatureInvInductive == TypeInv /\ PhaseInv /\ FeatureInv /\ [Next]_vars => FeatureInv'
<1> SUFFICES ASSUME TypeInv, PhaseInv, FeatureInv, [Next]_vars
             PROVE  FeatureInv'
  OBVIOUS
<1>1. /\ MaxFeatures \in Nat /\ features \in Nat /\ features <= MaxFeatures
      /\ shown.item \in Nat /\ shown.item <= features
      /\ inbox \in Seq(Message) /\ Len(inbox) \in Nat
  BY DataModelAssumption DEF FeatureInv, TypeInv
<1>2. /\ \A i \in 1 .. Len(inbox) : inbox[i].op = "saf" =>
             inbox[i].item \in 1 .. features /\ shown.item < inbox[i].item
      /\ \A i, j \in 1 .. Len(inbox) :
             i < j /\ inbox[i].op = "saf" /\ inbox[j].op = "saf" => inbox[i].item < inbox[j].item
  BY DEF FeatureInv
<1>3. ASSUME NEW t \in Tools, PublishInventory(t) \/ Quit(t) PROVE FeatureInv'
  <2>1. UNCHANGED <<saf, snapshot, inbox, shown, features>>
    BY <1>3 DEF PublishInventory, Quit, client
  <2> QED
    BY <2>1 DEF FeatureInv
<1>4. ASSUME NEW t \in Tools, ForwardInventory(t) PROVE FeatureInv'
  <2> DEFINE n == Head(out[t])
  <2>1. n \in Message /\ n.op # "saf"
    <3>1. out[t] \in Seq(Notifier) /\ out[t] # << >>
      BY <1>4 DEF ForwardInventory, TypeInv
    <3>2. n \in Notifier
      BY <3>1
    <3> QED
      BY <3>2, NotifierFacts
  <2>2. SendToClient(n) /\ UNCHANGED <<saf, snapshot, shown, features>>
    BY <1>4 DEF ForwardInventory
  <2> HIDE DEF n
  <2>3. CASE inbox' = inbox
    BY <2>2, <2>3 DEF FeatureInv
  <2>4. CASE inbox' = Append(inbox, n)
    <3>1. /\ Len(inbox') = Len(inbox) + 1 /\ inbox'[Len(inbox) + 1] = n
          /\ \A i \in 1 .. Len(inbox) : inbox'[i] = inbox[i]
          /\ \A i \in 1 .. Len(inbox) + 1 : i \in 1 .. Len(inbox) \/ i = Len(inbox) + 1
      BY <1>1, <2>1, <2>4, MoreFacts
    <3>2. \A i \in 1 .. Len(inbox') : inbox'[i].op = "saf" =>
            i \in 1 .. Len(inbox) /\ inbox'[i] = inbox[i]
      BY <2>1, <3>1
    <3> QED
      BY <1>2, <2>2, <3>2 DEF FeatureInv
  <2> QED
    BY <2>2, <2>3, <2>4, SendOutcome
<1>5. CASE ForwardFeature
  <2>1. features < MaxFeatures /\ features' = features + 1 /\ UNCHANGED <<snapshot, shown>>
    BY <1>5, ForwardFacts
  <2>2. PICK m \in Feature :
          /\ m \in Message /\ m.op = "saf" /\ m.item = features + 1
          /\ SendToClient(m) /\ (saf' = Newest(m) \/ saf' = saf)
    BY <1>5, ForwardFacts
  <2>3. /\ saf' \subseteq Feature /\ \A f \in saf' : f.item \in 1 .. features'
        /\ \A f, g \in saf' : f.t = g.t
    <3>1. saf \subseteq Feature /\ (\A f \in saf : f.item \in 1 .. features)
          /\ \A f, g \in saf : f.t = g.t
      BY DEF FeatureInv
    <3>2. m.item \in 1 .. features' /\ \A f \in saf : f.item \in 1 .. features'
      BY <1>1, <2>1, <2>2, <3>1
    <3>3. /\ Newest(m) \subseteq saf \union {m}
          /\ \A g, h \in Newest(m) : g.t = h.t
      BY <3>1, NewestFacts
    <3> QED
      BY <2>2, <3>1, <3>2, <3>3
  <2>4. /\ features' \in 0 .. MaxFeatures
        /\ shown' \in Entry /\ shown'.item \in 0 .. features'
        /\ snapshot'.feature.item \in 0 .. features'
    BY <1>1, <2>1 DEF FeatureInv
  <2>5. CASE inbox' = inbox
    <3>1. \A i \in 1 .. Len(inbox') : inbox'[i].op = "saf" =>
            inbox'[i].item \in 1 .. features' /\ shown'.item < inbox'[i].item
      BY <1>1, <1>2, <2>1, <2>5
    <3> QED
      BY <1>2, <2>3, <2>4, <2>5, <3>1 DEF FeatureInv
  <2>6. CASE inbox' = Append(inbox, m)
    <3>1. /\ Len(inbox') = Len(inbox) + 1 /\ inbox'[Len(inbox) + 1] = m
          /\ \A i \in 1 .. Len(inbox) : inbox'[i] = inbox[i] /\ i < Len(inbox) + 1
          /\ \A i \in 1 .. Len(inbox) + 1 : i \in 1 .. Len(inbox) \/ i = Len(inbox) + 1
      BY <1>1, <2>2, <2>6, MoreFacts
    <3>2. \A i \in 1 .. Len(inbox') : inbox'[i].op = "saf" =>
            inbox'[i].item \in 1 .. features' /\ shown'.item < inbox'[i].item
      <4>1. m.item \in 1 .. features' /\ shown'.item < m.item
        BY <1>1, <2>1, <2>2, <2>4
      <4>2. \A i \in 1 .. Len(inbox) : inbox[i].op = "saf" =>
              inbox[i].item \in 1 .. features' /\ shown'.item < inbox[i].item
        BY <1>1, <1>2, <2>1
      <4> QED
        BY <3>1, <4>1, <4>2
    <3>3. ASSUME NEW i \in 1 .. Len(inbox'), NEW j \in 1 .. Len(inbox'),
                 i < j, inbox'[i].op = "saf", inbox'[j].op = "saf"
          PROVE  inbox'[i].item < inbox'[j].item
      <4>1. i \in 1 .. Len(inbox) /\ inbox'[i] = inbox[i]
        BY <1>1, <3>1, <3>3
      <4>2. CASE j \in 1 .. Len(inbox)
        BY <1>2, <3>1, <3>3, <4>1, <4>2
      <4>3. CASE j = Len(inbox) + 1
        <5>1. inbox[i].item \in 1 .. features
          BY <1>2, <3>3, <4>1
        <5>2. inbox'[j].item = features + 1
          BY <2>2, <3>1, <4>3
        <5> QED
          BY <1>1, <4>1, <5>1, <5>2
      <4> QED
        BY <3>1, <4>2, <4>3
    <3> QED
      BY <2>3, <2>4, <3>2, <3>3 DEF FeatureInv
  <2> QED
    BY <2>2, <2>5, <2>6, SendOutcome
<1>6. CASE Serve
  <2>1. /\ UNCHANGED <<saf, inbox, shown, features>>
        /\ \E f \in Latest : snapshot' = [items |-> inv, feature |-> f]
    BY <1>6 DEF Serve
  <2>2. snapshot'.feature.item \in 0 .. features
    BY <2>1, LatestFacts
  <2> QED
    BY <2>1, <2>2 DEF FeatureInv
<1>7. CASE Launch
  <2>1. UNCHANGED <<saf, snapshot, features>> /\ inbox' = << >> /\ shown' = NoFeature
    BY <1>7 DEF Launch
  <2>2. NoFeature \in Entry /\ NoFeature.item \in 0 .. features
    BY <1>1 DEF NoFeature, Entry
  <2> QED
    BY <2>1, <2>2 DEF FeatureInv
<1>8. CASE ApplySnapshot \/ Timeout
  <2>1. /\ UNCHANGED <<saf, features>> /\ inbox' = << >> /\ snapshot' = NoSnapshot
        /\ shown' = snapshot.feature \/ shown' = shown
    BY <1>8 DEF ApplySnapshot, Timeout, PhaseInv
  <2>2. shown' \in Entry /\ shown'.item \in 0 .. features
    BY <2>1 DEF FeatureInv, TypeInv
  <2>3. snapshot'.feature.item \in 0 .. features
    BY <1>1, <2>1 DEF NoSnapshot, NoFeature
  <2> QED
    BY <2>1, <2>2, <2>3 DEF FeatureInv
<1>9. CASE Attach
  BY <1>9 DEF Attach, FeatureInv
<1>10. CASE Detach
  <2>1. UNCHANGED <<saf, snapshot, shown, features>>
    BY <1>10 DEF Detach
  <2>2. PICK k \in 0 .. Len(inbox) : inbox' = SubSeq(inbox, 1, k)
    BY <1>10 DEF Detach
  <2>3. /\ Len(inbox') = k
        /\ \A i \in 1 .. k : inbox'[i] = inbox[i] /\ i \in 1 .. Len(inbox)
    BY <1>1, <2>2, PrefixFacts
  <2> QED
    BY <1>2, <2>1, <2>3 DEF FeatureInv
<1>11. CASE Poll
  <2>1. /\ inbox # << >> /\ inbox' = Tail(inbox) /\ UNCHANGED <<saf, snapshot, features>>
        /\ \/ Head(inbox).op = "saf" /\ shown' = Head(inbox)
           \/ shown' = shown
    BY <1>11 DEF Poll
  <2>2. /\ 1 \in 1 .. Len(inbox) /\ Head(inbox) = inbox[1] /\ Len(inbox') = Len(inbox) - 1
        /\ \A i \in 1 .. Len(inbox') : i + 1 \in 1 .. Len(inbox) /\ inbox'[i] = inbox[i + 1]
    BY <1>1, <2>1, RestFacts
  <2>3. \A i \in 1 .. Len(inbox') : inbox'[i].op = "saf" =>
          inbox'[i].item \in 1 .. features /\ shown'.item < inbox'[i].item
    <3> SUFFICES ASSUME NEW i \in 1 .. Len(inbox'), inbox'[i].op = "saf"
                 PROVE  inbox'[i].item \in 1 .. features /\ shown'.item < inbox'[i].item
      OBVIOUS
    <3>1. i + 1 \in 1 .. Len(inbox) /\ inbox'[i] = inbox[i + 1] /\ 1 < i + 1
      BY <2>2
    <3> QED
      BY <1>2, <2>1, <2>2, <3>1
  <2>4. ASSUME NEW i \in 1 .. Len(inbox'), NEW j \in 1 .. Len(inbox'),
               i < j, inbox'[i].op = "saf", inbox'[j].op = "saf"
        PROVE  inbox'[i].item < inbox'[j].item
    <3>1. /\ i + 1 \in 1 .. Len(inbox) /\ inbox'[i] = inbox[i + 1]
          /\ j + 1 \in 1 .. Len(inbox) /\ inbox'[j] = inbox[j + 1] /\ i + 1 < j + 1
      BY <2>2, <2>4
    <3> QED
      BY <1>2, <2>4, <3>1
  <2>5. shown' \in Entry /\ shown'.item \in 0 .. features
    <3>1. CASE shown' = shown
      BY <3>1 DEF FeatureInv
    <3>2. CASE Head(inbox).op = "saf" /\ shown' = Head(inbox)
      <4>1. inbox[1] \in Message /\ shown' = inbox[1]
        BY <1>1, <2>2, <3>2
      <4>2. shown' \in Feature
        BY <2>2, <3>2, <4>1 DEF Message, Notifier
      <4>3. shown'.item \in 1 .. features
        BY <1>2, <2>2, <3>2
      <4> QED
        BY <1>1, <4>2, <4>3 DEF Entry
    <3> QED
      BY <2>1, <3>1, <3>2
  <2> QED
    BY <2>1, <2>3, <2>4, <2>5 DEF FeatureInv
<1>12. CASE UNCHANGED vars
  BY <1>12 DEF vars, client, FeatureInv
<1> QED
  BY <1>3, <1>4, <1>5, <1>6, <1>7, <1>8, <1>9, <1>10, <1>11, <1>12 DEF Next

(* Between two states of a running client only a poll changes what it      *)
(* shows, and what it takes is newer.                                      *)
LEMMA ShownGrows ==
  ASSUME TypeInv, FeatureInv, [Next]_vars, phase = "live", phase' = "live"
  PROVE  shown'.item >= shown.item
<1>1. shown.item \in Nat
  BY DataModelAssumption DEF FeatureInv
<1>2. CASE Poll
  <2>1. /\ inbox # << >>
        /\ \/ Head(inbox).op = "saf" /\ shown' = Head(inbox)
           \/ shown' = shown
    BY <1>2 DEF Poll
  <2>2. 1 \in 1 .. Len(inbox) /\ Head(inbox) = inbox[1]
    BY <2>1, RestFacts DEF TypeInv
  <2>3. Head(inbox).op = "saf" => Head(inbox).item \in 1 .. features /\ shown.item < Head(inbox).item
    BY <2>2 DEF FeatureInv
  <2>4. features \in Nat
    BY DataModelAssumption DEF FeatureInv
  <2> QED
    BY <1>1, <2>1, <2>3, <2>4
<1>3. CASE ~Poll
  <2>1. shown' = shown
    BY <1>3 DEF Next, vars, client, PublishInventory, Quit, ForwardInventory, ForwardFeature, Serve,
                Launch, ApplySnapshot, Timeout, Attach, Detach
  <2> QED
    BY <1>1, <2>1
<1> QED
  BY <1>2, <1>3

-----------------------------------------------------------------------------
(* What the inbox tells.                                                   *)

(* A message at the end changes nothing for those before it, of other      *)
(* items or of one in doubt.                                               *)
LEMMA SaidBefore ==
  ASSUME NEW q \in Seq(Message), NEW m \in Message, NEW k \in 1 .. Len(q),
         NEW before, NEW doubtsBefore, NEW after, NEW doubts,
         Said(q, k, before, doubtsBefore),
         \/ /\ q[k].item \in before <=> q[k].item \in after
            /\ q[k].item \in doubtsBefore => q[k].item \in doubts
         \/ q[k].item \in doubts
         \/ q[k].item = m.item /\ m.op = "add" /\ m.item \in after
         \/ q[k].item = m.item /\ m.op = "remove" /\ m.item \notin after
  PROVE  Said(Append(q, m), k, after, doubts)
<1> DEFINE r == Append(q, m)
<1>1. /\ Len(r) = Len(q) + 1 /\ r[Len(q) + 1] = m /\ Len(q) \in Nat
      /\ \A i \in 1 .. Len(q) : r[i] = q[i]
      /\ k < Len(q) + 1 /\ Len(q) + 1 \in 1 .. Len(r) /\ 1 .. Len(q) \subseteq 1 .. Len(r)
  BY MoreFacts
<1> HIDE DEF r
<1>2. \A op, i : LaterSays(q, k, op, i) => LaterSays(r, k, op, i)
  BY <1>1 DEF LaterSays
<1>3. LaterSays(r, k, m.op, m.item)
  BY <1>1 DEF LaterSays
<1>4. r[k] = q[k]
  BY <1>1
<1>5. Said(r, k, after, doubts)
  BY <1>2, <1>3, <1>4 DEF Said
<1> QED
  BY <1>5 DEF r

(* Every step keeps what the messages say of the table true, doubted or    *)
(* followed by the opposite.                                               *)
LEMMA InboxInvInductive ==
  TypeInv /\ PhaseInv /\ FeatureInv /\ InboxInv /\ [Next]_vars => InboxInv'
<1> SUFFICES ASSUME TypeInv, PhaseInv, FeatureInv, InboxInv, [Next]_vars
             PROVE  InboxInv'
  OBVIOUS
<1>1. inbox \in Seq(Message) /\ Len(inbox) \in Nat /\ missed \subseteq Items
  BY DEF TypeInv
<1>2. /\ \A k \in 1 .. Len(inbox) : Said(inbox, k, inv, unstored \union missed)
      /\ \A k \in 1 .. Len(inbox) : inbox[k] \in Message
  <2>1. \A k \in 1 .. Len(inbox) : Said(inbox, k, inv, unstored \union missed)
    BY DEF InboxInv
  <2>2. \A k \in 1 .. Len(inbox) : inbox[k] \in Message
    BY ONLY <1>1
  <2> QED
    BY <2>1, <2>2
<1>3. ASSUME NEW t \in Tools, PublishInventory(t) \/ Quit(t) PROVE InboxInv'
  <2>1. UNCHANGED <<inbox, inv, unstored, missed>>
    BY <1>3 DEF PublishInventory, Quit, client
  <2> QED
    BY <2>1 DEF InboxInv, Said, LaterSays
<1>4. ASSUME NEW t \in Tools, ForwardInventory(t) PROVE InboxInv'
  <2> DEFINE n == Head(out[t])
  <2>1. n \in Message /\ n.op \in {"add", "remove"} /\ n.item \in Items
    <3>1. out[t] \in Seq(Notifier) /\ out[t] # << >>
      BY <1>4 DEF ForwardInventory, TypeInv
    <3>2. n \in Notifier
      BY <3>1
    <3> QED
      BY <3>2, NotifierFacts
  <2>2. /\ SendToClient(n)
        /\ \/ inv' = WriteInventory(n) /\ unstored' = unstored \ {n.item}
           \/ inv' = inv /\ unstored' = unstored \union {n.item}
    BY <1>4 DEF ForwardInventory
  <2> HIDE DEF n
  <2>3. /\ \A i : i # n.item => (i \in inv <=> i \in inv') /\ (i \in unstored <=> i \in unstored')
        /\ \/ n.op = "add" /\ n.item \in inv'
           \/ n.op = "remove" /\ n.item \notin inv'
           \/ n.item \in unstored'
    BY <2>1, <2>2 DEF WriteInventory
  <2>4. CASE inbox' = inbox /\ missed' = missed \union ({n.item} \intersect Items)
    <3> SUFFICES ASSUME NEW k \in 1 .. Len(inbox)
                 PROVE  Said(inbox, k, inv', unstored' \union missed')
      BY <2>4 DEF InboxInv
    <3>1. n.item \in missed'
      BY <2>1, <2>4
    <3>2. CASE inbox[k].item = n.item
      BY <3>1, <3>2 DEF Said
    <3>3. CASE inbox[k].item # n.item
      BY <1>2, <2>3, <2>4, <3>3 DEF Said
    <3> QED
      BY <3>2, <3>3
  <2>5. CASE inbox' = Append(inbox, n) /\ missed' = missed \ {n.item}
    <3>1. /\ Len(inbox') = Len(inbox) + 1 /\ inbox'[Len(inbox) + 1] = n
          /\ \A i \in 1 .. Len(inbox) + 1 : i \in 1 .. Len(inbox) \/ i = Len(inbox) + 1
      BY <1>1, <2>1, <2>5, MoreFacts
    <3>2. ASSUME NEW k \in 1 .. Len(inbox)
          PROVE  Said(inbox', k, inv', unstored' \union missed')
      <4>1. Said(inbox, k, inv, unstored \union missed)
        BY <1>2
      <4>2. \/ /\ inbox[k].item \in inv <=> inbox[k].item \in inv'
               /\ inbox[k].item \in unstored \union missed
                    => inbox[k].item \in unstored' \union missed'
            \/ inbox[k].item \in unstored' \union missed'
            \/ inbox[k].item = n.item /\ n.op = "add" /\ n.item \in inv'
            \/ inbox[k].item = n.item /\ n.op = "remove" /\ n.item \notin inv'
        <5>1. CASE inbox[k].item # n.item
          BY <2>3, <2>5, <5>1
        <5>2. CASE inbox[k].item = n.item
          BY <2>3, <5>2
        <5> QED
          BY <5>1, <5>2
      <4> QED
        BY <1>1, <2>1, <2>5, <4>1, <4>2, SaidBefore
    <3>3. Said(inbox', Len(inbox) + 1, inv', unstored' \union missed')
      BY <2>1, <2>3, <3>1 DEF Said
    <3> QED
      BY <3>1, <3>2, <3>3 DEF InboxInv
  <2> QED
    BY <2>2, <2>4, <2>5, SendOutcome
<1>5. CASE ForwardFeature
  <2>1. PICK m \in Message : m.op = "saf" /\ SendToClient(m)
    BY <1>5, ForwardFacts
  <2>2. SendToClient(m) /\ UNCHANGED <<inv, unstored>>
    BY <1>5, <2>1, ForwardFacts
  <2>3. m.item \notin Items
    BY <2>1, MessageFacts
  <2>4. missed' = missed /\ (inbox' = inbox \/ inbox' = Append(inbox, m))
    BY <1>1, <2>2, <2>3, SendOutcome
  <2>5. CASE inbox' = inbox
    BY <1>2, <2>2, <2>4, <2>5 DEF InboxInv
  <2>6. CASE inbox' = Append(inbox, m)
    <3>1. /\ Len(inbox') = Len(inbox) + 1 /\ inbox'[Len(inbox) + 1] = m
          /\ \A i \in 1 .. Len(inbox) + 1 : i \in 1 .. Len(inbox) \/ i = Len(inbox) + 1
      BY <1>1, <2>1, <2>6, MoreFacts
    <3>2. ASSUME NEW k \in 1 .. Len(inbox)
          PROVE  Said(inbox', k, inv, unstored \union missed)
      <4>1. Said(inbox, k, inv, unstored \union missed)
        BY <1>2
      <4> QED
        BY <1>1, <2>1, <2>6, <4>1, SaidBefore
    <3>3. Said(inbox', Len(inbox) + 1, inv, unstored \union missed)
      BY <2>1, <3>1 DEF Said
    <3> QED
      BY <2>2, <2>4, <3>1, <3>2, <3>3 DEF InboxInv
  <2> QED
    BY <2>4, <2>5, <2>6
<1>6. CASE Serve \/ Launch \/ ApplySnapshot \/ Timeout
  <2>1. inbox' = << >>
    BY <1>6 DEF Serve, Launch, ApplySnapshot, Timeout, PhaseInv
  <2> QED
    BY <2>1 DEF InboxInv
<1>7. CASE Attach \/ UNCHANGED vars
  <2>1. UNCHANGED <<inbox, inv, unstored, missed>>
    BY <1>7 DEF Attach, vars, client
  <2> QED
    BY <2>1 DEF InboxInv, Said, LaterSays
<1>8. CASE Detach
  <2>1. UNCHANGED <<inv, unstored>>
    BY <1>8 DEF Detach
  <2>2. PICK k0 \in 0 .. Len(inbox) :
          /\ inbox' = SubSeq(inbox, 1, k0)
          /\ missed' = missed \union
               {inbox[i].item : i \in {j \in k0 + 1 .. Len(inbox) : inbox[j].op # "saf"}}
    BY <1>8 DEF Detach
  <2>3. /\ Len(inbox') = k0
        /\ \A i \in 1 .. k0 : inbox'[i] = inbox[i] /\ i \in 1 .. Len(inbox)
    BY <1>1, <2>2, PrefixFacts
  <2>4. \A i \in k0 + 1 .. Len(inbox) : inbox[i].op # "saf" => inbox[i].item \in missed'
    BY <2>2
  <2>5. ASSUME NEW k \in 1 .. k0, NEW op \in {"add", "remove"}, NEW i,
               LaterSays(inbox, k, op, i)
        PROVE  LaterSays(inbox', k, op, i) \/ i \in missed'
    <3>1. PICK j \in 1 .. Len(inbox) : k < j /\ inbox[j].op = op /\ inbox[j].item = i
      BY <2>5 DEF LaterSays
    <3>2. CASE j \in 1 .. k0
      BY <2>3, <3>1, <3>2 DEF LaterSays
    <3>3. CASE j \in k0 + 1 .. Len(inbox)
      BY <2>4, <3>1, <3>3
    <3> QED
      BY <1>1, <3>2, <3>3
  <2>6. ASSUME NEW k \in 1 .. k0
        PROVE  Said(inbox', k, inv, unstored \union missed')
    <3>1. Said(inbox, k, inv, unstored \union missed) /\ inbox'[k] = inbox[k]
      BY <1>2, <2>3
    <3>2. missed \subseteq missed'
      BY <2>2
    <3> QED
      BY <2>5, <3>1, <3>2 DEF Said
  <2> QED
    BY <2>1, <2>3, <2>6 DEF InboxInv
<1>9. CASE Poll
  <2>1. inbox # << >> /\ inbox' = Tail(inbox) /\ UNCHANGED <<inv, unstored, missed>>
    BY <1>9 DEF Poll
  <2>2. /\ Len(inbox') = Len(inbox) - 1
        /\ \A i \in 1 .. Len(inbox') : i + 1 \in 1 .. Len(inbox) /\ inbox'[i] = inbox[i + 1]
    BY <1>1, <2>1, RestFacts
  <2>3. ASSUME NEW k \in 1 .. Len(inbox'), NEW op, NEW i, LaterSays(inbox, k + 1, op, i)
        PROVE  LaterSays(inbox', k, op, i)
    <3>1. PICK j \in 1 .. Len(inbox) : k + 1 < j /\ inbox[j].op = op /\ inbox[j].item = i
      BY <2>3 DEF LaterSays
    <3>2. j - 1 \in 1 .. Len(inbox') /\ k < j - 1 /\ (j - 1) + 1 = j
      BY <1>1, <2>2, <3>1
    <3>3. inbox'[j - 1] = inbox[j]
      BY <2>2, <3>2
    <3> QED
      BY <3>1, <3>2, <3>3 DEF LaterSays
  <2>4. ASSUME NEW k \in 1 .. Len(inbox')
        PROVE  Said(inbox', k, inv, unstored \union missed)
    <3>1. Said(inbox, k + 1, inv, unstored \union missed) /\ inbox'[k] = inbox[k + 1]
      BY <1>2, <2>2
    <3> QED
      BY <2>3, <3>1 DEF Said
  <2> QED
    BY <2>1, <2>4 DEF InboxInv
<1> QED
  BY <1>3, <1>4, <1>5, <1>6, <1>7, <1>8, <1>9 DEF Next

-----------------------------------------------------------------------------
(* The client's copy.                                                      *)

(* Every step keeps the copy of the client in line with the table where    *)
(* nothing is on the way.                                                  *)
LEMMA CopyInvInductive ==
  TypeInv /\ PhaseInv /\ FeatureInv /\ InboxInv /\ CopyInv /\ [Next]_vars => CopyInv'
<1> SUFFICES ASSUME TypeInv, PhaseInv, FeatureInv, InboxInv, CopyInv, [Next]_vars
             PROVE  CopyInv'
  OBVIOUS
<1>1. inbox \in Seq(Message) /\ Len(inbox) \in Nat /\ missed \subseteq Items
  BY DEF TypeInv
<1>2. /\ phase = "served" => \A i \in Items :
           (i \in snapshot.items <=> i \in inv) \/ i \in missed \union unstored
      /\ phase = "live" => \A i \in Items :
           \/ Named(inbox, i) \/ (i \in model <=> i \in inv)
           \/ i \in missed \union unstored \union cascaded
      /\ phase # "live" => inbox = << >>
  BY DEF CopyInv, PhaseInv
<1>3. ASSUME NEW t \in Tools, PublishInventory(t) \/ Quit(t) PROVE CopyInv'
  <2>1. UNCHANGED <<phase, snapshot, model, cascaded, inbox, inv, unstored, missed>>
    BY <1>3 DEF PublishInventory, Quit, client
  <2> QED
    BY <2>1 DEF CopyInv, Named
<1>4. ASSUME NEW m \in Message, \/ inbox' = inbox \/ inbox' = Append(inbox, m)
      PROVE  /\ \A i : Named(inbox, i) => Named(inbox', i)
             /\ inbox' = Append(inbox, m) /\ m.op # "saf" => Named(inbox', m.item)
  <2>1. CASE inbox' = inbox
    <3>1. inbox # Append(inbox, m)
      <4>1. Len(Append(inbox, m)) = Len(inbox) + 1
        BY <1>1, <1>4, MoreFacts
      <4> QED
        BY <1>1, <4>1
    <3> QED
      BY <2>1, <3>1
  <2>2. CASE inbox' = Append(inbox, m)
    <3>1. /\ Len(inbox') = Len(inbox) + 1 /\ inbox'[Len(inbox) + 1] = m
          /\ \A i \in 1 .. Len(inbox) : inbox'[i] = inbox[i]
      BY <1>1, <1>4, <2>2, MoreFacts
    <3>2. 1 .. Len(inbox) \subseteq 1 .. Len(inbox') /\ Len(inbox) + 1 \in 1 .. Len(inbox')
      BY <1>1, <3>1
    <3> QED
      BY <3>1, <3>2 DEF Named
  <2> QED
    BY <1>4, <2>1, <2>2
<1>5. ASSUME NEW t \in Tools, ForwardInventory(t) PROVE CopyInv'
  <2> DEFINE n == Head(out[t])
  <2>1. n \in Message /\ n.op # "saf" /\ n.item \in Items
    <3>1. out[t] \in Seq(Notifier) /\ out[t] # << >>
      BY <1>5 DEF ForwardInventory, TypeInv
    <3>2. n \in Notifier
      BY <3>1
    <3> QED
      BY <3>2, NotifierFacts
  <2>2. /\ SendToClient(n) /\ UNCHANGED <<phase, snapshot, model, cascaded, attached>>
        /\ \/ inv' = WriteInventory(n) /\ unstored' = unstored \ {n.item}
           \/ inv' = inv /\ unstored' = unstored \union {n.item}
    BY <1>5 DEF ForwardInventory
  <2> HIDE DEF n
  <2>3. \A i : i # n.item => (i \in inv <=> i \in inv') /\ (i \in unstored <=> i \in unstored')
    BY <2>2 DEF WriteInventory
  <2>4. \A i : i # n.item => (i \in missed <=> i \in missed')
    BY <2>2, SendOutcome
  <2>5. /\ inbox' = inbox \/ inbox' = Append(inbox, n)
        /\ n.item \in missed' \/ (attached /\ inbox' = Append(inbox, n))
    BY <2>1, <2>2, SendOutcome
  <2>6. /\ \A i : Named(inbox, i) => Named(inbox', i)
        /\ n.item \in missed' \/ (attached /\ Named(inbox', n.item))
    BY <1>4, <2>1, <2>5
  <2>7. ASSUME phase = "served", NEW i \in Items
        PROVE  (i \in snapshot.items <=> i \in inv') \/ i \in missed' \union unstored'
    <3>1. CASE i = n.item
      BY <2>6, <2>7, <3>1 DEF PhaseInv
    <3>2. CASE i # n.item
      BY <1>2, <2>3, <2>4, <2>7, <3>2
    <3> QED
      BY <3>1, <3>2
  <2>8. ASSUME phase = "live", NEW i \in Items
        PROVE  \/ Named(inbox', i) \/ (i \in model <=> i \in inv')
               \/ i \in missed' \union unstored' \union cascaded
    <3>1. CASE i = n.item
      BY <2>6, <3>1
    <3>2. CASE i # n.item
      BY <1>2, <2>3, <2>4, <2>6, <2>8, <3>2
    <3> QED
      BY <3>1, <3>2
  <2> QED
    BY <2>2, <2>7, <2>8 DEF CopyInv
<1>6. CASE ForwardFeature
  <2>1. PICK m \in Message : m.op = "saf" /\ SendToClient(m)
    BY <1>6, ForwardFacts
  <2>2. SendToClient(m) /\ UNCHANGED <<inv, unstored, phase, snapshot, model, cascaded>>
    BY <1>6, <2>1, ForwardFacts
  <2>3. m.item \notin Items
    BY <2>1, MessageFacts
  <2>4. missed' = missed /\ (inbox' = inbox \/ inbox' = Append(inbox, m))
    BY <1>1, <2>2, <2>3, SendOutcome
  <2>5. \A i : Named(inbox, i) => Named(inbox', i)
    BY <1>4, <2>1, <2>4
  <2> QED
    BY <1>2, <2>2, <2>4, <2>5 DEF CopyInv
<1>7. CASE Serve
  <2>1. phase' = "served" /\ snapshot'.items = inv /\ inv' = inv
    BY <1>7 DEF Serve
  <2> QED
    BY <2>1 DEF CopyInv
<1>8. CASE Launch
  BY <1>8 DEF Launch, CopyInv
<1>9. CASE ApplySnapshot
  <2>1. /\ phase = "served" /\ phase' = "live" /\ model' = snapshot.items
        /\ UNCHANGED <<inv, missed, unstored>>
    BY <1>9 DEF ApplySnapshot
  <2> QED
    BY <1>2, <2>1 DEF CopyInv
<1>10. CASE Timeout
  <2>1. phase' = "live" /\ missed' = Items
    BY <1>10 DEF Timeout
  <2> QED
    BY <2>1 DEF CopyInv
<1>11. CASE Attach \/ UNCHANGED vars
  <2>1. UNCHANGED <<phase, snapshot, model, cascaded, inbox, inv, unstored, missed>>
    BY <1>11 DEF Attach, vars, client
  <2> QED
    BY <2>1 DEF CopyInv, Named
<1>12. CASE Detach
  <2>1. UNCHANGED <<inv, unstored, phase, snapshot, model, cascaded>> /\ attached
    BY <1>12 DEF Detach
  <2>2. PICK k0 \in 0 .. Len(inbox) :
          /\ inbox' = SubSeq(inbox, 1, k0)
          /\ missed' = missed \union
               {inbox[i].item : i \in {j \in k0 + 1 .. Len(inbox) : inbox[j].op # "saf"}}
    BY <1>12 DEF Detach
  <2>3. /\ Len(inbox') = k0
        /\ \A i \in 1 .. k0 : inbox'[i] = inbox[i] /\ i \in 1 .. Len(inbox)
    BY <1>1, <2>2, PrefixFacts
  <2>4. /\ \A i \in k0 + 1 .. Len(inbox) : inbox[i].op # "saf" => inbox[i].item \in missed'
        /\ missed \subseteq missed'
    BY <2>2
  <2>5. ASSUME NEW i, Named(inbox, i)
        PROVE  Named(inbox', i) \/ i \in missed'
    <3>1. PICK k \in 1 .. Len(inbox) : inbox[k].op # "saf" /\ inbox[k].item = i
      BY <2>5 DEF Named
    <3>2. CASE k \in 1 .. k0
      BY <2>3, <3>1, <3>2 DEF Named
    <3>3. CASE k \in k0 + 1 .. Len(inbox)
      BY <2>4, <3>1, <3>3
    <3> QED
      BY <1>1, <3>2, <3>3
  <2>6. phase = "live"
    BY <2>1 DEF PhaseInv
  <2>7. \A i \in Items : \/ Named(inbox', i) \/ (i \in model <=> i \in inv)
                         \/ i \in missed' \union unstored \union cascaded
    BY <1>2, <2>4, <2>5, <2>6
  <2> QED
    BY <2>1, <2>6, <2>7 DEF CopyInv
<1>13. CASE Poll
  <2> DEFINE m == Head(inbox)
  <2>1. /\ phase = "live" /\ inbox # << >> /\ inbox' = Tail(inbox)
        /\ UNCHANGED <<inv, phase, missed, unstored>>
        /\ \/ m.op = "saf" /\ model' = model /\ cascaded' = cascaded
           \/ m.op # "saf" /\ Apply(m)
    BY <1>13 DEF Poll
  <2>2. /\ Len(inbox') = Len(inbox) - 1 /\ 1 \in 1 .. Len(inbox) /\ m = inbox[1] /\ m \in Message
        /\ \A i \in 1 .. Len(inbox') : i + 1 \in 1 .. Len(inbox) /\ inbox'[i] = inbox[i + 1]
    BY <1>1, <2>1, RestFacts
  <2> HIDE DEF m
  <2>3. ASSUME NEW k \in 1 .. Len(inbox), k > 1, inbox[k].op # "saf"
        PROVE  Named(inbox', inbox[k].item)
    <3>1. k - 1 \in 1 .. Len(inbox') /\ (k - 1) + 1 = k
      BY <1>1, <2>2, <2>3
    <3>2. inbox'[k - 1] = inbox[k]
      BY <2>2, <3>1
    <3> QED
      BY <2>3, <3>1, <3>2 DEF Named
  <2>4. ASSUME NEW i, Named(inbox, i), ~(m.op # "saf" /\ m.item = i)
        PROVE  Named(inbox', i)
    <3>1. PICK k \in 1 .. Len(inbox) : inbox[k].op # "saf" /\ inbox[k].item = i
      BY <2>4 DEF Named
    <3>2. k > 1
      BY <2>2, <2>4, <3>1
    <3> QED
      BY <2>3, <3>1, <3>2
  <2>5. ASSUME m.op = "saf", NEW i \in Items
        PROVE  \/ Named(inbox', i) \/ (i \in model' <=> i \in inv)
               \/ i \in missed \union unstored \union cascaded'
    BY <1>2, <2>1, <2>4, <2>5
  <2>6. ASSUME m.op # "saf", NEW i \in Items, m.item = i
        PROVE  \/ Named(inbox', i) \/ (i \in model' <=> i \in inv)
               \/ i \in missed \union unstored \union cascaded'
    <3>1. ASSUME NEW op \in {"add", "remove"}, LaterSays(inbox, 1, op, i)
          PROVE  Named(inbox', i)
      <4>1. PICK j \in 1 .. Len(inbox) : 1 < j /\ inbox[j].op = op /\ inbox[j].item = i
        BY <3>1 DEF LaterSays
      <4>2. j > 1 /\ inbox[j].op # "saf"
        BY <3>1, <4>1
      <4> QED
        BY <2>3, <4>1, <4>2
    <3>2. Said(inbox, 1, inv, unstored \union missed)
      BY <2>2 DEF InboxInv
    <3>3. Apply(m) /\ m.op \in {"add", "remove"}
      BY <2>1, <2>2, <2>6, MessageFacts
    <3>4. m.op = "add" => i \in model'
      BY <2>6, <3>3, ApplyOutcome
    <3>5. m.op = "remove" => i \notin model'
      BY <2>6, <3>3, ApplyOutcome
    <3> QED
      BY <2>2, <2>6, <3>1, <3>2, <3>3, <3>4, <3>5 DEF Said
  <2>7. ASSUME m.op # "saf", NEW i \in Items, m.item # i
        PROVE  \/ Named(inbox', i) \/ (i \in model' <=> i \in inv)
               \/ i \in missed \union unstored \union cascaded'
    <3>1. Apply(m)
      BY <2>1, <2>7
    <3>2. i \in cascaded' \/ ((i \in model' <=> i \in model) /\ (i \in cascaded => i \in cascaded'))
      BY <2>7, <3>1, ApplyOutcome
    <3> QED
      BY <1>2, <2>1, <2>4, <2>7, <3>2
  <2> QED
    BY <2>1, <2>5, <2>6, <2>7 DEF CopyInv
<1> QED
  BY <1>3, <1>5, <1>6, <1>7, <1>8, <1>9, <1>10, <1>11, <1>12, <1>13 DEF Next

-----------------------------------------------------------------------------
(* The invariant and what follows from it.                                 *)

DataInv == TypeInv /\ CountInv /\ PhaseInv /\ FeatureInv /\ InboxInv /\ CopyInv

(* The parts of the invariant, in every behaviour.                         *)
LEMMA DataInvAlways == Spec => []DataInv
<1>1. Init => DataInv
  <2> SUFFICES ASSUME Init
               PROVE  DataInv
    OBVIOUS
  <2>1. /\ out = [t \in Tools |-> << >>] /\ inv = {} /\ saf = {} /\ phase = "asking"
        /\ snapshot = NoSnapshot /\ ~attached /\ inbox = << >> /\ model = {} /\ shown = NoFeature
        /\ features = 0 /\ missed = {} /\ unstored = {} /\ cascaded = {}
        /\ runs = 0 /\ faults = 0
    BY DEF Init
  <2>2. /\ NoSnapshot \in [items : SUBSET Items, feature : Entry]
        /\ NoSnapshot.feature = NoFeature /\ NoFeature \in Entry /\ NoFeature.item = 0
    BY DEF NoSnapshot, NoFeature, Entry
  <2>3. << >> \in Seq(Message) /\ << >> \in Seq(Notifier)
    OBVIOUS
  <2>4. TypeInv
    BY <2>1, <2>2, <2>3 DEF TypeInv
  <2>5. CountInv /\ PhaseInv /\ FeatureInv
    BY <2>1, <2>2, DataModelAssumption DEF CountInv, PhaseInv, FeatureInv
  <2>6. InboxInv /\ CopyInv
    BY <2>1 DEF InboxInv, CopyInv
  <2> QED
    BY <2>4, <2>5, <2>6 DEF DataInv
<1>2. DataInv /\ [Next]_vars => DataInv'
  BY TypeInvInductive, CountInvInductive, FeatureInvInductive, InboxInvInductive, CopyInvInductive
  DEF DataInv
<1> QED
  BY <1>1, <1>2, PTL DEF Spec

(* Attached is a flag in every behaviour.                                  *)
LEMMA AttachedIsBoolean == Spec => [](attached \in BOOLEAN)
<1>1. Init => attached \in BOOLEAN
  BY DEF Init
<1>2. attached \in BOOLEAN /\ [Next]_vars => (attached \in BOOLEAN)'
  BY DEF Next, vars, client, PublishInventory, Quit, ForwardInventory, ForwardFeature, Serve,
         Launch, ApplySnapshot, Timeout, Attach, Detach, Poll
<1> QED
  BY <1>1, <1>2, PTL DEF Spec

(* The parts of the invariant give every variable its type.                *)
LEMMA DataTypes ==
  ASSUME DataInv, attached \in BOOLEAN
  PROVE  TypeOK
<1>1. /\ features \in 0 .. MaxFeatures /\ saf \subseteq Feature
      /\ \A f, g \in saf : f.t = g.t
      /\ shown \in Feature \union {NoFeature}
  BY DEF DataInv, FeatureInv, Entry
<1>2. \A t \in Tools : out[t] \in Seq(Notifier)
  BY DEF DataInv, TypeInv
<1>3. /\ inv \subseteq Items /\ phase \in {"asking", "served", "live"}
      /\ snapshot \in [items : SUBSET Items, feature : Feature \union {NoFeature}]
      /\ inbox \in Seq(Notifier \union Feature) /\ model \subseteq Items
      /\ missed \subseteq Items /\ unstored \subseteq Items /\ cascaded \subseteq Parts
      /\ runs \in 0 .. MaxRuns /\ faults \in 0 .. MaxFaults
  BY DEF DataInv, TypeInv, CountInv, Message, Entry
<1> QED
  BY <1>1, <1>2, <1>3, Zenon DEF TypeOK

(* The part about the copy gives the property.                             *)
LEMMA CopiesAgree ==
  ASSUME DataInv
  PROVE  CopyAgrees
<1>1. inbox \in Seq(Message) /\ DOMAIN inbox = 1 .. Len(inbox)
  BY DEF DataInv, TypeInv
<1>2. \A i \in Items \ Pending : ~Named(inbox, i)
  BY <1>1 DEF Pending, Named
<1> QED
  BY <1>2 DEF DataInv, CopyInv, CopyAgrees

(* The part about the messages gives the property.                         *)
LEMMA InboxTells ==
  ASSUME DataInv
  PROVE  ReadableWhenTold
<1>1. inbox \in Seq(Message) /\ DOMAIN inbox = 1 .. Len(inbox) /\ Len(inbox) \in Nat
  BY DEF DataInv, TypeInv
<1>2. ASSUME NEW k \in 1 .. Len(inbox), inbox[k].op = "add"
      PROVE  \/ inbox[k].item \in inv \union unstored \union missed
             \/ \E j \in k + 1 .. Len(inbox) :
                  inbox[j] = [op |-> "remove", item |-> inbox[k].item]
  <2>1. Said(inbox, k, inv, unstored \union missed)
    BY DEF DataInv, InboxInv
  <2>2. CASE LaterSays(inbox, k, "remove", inbox[k].item)
    <3>1. PICK j \in 1 .. Len(inbox) :
            k < j /\ inbox[j].op = "remove" /\ inbox[j].item = inbox[k].item
      BY <2>2 DEF LaterSays
    <3>2. j \in k + 1 .. Len(inbox) /\ inbox[j] \in Message
      BY <1>1, <3>1
    <3>3. inbox[j] \in Notifier
      BY <3>1, <3>2, MessageFacts
    <3>4. inbox[j] = [op |-> "remove", item |-> inbox[k].item]
      BY <3>1, <3>3 DEF Notifier
    <3> QED
      BY <3>2, <3>4
  <2> QED
    BY <1>2, <2>1, <2>2 DEF Said
<1>3. DOMAIN inbox = 1 .. Len(inbox)
  BY <1>1
<1> QED
  BY <1>2, <1>3 DEF ReadableWhenTold

(* Every variable keeps its type.                                          *)
THEOREM TypeTheorem == Spec => []TypeOK
BY DataInvAlways, AttachedIsBoolean, DataTypes, PTL

(* applyInventory on top of the snapshot: a running client has the         *)
(* database's copy of every item it has nothing to read about, save those  *)
(* it could not be told of, the writes that failed, and the parts that     *)
(* went with their structure.                                              *)
THEOREM CopyTheorem == Spec => []CopyAgrees
BY DataInvAlways, CopiesAgree, PTL

(* forwardData writes before it sends: what the inbox says has been added  *)
(* is in the table, unless the write failed or a removal follows.          *)
THEOREM ReadableTheorem == Spec => []ReadableWhenTold
BY DataInvAlways, InboxTells, PTL

(* Snapshot first, subscription second: a running client never goes back   *)
(* to a feature that was forwarded before the one it shows, whatever the   *)
(* time stamps are (applyFeature does not compare them).                   *)
THEOREM NewerTheorem == Spec => NeverOlder
<1>1. DataInv /\ [Next]_vars =>
        [phase = "live" /\ phase' = "live" => shown'.item >= shown.item]_vars
  BY ShownGrows DEF DataInv
<1> QED
  BY <1>1, DataInvAlways, PTL DEF Spec, NeverOlder
=============================================================================

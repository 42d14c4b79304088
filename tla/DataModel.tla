----------------------------- MODULE DataModel -----------------------------
(***************************************************************************)
(* The data model and its copies: tpinv publishes inventory notifiers and  *)
(* tpproc features; tpmaster writes each to its database and then forwards *)
(* it (forwardData); a thin client (InventoryModel) starts from a snapshot *)
(* of the database and goes on with what is forwarded.                     *)
(*                                                                         *)
(* Sensors and channels are both "parts" of a structure: the database and  *)
(* the client keep each under a key of its own.  One channel stands for    *)
(* the features; a record has its place in the order of forwarding and its *)
(* time stamp, the start of its window, which need not grow: raw messages  *)
(* overtake one another and a device that restarts sets its clock back.    *)
(***************************************************************************)
EXTENDS Naturals, FiniteSets, SequencesExt

CONSTANTS
  Structures, Parts,
  Owner,        (* the structure a part belongs to                         *)
  Tools,        (* the tpinv processes that may run at the same time       *)
  MaxRuns,      (* bound of the runs of tpinv                              *)
  MaxFeatures,  (* bound of the features forwarded                         *)
  Stamps,       (* the time stamps they may carry                          *)
  MaxFaults     (* bound of failed writes, broken links and relaunches     *)

ASSUME DataModelAssumption ==
  /\ Structures \intersect Parts = {} /\ IsFiniteSet(Parts)
  /\ (Structures \union Parts) \intersect (1 .. MaxFeatures) = {}
  /\ Owner \in [Parts -> Structures]
  /\ Stamps \subseteq Nat
  /\ MaxRuns \in Nat /\ MaxFeatures \in Nat /\ MaxFaults \in Nat

Items == Structures \union Parts

Notifier == [op : {"add", "remove"}, item : Items]
Feature  == [op : {"saf"}, item : 1 .. MaxFeatures, t : Stamps]

NoFeature == [op |-> "saf", item |-> 0, t |-> 0]

VARIABLES
  out,       (* notifiers each tpinv has published and tpmaster not read   *)
  inv,       (* the inv_ tables of the database                            *)
  saf,       (* the rows of saf_index with the largest t_ms                *)
  phase,     (* where the constructor of the client has got to             *)
  snapshot,  (* the answer on its way to the client                        *)
  attached,  (* tpmaster knows the client's subscriptions                  *)
  inbox,     (* forwarded to the client and not yet polled                 *)
  model,     (* m_structures, m_sensors, m_channels                        *)
  shown,     (* the entry in m_safState, NoFeature when none               *)
  features,  (* features forwarded so far                                  *)
  missed,    (* history: items of notifiers the client cannot receive      *)
  unstored,  (* history: items whose last notifier could not be written    *)
  cascaded,  (* history: parts the client dropped with their structure     *)
  runs, faults

NoSnapshot == [items |-> {}, feature |-> NoFeature]

client == <<phase, snapshot, attached, inbox, model, shown, missed, cascaded>>
vars == <<out, inv, saf, client, features, unstored, runs, faults>>

Init ==
  /\ out = [t \in Tools |-> << >>] /\ inv = {} /\ saf = {}
  /\ phase = "asking" /\ snapshot = NoSnapshot
  /\ attached = FALSE /\ inbox = << >> /\ model = {} /\ shown = NoFeature
  /\ features = 0 /\ missed = {} /\ unstored = {} /\ cascaded = {}
  /\ runs = 0 /\ faults = 0

-----------------------------------------------------------------------------
(* tpinv.                                                                  *)

(* publishInventory: a structure and the parts its file lists, in the      *)
(* order of the tree, whether they are added or removed.                   *)
PublishInventory(t) ==
  /\ out[t] = << >> /\ runs < MaxRuns
  /\ runs' = runs + 1
  /\ \E op \in {"add", "remove"}, s \in Structures,
        listed \in SUBSET Parts :
       /\ \A p \in listed : Owner[p] = s
       /\ LET items == <<s>> \o SetToSeq(listed) IN
          out' = [out EXCEPT ![t] =
                    [i \in DOMAIN items |-> [op |-> op, item |-> items[i]]]]
  /\ UNCHANGED <<inv, saf, client, features, unstored, faults>>

(* The process ends: what its socket still holds is gone (linger 0).       *)
Quit(t) ==
  /\ out[t] # << >>
  /\ out' = [out EXCEPT ![t] = << >>]
  /\ UNCHANGED <<inv, saf, client, features, unstored, runs, faults>>

-----------------------------------------------------------------------------
(* tpmaster.                                                               *)

(* Parts have a kind that writeInventory does not know.                    *)
FaultyWriteInventory(n) ==
  IF n.item \in Parts THEN inv
  ELSE IF n.op = "remove" THEN inv \ {n.item} ELSE inv \union {n.item}

(* writeInventory: one row; nothing hangs on the row of a structure.       *)
WriteInventory(n) ==
  IF n.op = "remove" THEN inv \ {n.item} ELSE inv \union {n.item}

(* The backend hands the message to every subscriber there is.             *)
SendToClient(m) ==
  IF attached
  THEN /\ inbox' = Append(inbox, m)
       /\ missed' = missed \ {m.item}
  ELSE /\ missed' = missed \union ({m.item} \intersect Items)
       /\ UNCHANGED inbox

(* forwardData of a notifier: the result of the write is not looked at.    *)
ForwardInventory(t) ==
  /\ out[t] # << >>
  /\ LET n == Head(out[t]) IN
       /\ \/ /\ inv' = WriteInventory(n)
             /\ unstored' = unstored \ {n.item}
             /\ UNCHANGED faults
          \/ /\ faults < MaxFaults
             /\ faults' = faults + 1
             /\ unstored' = unstored \union {n.item}
             /\ UNCHANGED inv
       /\ SendToClient(n)
  /\ out' = [out EXCEPT ![t] = Tail(out[t])]
  /\ UNCHANGED <<saf, phase, snapshot, attached, model, shown, cascaded,
                 features, runs>>

(* The rows of the smaller time stamps are kept as well.                   *)
FaultyNewest(f) == saf \union {f}

(* writeSaf inserts a row; the rows with MAX(t_ms) are the latest.         *)
Newest(f) ==
  LET rows == saf \union {f} IN {r \in rows : \A o \in rows : o.t <= r.t}

(* forwardData of the next feature; again the write may have failed.       *)
ForwardFeature ==
  /\ features < MaxFeatures
  /\ features' = features + 1
  /\ \E t \in Stamps :
       LET f == [op |-> "saf", item |-> features', t |-> t] IN
         /\ \/ saf' = Newest(f) /\ UNCHANGED faults
            \/ /\ faults < MaxFaults
               /\ faults' = faults + 1
               /\ UNCHANGED saf
         /\ SendToClient(f)
  /\ UNCHANGED <<out, inv, phase, snapshot, attached, model, shown, cascaded,
                 unstored, runs>>

(* Of rows with the same time stamp the client keeps the last it applies.  *)
Latest == IF saf = {} THEN {NoFeature} ELSE saf

(* The snapshot has the structures only.                                   *)
FaultyServe ==
  /\ phase = "asking"
  /\ phase' = "served"
  /\ \E f \in Latest :
       snapshot' = [items |-> inv \intersect Structures, feature |-> f]
  /\ missed' = {}
  /\ UNCHANGED <<out, inv, saf, attached, inbox, model, shown, cascaded,
                 features, unstored, runs, faults>>

(* The control socket answers with all rows and the latest features.       *)
Serve ==
  /\ phase = "asking"
  /\ phase' = "served"
  /\ \E f \in Latest : snapshot' = [items |-> inv, feature |-> f]
  /\ missed' = {}
  /\ UNCHANGED <<out, inv, saf, attached, inbox, model, shown, cascaded,
                 features, unstored, runs, faults>>

-----------------------------------------------------------------------------
(* The thin client.                                                        *)

(* The constructor subscribes before it asks for the snapshot.             *)
FaultyLaunch ==
  /\ phase = "live" /\ faults < MaxFaults
  /\ faults' = faults + 1
  /\ phase' = "asking" /\ attached' = TRUE /\ inbox' = << >>
  /\ model' = {} /\ shown' = NoFeature /\ cascaded' = {} /\ missed' = Items
  /\ UNCHANGED <<out, inv, saf, snapshot, features, unstored, runs>>

(* The client is closed and started anew.                                  *)
Launch ==
  /\ phase = "live" /\ faults < MaxFaults
  /\ faults' = faults + 1
  /\ phase' = "asking" /\ attached' = FALSE /\ inbox' = << >>
  /\ model' = {} /\ shown' = NoFeature /\ cascaded' = {} /\ missed' = Items
  /\ UNCHANGED <<out, inv, saf, snapshot, features, unstored, runs>>

(* requestSnapshot takes the answer, and the constructor subscribes.       *)
ApplySnapshot ==
  /\ phase = "served"
  /\ phase' = "live"
  /\ model' = snapshot.items
  /\ shown' = snapshot.feature
  /\ snapshot' = NoSnapshot
  /\ UNCHANGED <<out, inv, saf, attached, inbox, missed, cascaded,
                 features, unstored, runs, faults>>

(* No answer within 1.5 s: the client starts empty.                        *)
Timeout ==
  /\ phase \in {"asking", "served"}
  /\ phase' = "live"
  /\ missed' = Items
  /\ snapshot' = NoSnapshot
  /\ UNCHANGED <<out, inv, saf, attached, inbox, model, shown,
                 cascaded, features, unstored, runs, faults>>

(* The subscriptions, or those of a socket that reconnects, reach tpmaster.*)
Attach ==
  /\ phase = "live" /\ ~attached
  /\ attached' = TRUE
  /\ UNCHANGED <<out, inv, saf, phase, snapshot, inbox, model, shown, missed,
                 cascaded, features, unstored, runs, faults>>

(* The link of the client breaks with messages on it.                      *)
Detach ==
  /\ attached /\ faults < MaxFaults
  /\ faults' = faults + 1
  /\ attached' = FALSE
  /\ \E k \in 0 .. Len(inbox) :
       /\ inbox' = SubSeq(inbox, 1, k)
       /\ missed' = missed \union
            {inbox[i].item : i \in {j \in k + 1 .. Len(inbox) : inbox[j].op # "saf"}}
  /\ UNCHANGED <<out, inv, saf, phase, snapshot, model, shown, cascaded,
                 features, unstored, runs>>

(* applyInventory: a structure goes with all its parts.                    *)
Apply(n) ==
  LET gone == {p \in Parts : Owner[p] = n.item} IN
  CASE n.op = "add" ->
         model' = model \union {n.item} /\ cascaded' = cascaded \ {n.item}
    [] n.op = "remove" /\ n.item \in Structures ->
         model' = model \ (gone \union {n.item}) /\ cascaded' = cascaded \union gone
    [] OTHER ->
         model' = model \ {n.item} /\ cascaded' = cascaded \ {n.item}

(* poll, one message; a feature replaces the entry whatever its time stamp. *)
Poll ==
  /\ phase = "live" /\ inbox # << >>
  /\ LET m == Head(inbox) IN
       IF m.op = "saf"
       THEN shown' = m /\ UNCHANGED <<model, cascaded>>
       ELSE Apply(m) /\ UNCHANGED shown
  /\ inbox' = Tail(inbox)
  /\ UNCHANGED <<out, inv, saf, phase, snapshot, attached, missed, features,
                 unstored, runs, faults>>

Next ==
  \/ \E t \in Tools : PublishInventory(t) \/ Quit(t) \/ ForwardInventory(t)
  \/ ForwardFeature \/ Serve
  \/ Launch \/ ApplySnapshot \/ Timeout \/ Attach \/ Detach \/ Poll

Spec == Init /\ [][Next]_vars

-----------------------------------------------------------------------------
TypeOK ==
  /\ \A t \in Tools : out[t] \in Seq(Notifier)
  /\ inv \subseteq Items /\ saf \subseteq Feature
  /\ \A f, g \in saf : f.t = g.t
  /\ phase \in {"asking", "served", "live"}
  /\ snapshot \in [items : SUBSET Items, feature : Feature \union {NoFeature}]
  /\ attached \in BOOLEAN /\ inbox \in Seq(Notifier \union Feature)
  /\ model \subseteq Items /\ shown \in Feature \union {NoFeature}
  /\ features \in 0 .. MaxFeatures
  /\ missed \subseteq Items /\ unstored \subseteq Items /\ cascaded \subseteq Parts
  /\ runs \in 0 .. MaxRuns /\ faults \in 0 .. MaxFaults

(* Items about which the client has something to read.                     *)
Pending ==
  LET named == {inbox[i].item : i \in {j \in DOMAIN inbox : inbox[j].op # "saf"}}
  IN  named \union {p \in Parts : Owner[p] \in named}

(* A running client has the database's copy of the data model, except for  *)
(* what it could not be told (a notifier between the snapshot and its      *)
(* subscription, or on a broken link), what could not be written, and the  *)
(* parts of a removed structure, which only the client drops.              *)
CopyAgrees ==
  phase = "live" =>
    \A i \in Items \ Pending :
      (i \in model) # (i \in inv) => i \in missed \union unstored \union cascaded

(* Write before notify: what a client is told has been added can be read   *)
(* from the database, unless the write failed or a removal has followed.   *)
ReadableWhenTold ==
  \A k \in DOMAIN inbox :
    LET i == inbox[k].item IN
    inbox[k].op = "add" =>
      \/ i \in inv \union unstored \union missed
      \/ \E j \in k + 1 .. Len(inbox) : inbox[j] = [op |-> "remove", item |-> i]

(* A running client never goes back to a feature that was forwarded before *)
(* the one it shows: snapshot first and subscription second, or stale      *)
(* messages would be applied on top of the snapshot.  Its time stamp can   *)
(* go back, as applyFeature does not compare, but only where the features  *)
(* themselves were forwarded in that order.                                *)
NeverOlder ==
  [][phase = "live" /\ phase' = "live" => shown'.item >= shown.item]_vars
=============================================================================

------------------------------- MODULE RingLog -------------------------------
(***************************************************************************)
(* The ring on its own: one producer pushes records, a reader asks for     *)
(* them by wire number, at any moment and in any order.  `log` remembers   *)
(* everything that was pushed and `answer` the last reply of packet(), so  *)
(* that the reply can be compared with what the number stood for.          *)
(***************************************************************************)
EXTENDS SeedLinkRing, Sequences

CONSTANT MaxProduced   (* bound of the number of pushes                    *)

VARIABLES
  log,      (* history: every record pushed                                *)
  answer    (* the last answer of packet(), with the number asked for      *)

vars == <<slots, head, count, produced, log, answer>>

Init ==
  /\ RingInit
  /\ log = << >>
  /\ answer = [num |-> 0, res |-> "None", rec |-> NoRecord]

(* The server receives a record (ingest).                                  *)
Produce(r) ==
  /\ produced < MaxProduced
  /\ Push(r)
  /\ log' = Append(log, r)
  /\ UNCHANGED answer

(***************************************************************************)
(* The absolute numbers whose wire form packet() can still tell apart: at  *)
(* most SeqSpace - Half behind the window, less than Half past its start.  *)
(***************************************************************************)
Horizon == {n \in (Oldest - (SeqSpace - Half)) .. (Oldest + Half - 1) : n >= 0}

(* packet() asked for record n, which the reader knows as n % SeqSpace.    *)
AnswerTo(n) ==
  LET q == n % SeqSpace
  IN  [num |-> n,
       res |-> PacketResult(q),
       rec |-> IF PacketResult(q) = "Ok" THEN SlotOf(q).rec ELSE NoRecord]

Ask(n) ==
  /\ answer' = AnswerTo(n)
  /\ UNCHANGED <<slots, head, count, produced, log>>

Next ==
  \/ \E r \in Record : Produce(r)
  \/ \E n \in Horizon : Ask(n)

Spec == Init /\ [][Next]_vars

-----------------------------------------------------------------------------

(* The types of the ring's fields, of the history and of the last answer.  *)
TypeOK ==
  /\ slots \in [SlotIndex -> Slot]
  /\ head \in SlotIndex
  /\ count \in 0 .. Cap
  /\ produced \in Nat
  /\ log \in Seq(Record)
  /\ answer \in [num : Nat, res : {"None", "Ok", "TooOld", "Future"},
                 rec : Record \union {NoRecord}]

(* The bookkeeping that makes slot arithmetic safe: head is where record   *)
(* `produced` goes, count is the number of records the ring can still hold *)
(* of those pushed, and every retained record sits in its own slot under   *)
(* its own wire number (push() and the index packet() computes agree).     *)
WindowInv ==
  /\ produced = Len(log)
  /\ head = produced % Cap
  /\ count = (IF produced < Cap THEN produced ELSE Cap)
  /\ \A n \in Oldest .. (produced - 1) :
        slots[n % Cap] = [abs |-> n, wire |-> n % SeqSpace, rec |-> log[n + 1]]

(* Never wrong data: for every record a reader may ask for, packet() hands *)
(* out that very record if it is retained, says TooOld exactly when it has *)
(* been overwritten and Future exactly when it was not pushed yet, although*)
(* the reader's number has wrapped and the slots were reused.              *)
HonestAnswers ==
  \A n \in Horizon :
    /\ n >= produced => AnswerTo(n).res = "Future"
    /\ n < Oldest => AnswerTo(n).res = "TooOld"
    /\ n \in Oldest .. (produced - 1) =>
         AnswerTo(n) = [num |-> n, res |-> "Ok", rec |-> log[n + 1]]

Promise == INSTANCE RetentionLog WITH Behind <- SeqSpace - Half, Ahead <- Half

(* The ring implements the log it stands for: pushes append to it and      *)
(* packet(), asked by wire number, answers as the unbounded log would.     *)
RetentionPromise == Promise!Spec

=============================================================================

---------------------------- MODULE RingLogProofs ----------------------------
(***************************************************************************)
(* For every capacity, number space and set of records: the ring keeps its *)
(* window where packet() looks for it, packet() is right about every       *)
(* number a reader may ask for, and the ring implements the retention log. *)
(***************************************************************************)
EXTENDS RingLog, Facts

Inv == TypeOK /\ WindowInv

(* What Inv says of the window's edges.                                    *)
LEMMA WindowEdges ==
  ASSUME Inv
  PROVE  /\ produced \in Nat /\ count \in Nat /\ Oldest \in Nat
         /\ count <= Cap /\ count <= produced
         /\ Oldest + count = produced
         /\ count = 0 => produced = 0
         /\ Len(log) = produced
BY RingAssumption DEF Inv, TypeOK, WindowInv, Oldest

(* The number space, its half and the capacity as numbers.                 *)
LEMMA HalfBounds ==
  /\ Half \in Nat /\ Cap < Half /\ Half < SeqSpace
  /\ SeqSpace \in Nat \ {0} /\ Cap \in Nat \ {0}
BY RingAssumption DEF Half

(* Every push writes a well-formed slot.                                   *)
LEMMA FrameType ==
  ASSUME NEW r \in Record, produced \in Nat
  PROVE  Frame(r) \in Slot
<1>1. produced % SeqSpace \in Wire
  BY DivMod, HalfBounds DEF Wire
<1>. QED
  BY <1>1 DEF Frame, Slot, NextSeq

(* The empty ring.                                                         *)
LEMMA InitInv == Init => Inv
<1>. SUFFICES ASSUME Init PROVE Inv
  OBVIOUS
<1>. USE DEF Init, RingInit
<1>1. EmptySlot \in Slot /\ 0 \in SlotIndex /\ 0 % Cap = 0
  <2>1. 0 \in Wire /\ 0 \in SlotIndex
    BY HalfBounds DEF Wire, SlotIndex
  <2>2. (Cap * 0 + 0) % Cap = 0
    BY HalfBounds, ModOf
  <2>. QED
    BY <2>1, <2>2, HalfBounds DEF EmptySlot, Slot
<1>2. TypeOK
  BY <1>1, HalfBounds DEF TypeOK
<1>3. WindowInv
  BY <1>1, HalfBounds DEF WindowInv, Oldest
<1>. QED
  BY <1>2, <1>3 DEF Inv

(* A push keeps the window: the new record lands in the slot of the one    *)
(* that ages out, and in no slot of a record that stays.                   *)
LEMMA ProduceInv ==
  ASSUME Inv, NEW r \in Record, Produce(r)
  PROVE  Inv'
<1>1. Cap \in Nat \ {0} /\ produced \in Nat /\ produced' = produced + 1
  BY HalfBounds DEF Inv, TypeOK, Produce, Push
<1>2. log \in Seq(Record) /\ Len(log) = produced /\ log' = Append(log, r)
  BY DEF Inv, TypeOK, WindowInv, Produce
<1>3. /\ head = produced % Cap /\ head \in SlotIndex
      /\ slots \in [SlotIndex -> Slot]
      /\ slots' = [slots EXCEPT ![head] = Frame(r)]
      /\ head' = (head + 1) % Cap
  BY DEF Inv, TypeOK, WindowInv, Produce, Push, NextHead
<1>4. /\ count' = (IF produced' < Cap THEN produced' ELSE Cap)
      /\ Oldest \in Nat
      /\ Oldest' = (IF produced < Cap THEN Oldest ELSE Oldest + 1)
      /\ produced < Oldest' + Cap
  <2>1. count = (IF produced < Cap THEN produced ELSE Cap)
    BY DEF Inv, WindowInv
  <2>2. count' = (IF count < Cap THEN count + 1 ELSE count)
    BY DEF Produce, Push, NextCount
  <2>. QED
    BY <1>1, <2>1, <2>2 DEF Oldest
<1>5. TypeOK'
  <2>1. slots' \in [SlotIndex -> Slot]
    BY <1>1, <1>3, FrameType
  <2>2. head' \in SlotIndex
    BY <1>1, <1>3, DivMod DEF SlotIndex
  <2>3. count' \in 0 .. Cap
    BY <1>1, <1>4
  <2>4. log' \in Seq(Record)
    BY <1>2
  <2>. QED
    BY <1>1, <2>1, <2>2, <2>3, <2>4 DEF Inv, TypeOK, Produce
<1>6. /\ produced' = Len(log')
      /\ log'[produced + 1] = r
      /\ \A i \in 1 .. produced : log'[i] = log[i]
  BY <1>1, <1>2
<1>7. head' = produced' % Cap
  <2>1. produced \in Int
    BY <1>1
  <2>2. ((produced % Cap) + 1) % Cap = (produced + 1) % Cap
    BY <1>1, <2>1, ModSucc, Zenon
  <2>. QED
    BY <1>1, <1>3, <2>2, Zenon
<1>8. ASSUME NEW n \in Nat, Oldest' <= n, n <= produced
      PROVE  slots'[n % Cap] = [abs |-> n, wire |-> n % SeqSpace, rec |-> log'[n + 1]]
  <2>1. n % Cap \in SlotIndex
    BY <1>1, DivMod DEF SlotIndex
  <2>2. CASE n = produced
    <3>1. slots'[n % Cap] = Frame(r)
      BY <1>3, <2>2
    <3>. QED
      BY <3>1, <2>2, <1>6 DEF Frame, NextSeq
  <2>3. CASE n < produced
    <3>1. /\ n \in Int /\ produced \in Int
          /\ produced < n + Cap /\ Oldest <= n
      BY <1>1, <1>4, <1>8
    <3>2. n % Cap # produced % Cap
      BY <1>1, <2>3, <3>1, ModDistinct, Zenon
    <3>3. slots'[n % Cap] = slots[n % Cap]
      BY <1>3, <2>1, <3>2
    <3>4. n \in Oldest .. (produced - 1)
      BY <1>1, <1>4, <2>3, <3>1
    <3>5. slots[n % Cap] = [abs |-> n, wire |-> n % SeqSpace, rec |-> log[n + 1]]
      BY <3>4 DEF Inv, WindowInv
    <3>6. n + 1 \in 1 .. produced
      BY <1>1, <2>3
    <3>7. log'[n + 1] = log[n + 1]
      BY <1>6, <3>6
    <3>. QED
      BY <3>3, <3>5, <3>7
  <2>. QED
    BY <1>1, <1>8, <2>2, <2>3
<1>9. ASSUME NEW n \in Oldest' .. (produced' - 1)
      PROVE  slots'[n % Cap] = [abs |-> n, wire |-> n % SeqSpace, rec |-> log'[n + 1]]
  <2>1. n \in Nat /\ Oldest' <= n /\ n <= produced
    BY <1>1, <1>4
  <2>. QED
    BY <1>8, <2>1
<1>10. WindowInv'
  BY <1>4, <1>6, <1>7, <1>9 DEF WindowInv
<1>. QED
  BY <1>5, <1>10 DEF Inv

(* What a reader is answered has its type.                                 *)
LEMMA AnswerType ==
  ASSUME Inv, NEW n \in Horizon
  PROVE  AnswerTo(n) \in [num : Nat, res : {"None", "Ok", "TooOld", "Future"},
                          rec : Record \union {NoRecord}]
<1>1. n \in Nat
  BY WindowEdges, HalfBounds DEF Horizon
<1>2. PacketResult(n % SeqSpace) \in {"Ok", "TooOld", "Future"}
  BY DEF PacketResult
<1>3. CASE PacketResult(n % SeqSpace) = "Ok"
  <2>. DEFINE k == (Oldest + Forward(n % SeqSpace)) % Cap
  <2>1. n % SeqSpace \in Int /\ OldestSeq \in Int
    BY <1>1, WindowEdges, HalfBounds, DivMod DEF OldestSeq
  <2>2. Forward(n % SeqSpace) \in Int
    BY <2>1, HalfBounds, DivMod DEF Forward
  <2>3. Oldest + Forward(n % SeqSpace) \in Int
    BY <2>2, WindowEdges
  <2>4. k \in SlotIndex
    BY <2>3, HalfBounds, DivMod DEF SlotIndex
  <2>. HIDE DEF k
  <2>5. slots[k].rec \in Record \union {NoRecord}
    BY <2>4 DEF Inv, TypeOK, Slot
  <2>6. SlotOf(n % SeqSpace).rec \in Record \union {NoRecord}
    BY <2>5 DEF k, SlotOf
  <2>. QED
    BY <1>1, <1>2, <1>3, <2>6 DEF AnswerTo
<1>4. CASE PacketResult(n % SeqSpace) # "Ok"
  BY <1>1, <1>2, <1>4 DEF AnswerTo
<1>. QED
  BY <1>3, <1>4

(* The distance packet() computes from two wrapped numbers: exact for a    *)
(* number inside or ahead of the window, and at least Half for one behind. *)
LEMMA ForwardExact ==
  ASSUME Inv, NEW n \in Horizon
  PROVE  /\ n \in Nat /\ n < Oldest + Half
         /\ n >= Oldest => Forward(n % SeqSpace) = n - Oldest
         /\ n < Oldest => Forward(n % SeqSpace) \in Int /\ Forward(n % SeqSpace) >= Half
<1>1. /\ n \in Nat /\ n \in Int /\ Oldest \in Int /\ SeqSpace \in Nat \ {0}
      /\ Half \in Nat /\ Half < SeqSpace
      /\ Oldest - (SeqSpace - Half) <= n /\ n < Oldest + Half
  BY WindowEdges, HalfBounds DEF Horizon
<1>2. /\ Oldest <= n /\ n < Oldest + SeqSpace
          => ((n % SeqSpace) - (Oldest % SeqSpace)) % SeqSpace = n - Oldest
      /\ Oldest - SeqSpace <= n /\ n < Oldest
          => ((n % SeqSpace) - (Oldest % SeqSpace)) % SeqSpace = (n - Oldest) + SeqSpace
  BY <1>1, ModDistance, Zenon
<1>3. Forward(n % SeqSpace) = ((n % SeqSpace) - (Oldest % SeqSpace)) % SeqSpace
  BY DEF Forward, OldestSeq
<1>. HIDE DEF Forward
<1>4. CASE n >= Oldest
  BY <1>1, <1>2, <1>3, <1>4
<1>5. CASE n < Oldest
  <2>1. Forward(n % SeqSpace) = (n - Oldest) + SeqSpace
    BY <1>1, <1>2, <1>3, <1>5
  <2>. QED
    BY <1>1, <1>5, <2>1
<1>. QED
  BY <1>1, <1>4, <1>5

(* packet() is right about every number of the horizon.                    *)
LEMMA AnswersHonest == Inv => HonestAnswers
<1>. SUFFICES ASSUME Inv, NEW n \in Horizon
              PROVE  /\ n >= produced => AnswerTo(n).res = "Future"
                     /\ n < Oldest => AnswerTo(n).res = "TooOld"
                     /\ n \in Oldest .. (produced - 1) =>
                          AnswerTo(n) = [num |-> n, res |-> "Ok", rec |-> log[n + 1]]
  BY DEF HonestAnswers
<1>. DEFINE q == n % SeqSpace
<1>1. /\ n \in Nat /\ n < Oldest + Half
      /\ n >= Oldest => Forward(q) = n - Oldest
      /\ n < Oldest => Forward(q) \in Int /\ Forward(q) >= Half
  BY ForwardExact
<1>2. /\ produced \in Nat /\ count \in Nat /\ Oldest \in Nat
      /\ count <= Cap /\ Oldest + count = produced
      /\ count = 0 => produced = 0
      /\ Cap < Half /\ Half \in Nat /\ Cap \in Nat
  BY WindowEdges, HalfBounds
<1>. HIDE DEF q
<1>3. AnswerTo(n) = [num |-> n, res |-> PacketResult(q),
                     rec |-> IF PacketResult(q) = "Ok" THEN SlotOf(q).rec ELSE NoRecord]
  BY DEF AnswerTo, q
<1>4. n >= produced => PacketResult(q) = "Future"
  <2>1. n >= produced => ~(Forward(q) < count) /\ Forward(q) < Half
    BY <1>1, <1>2
  <2>. QED
    BY <2>1 DEF PacketResult
<1>5. n < Oldest => PacketResult(q) = "TooOld"
  <2>1. n < Oldest => ~(Forward(q) < count) /\ ~(Forward(q) < Half) /\ count # 0
    BY <1>1, <1>2
  <2>. QED
    BY <2>1 DEF PacketResult
<1>6. ASSUME n \in Oldest .. (produced - 1)
      PROVE  PacketResult(q) = "Ok" /\ SlotOf(q).rec = log[n + 1]
  <2>1. Forward(q) < count /\ count # 0 /\ Oldest + Forward(q) = n
    BY <1>1, <1>2, <1>6
  <2>2. slots[n % Cap] = [abs |-> n, wire |-> n % SeqSpace, rec |-> log[n + 1]]
    BY <1>6 DEF Inv, WindowInv
  <2>3. SlotOf(q) = slots[n % Cap]
    BY <2>1 DEF SlotOf
  <2>4. SlotOf(q).abs = n /\ SlotOf(q).rec = log[n + 1]
    BY <2>2, <2>3
  <2>. QED
    BY <2>1, <2>4 DEF PacketResult
<1>. QED
  BY <1>3, <1>4, <1>5, <1>6

(* Every step keeps the invariant; asking changes nothing but the answer.  *)
LEMMA StepInv == Inv /\ [Next]_vars => Inv'
<1>. SUFFICES ASSUME Inv, [Next]_vars PROVE Inv'
  OBVIOUS
<1>1. ASSUME NEW r \in Record, Produce(r) PROVE Inv'
  BY <1>1, ProduceInv
<1>2. ASSUME NEW n \in Horizon, Ask(n) PROVE Inv'
  <2>1. answer' \in [num : Nat, res : {"None", "Ok", "TooOld", "Future"},
                     rec : Record \union {NoRecord}]
    BY <1>2, AnswerType DEF Ask
  <2>2. UNCHANGED <<slots, head, count, produced, log>>
    BY <1>2 DEF Ask
  <2>. QED
    BY <2>1, <2>2 DEF Inv, TypeOK, WindowInv, Oldest
<1>3. CASE UNCHANGED vars
  BY <1>3 DEF Inv, TypeOK, WindowInv, Oldest, vars
<1>. QED
  BY <1>1, <1>2, <1>3 DEF Next

-----------------------------------------------------------------------------

(* Type correctness and the window invariant hold for every capacity and   *)
(* number space: head, count and the slot contents always agree with the   *)
(* number of pushes, across every reuse of the slots and every wrap.       *)
THEOREM WindowTheorem == Spec => [](TypeOK /\ WindowInv)
<1>1. Inv /\ [Next]_vars => Inv'
  BY StepInv
<1>2. Init => Inv
  BY InitInv
<1>3. Inv => TypeOK /\ WindowInv
  BY DEF Inv
<1>. QED
  BY <1>1, <1>2, <1>3, PTL DEF Spec

(* The ring keeps its types: positions are slots, never more slots are in  *)
(* use than there are, and the numbers it gives fit the number space.      *)
THEOREM TypeTheorem == Spec => []TypeOK
<1>1. TypeOK /\ WindowInv => TypeOK
  OBVIOUS
<1>. QED
  BY <1>1, WindowTheorem, PTL

(* packet() never hands out wrong data and reports every gap honestly, for *)
(* every reader that is less than half the number space off.               *)
THEOREM HonestTheorem == Spec => []HonestAnswers
<1>1. Inv => HonestAnswers
  BY AnswersHonest
<1>2. Inv <=> TypeOK /\ WindowInv
  BY DEF Inv
<1>. QED
  BY <1>1, <1>2, WindowTheorem, PTL

(* The answer of the ring is the answer of the log.                        *)
LEMMA SameAnswer ==
  ASSUME Inv
  PROVE  /\ Promise!Horizon = Horizon
         /\ \A n \in Horizon : AnswerTo(n) = Promise!AnswerTo(n)
<1>1. /\ produced \in Nat /\ Len(log) = produced
      /\ count = (IF produced < Cap THEN produced ELSE Cap)
  BY WindowEdges DEF Inv, WindowInv
<1>2. Promise!OldestKept = Oldest
  BY <1>1 DEF Promise!OldestKept, Promise!Retained, Oldest
<1>3. Promise!Horizon = Horizon
  BY <1>2 DEF Promise!Horizon, Horizon
<1>4. ASSUME NEW n \in Horizon
      PROVE  AnswerTo(n) = Promise!AnswerTo(n)
  <2>1. /\ n >= produced => AnswerTo(n).res = "Future"
        /\ n < Oldest => AnswerTo(n).res = "TooOld"
        /\ n \in Oldest .. (produced - 1) =>
             AnswerTo(n) = [num |-> n, res |-> "Ok", rec |-> log[n + 1]]
    BY AnswersHonest DEF HonestAnswers
  <2>2. AnswerTo(n) = [num |-> n, res |-> AnswerTo(n).res,
                       rec |-> IF AnswerTo(n).res = "Ok"
                               THEN AnswerTo(n).rec ELSE NoRecord]
    BY DEF AnswerTo
  <2>3. n \in Nat /\ Oldest \in Nat /\ Oldest <= produced
    BY ForwardExact, WindowEdges
  <2>4. CASE n >= produced
    <3>1. AnswerTo(n) = [num |-> n, res |-> "Future", rec |-> NoRecord]
      BY <2>1, <2>2, <2>4
    <3>2. ~(n < Oldest) /\ n \notin Oldest .. (produced - 1)
      BY <1>1, <2>3, <2>4
    <3>. QED
      BY <1>1, <1>2, <2>4, <3>1, <3>2 DEF Promise!AnswerTo
  <2>5. CASE n < Oldest
    <3>1. AnswerTo(n) = [num |-> n, res |-> "TooOld", rec |-> NoRecord]
      BY <2>1, <2>2, <2>5
    <3>2. ~(n >= produced) /\ n \notin Oldest .. (produced - 1)
      BY <1>1, <2>3, <2>5
    <3>. QED
      BY <1>1, <1>2, <2>5, <3>1, <3>2 DEF Promise!AnswerTo
  <2>6. CASE n \in Oldest .. (produced - 1)
    <3>1. ~(n >= produced) /\ ~(n < Oldest)
      BY <1>1, <2>3, <2>6
    <3>. QED
      BY <1>1, <1>2, <2>1, <2>6, <3>1 DEF Promise!AnswerTo
  <2>. QED
    BY <1>1, <2>3, <2>4, <2>5, <2>6
<1>. QED
  BY <1>3, <1>4

(* The ring implements the retention log: whatever a reader observes of the*)
(* ring, an unbounded log that serves its last Cap records would show too. *)
THEOREM RefinementTheorem == Spec => RetentionPromise
<1>1. Init => Promise!Init
  BY DEF Init, Promise!Init, Promise!NoAnswer
<1>2. Inv /\ [Next]_vars => [Promise!Next]_(Promise!vars)
  <2>. SUFFICES ASSUME Inv, [Next]_vars
                PROVE  [Promise!Next]_(Promise!vars)
    OBVIOUS
  <2>1. ASSUME NEW r \in Record, Produce(r)
        PROVE  Promise!Next
    BY <2>1 DEF Produce, Promise!Next, Promise!Store
  <2>2. ASSUME NEW n \in Horizon, Ask(n)
        PROVE  Promise!Next
    <3>1. Promise!Read(n) /\ n \in Promise!Horizon
      BY <2>2, SameAnswer DEF Ask, Promise!Read
    <3>. QED
      BY <3>1 DEF Promise!Next
  <2>3. CASE UNCHANGED vars
    BY <2>3 DEF vars, Promise!vars
  <2>. QED
    BY <2>1, <2>2, <2>3 DEF Next
<1>3. Inv <=> TypeOK /\ WindowInv
  BY DEF Inv
<1>. QED
  BY <1>1, <1>2, <1>3, WindowTheorem, PTL DEF Spec, Promise!Spec, RetentionPromise

=============================================================================

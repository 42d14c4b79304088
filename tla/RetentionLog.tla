---------------------------- MODULE RetentionLog ----------------------------
(***************************************************************************)
(* What the retention buffer promises: an unbounded log of which the last  *)
(* Cap records can be read, each by its absolute number.  A reader that    *)
(* asks for an older one is told that it is gone, a reader that asks for a *)
(* later one that it does not exist yet.  There is no wrap-around here and *)
(* there are no slots.  The contract is the one the header of the ring     *)
(* states: serve the records until they age out, then report the gap       *)
(* honestly rather than send wrong data.                                   *)
(***************************************************************************)
EXTENDS Integers, Sequences

CONSTANTS
  Cap,       (* how many of the latest records are retained                *)
  Record,
  NoRecord,
  Behind,    (* how far behind the window a reader may have fallen         *)
  Ahead      (* how far past its oldest record a reader may ask            *)

VARIABLES
  log,       (* every record appended so far; record n is log[n + 1]       *)
  answer     (* the last answer given to a reader                          *)

vars == <<log, answer>>

Retained == IF Len(log) < Cap THEN Len(log) ELSE Cap

OldestKept == Len(log) - Retained

(* The numbers a reader may ask for.                                       *)
Horizon == {n \in (OldestKept - Behind) .. (OldestKept + Ahead - 1) : n >= 0}

AnswerTo(n) ==
  CASE n >= Len(log)                      -> [num |-> n, res |-> "Future", rec |-> NoRecord]
    [] n < OldestKept                     -> [num |-> n, res |-> "TooOld", rec |-> NoRecord]
    [] n \in OldestKept .. (Len(log) - 1) -> [num |-> n, res |-> "Ok", rec |-> log[n + 1]]

NoAnswer == [num |-> 0, res |-> "None", rec |-> NoRecord]

Init ==
  /\ log = << >>
  /\ answer = NoAnswer

Store(r) ==
  /\ log' = Append(log, r)
  /\ UNCHANGED answer

Read(n) ==
  /\ answer' = AnswerTo(n)
  /\ UNCHANGED log

Next ==
  \/ \E r \in Record : Store(r)
  \/ \E n \in Horizon : Read(n)

Spec == Init /\ [][Next]_vars

=============================================================================

---------------------------- MODULE SeedLinkRing ----------------------------
(***************************************************************************)
(* The retention buffer of tpslinkserver (src/slink/SeedLinkRing): the     *)
(* last Cap records, each under a wire number that wraps modulo SeqSpace   *)
(* (2^24 in the code).  A reader names a record by its wire number alone.  *)
(*                                                                         *)
(* The module holds the state of the ring and its two operations; the      *)
(* modules that EXTEND it say who calls them.                              *)
(***************************************************************************)
EXTENDS Integers

CONSTANTS
  Cap,       (* m_cap: the number of slots                                 *)
  SeqSpace,  (* kSeqMask + 1: the number of wire sequence numbers          *)
  Record,    (* the 512-byte miniSEED records                              *)
  NoRecord   (* the content of a slot that was never written                *)

Half == (SeqSpace - 1) \div 2

(***************************************************************************)
(* The ring is smaller than half the number space: `--ring` is a few tens  *)
(* of thousands, kSeqMask / 2 is 8388607.  Without it packet() cannot tell *)
(* the window from the numbers on either side of it.                       *)
(***************************************************************************)
ASSUME RingAssumption ==
  /\ Cap \in Nat \ {0}
  /\ SeqSpace \in Nat \ {0}
  /\ Cap < Half
  /\ NoRecord \notin Record

VARIABLES
  slots,     (* m_slots                                                    *)
  head,      (* m_head, the next slot to write                             *)
  count,     (* m_count, how many slots hold a record                      *)
  produced   (* m_produced, how many records were ever pushed              *)

ringVars == <<slots, head, count, produced>>

SlotIndex == 0 .. Cap - 1

Wire == 0 .. SeqSpace - 1

(* A framed packet: the absolute number, the digits in its header, the     *)
(* record behind them.                                                     *)
Slot == [abs : Nat, wire : Wire, rec : Record \union {NoRecord}]

EmptySlot == [abs |-> 0, wire |-> 0, rec |-> NoRecord]

RingInit ==
  /\ slots = [i \in SlotIndex |-> EmptySlot]
  /\ head = 0
  /\ count = 0
  /\ produced = 0

NextSeq == produced % SeqSpace

Oldest == produced - count

OldestSeq == Oldest % SeqSpace

(***************************************************************************)
(* push().  A Faulty... operator here and in the other modules is the      *)
(* definition after it with one plausible slip; no specification uses it.  *)
(***************************************************************************)
FaultyFrame(r) == [abs |-> produced, wire |-> (produced + 1) % SeqSpace, rec |-> r]

Frame(r) == [abs |-> produced, wire |-> NextSeq, rec |-> r]

FaultyNextHead == (head + 1) % (Cap - 1)

NextHead == (head + 1) % Cap

FaultyNextCount == IF count <= Cap THEN count + 1 ELSE count

NextCount == IF count < Cap THEN count + 1 ELSE count

(* Frame a record and store it under the next number, over the oldest one  *)
(* when the ring is full.                                                  *)
Push(r) ==
  /\ slots' = [slots EXCEPT ![head] = Frame(r)]
  /\ head' = NextHead
  /\ count' = NextCount
  /\ produced' = produced + 1

FaultyForward(q) == q - OldestSeq

(* How far wire number q lies ahead of the oldest retained one, modulo the *)
(* number space.                                                           *)
Forward(q) == (q - OldestSeq) % SeqSpace

(* The slot packet() looks in for a number inside the window.              *)
SlotOf(q) == slots[(Oldest + Forward(q)) % Cap]

(* The verdict of packet(q); on "Ok" the caller receives SlotOf(q).        *)
PacketResult(q) ==
  IF count = 0 THEN "Future"
  ELSE IF Forward(q) < count
       THEN IF SlotOf(q).abs = Oldest + Forward(q) THEN "Ok" ELSE "TooOld"
       ELSE IF Forward(q) < Half THEN "Future" ELSE "TooOld"

=============================================================================

-------------------------- MODULE MCAnomalyChain --------------------------
(* Two objects whose sensors have the same number, so that their channels  *)
(* share a key, and a second sensor of the first object.                   *)
EXTENDS AnomalyChain

CONSTANTS o1, o2, p1, p2

MCChannels == {<<o1, 1>>, <<o2, 1>>, <<o1, 2>>}
MCKey(c) == c[2]
MCObjectOf(c) == c[1]

(* The object each tpproc has, and all channels with one of them.          *)
Parted == [c \in MCChannels |-> IF c[1] = o1 THEN p1 ELSE p2]
Whole  == [c \in MCChannels |-> p1]

(* An operator and a tpproc that restarts; an operator and two of them;    *)
(* tpevent and tpalert, which restart, after one tpproc.                   *)
MCScenarios ==
  {[proc |-> Whole, run |-> {"tpjournal"}, fail |-> {"tpproc", "tpmaster"}],
   [proc |-> Parted, run |-> {"tpjournal"}, fail |-> {"tpproc", "tpmaster"}],
   [proc |-> Whole, run |-> {"tpevent", "tpalert"}, fail |-> {"tpevent", "tpalert"}]}
=============================================================================

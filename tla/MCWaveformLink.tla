--------------------------- MODULE MCWaveformLink ---------------------------
(* One client of a ring of two slots in a number space of eight.  Clients  *)
(* share the ring as readers only, so one of them, with every fault at any *)
(* moment, shows what each of them can meet.                               *)
EXTENDS WaveformLink

(* Two stations, two channels; the feed interleaves them, and a new        *)
(* incarnation of the server starts elsewhere in the pattern.              *)
MCRecordAt(e, n) ==
  CASE (n + e) % 3 = 0 -> [sta |-> "A", chan |-> "N", from |-> <<e, n>>]
    [] (n + e) % 3 = 1 -> [sta |-> "A", chan |-> "Z", from |-> <<e, n>>]
    [] (n + e) % 3 = 2 -> [sta |-> "B", chan |-> "Z", from |-> <<e, n>>]

MCRecord == {MCRecordAt(e, n) : e \in 1 .. MaxEpoch, n \in 0 .. MaxProduced}

(* Verticals of both stations.                                             *)
MCWants == [c \in Client |-> [stations |-> <<"A", "B">>,
                              selectors |-> <<[kind |-> "pos", match |-> {"Z"}]>>]]

(* tpslink: one station, all its channels by a wildcard.                   *)
MCBridgeWants == [c \in Client |-> [stations |-> <<"A">>,
                                    selectors |-> <<[kind |-> "pos", match |-> {"N", "Z"}]>>]]

=============================================================================

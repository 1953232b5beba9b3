--------------------------- MODULE MCMatchingEngine ---------------------------
(***************************************************************************)
(* MatchingEngine for TLC.  The log of MCSeqAfter rests an order, rejects  *)
(* a cancel, trades, and sweeps and rests.                                 *)
(***************************************************************************)
EXTENDS MatchingEngine

MCSeqAfter == [o \in 0 .. N |-> <<0, 1, 1, 2, 4>>[o + 1]]
=============================================================================

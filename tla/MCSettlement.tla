---------------------------- MODULE MCSettlement ----------------------------
(***************************************************************************)
(* Settlement for TLC: a trade the wallet settles, one it may refuse for a *)
(* while, one it refuses for good, a self-trade, and a second delivery of  *)
(* the first.                                                              *)
(***************************************************************************)
EXTENDS Settlement

CONSTANTS good, refused, released, self

MCTrades == {good, refused, released, self}
MCLog    == <<good, self, refused, released, good>>
=============================================================================

--------------------------- MODULE MCOrderService ---------------------------
(***************************************************************************)
(* OrderService for TLC: a buyer's order against an order of the market    *)
(* maker, or a buyer's order and a retry of the same request.              *)
(***************************************************************************)
EXTENDS OrderService

CONSTANTS bid, retry, ask

MCPair     == {bid, ask}
MCPairKey  == [o \in MCPair |-> o]
MCPairSide == [o \in MCPair |-> IF o = ask THEN "SELL" ELSE "BUY"]
MCPairQty  == [o \in MCPair |-> IF o = ask THEN 1 ELSE 2]

MCTwins     == {bid, retry}
MCTwinsKey  == [o \in MCTwins |-> "client"]
MCTwinsSide == [o \in MCTwins |-> "BUY"]
MCTwinsQty  == [o \in MCTwins |-> 1]
=============================================================================

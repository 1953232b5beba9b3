----------------------------- MODULE MCOrderBook -----------------------------
(***************************************************************************)
(* OrderBook for TLC: limit orders on two prices, market orders with and   *)
(* without a protection price, and an order off the tick.                  *)
(***************************************************************************)
EXTENDS OrderBook, TLC

CONSTANTS o1, o2, o3

MCOrders   == {o1, o2, o3}
MCSymmetry == Permutations(MCOrders)

MCSpecs ==
  [side : {"BUY"}, type : {"LIMIT"}, price : {2, 4}, qty : {1, 2}, at : {1, 2}]
    \cup [side : {"SELL"}, type : {"LIMIT"}, price : {2, 4}, qty : {1, 2}, at : {1}]
    \cup [side : {"BUY"}, type : {"MARKET"}, price : {0}, qty : {2}, at : {1}]
    \cup [side : {"SELL"}, type : {"MARKET"}, price : {4}, qty : {2}, at : {1}]
    \cup [side : {"BUY"}, type : {"LIMIT"}, price : {3}, qty : {1}, at : {1}]
=============================================================================

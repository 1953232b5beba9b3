------------------------------ MODULE MCWallet ------------------------------
(***************************************************************************)
(* Wallet for TLC: two traders and the market maker, two buys and a sell,  *)
(* fills of different sizes, a dust fill and a self-trade, a top-up and    *)
(* reservations of two owners under one order id.                          *)
(***************************************************************************)
EXTENDS Wallet, TLC

CONSTANTS mm, u1, u2, o1, o2, o3, t1, t2, t3, d1, base, quote

MCUsers    == {mm, u1, u2}
MCOrders   == {o1, o2, o3}
MCTradeIds == {t1, t2, t3}
MCSeed     == (base :> 2 @@ quote :> 4)
MCMMSeed   == (base :> 1 @@ quote :> 1)

MCReserveReqs ==
  {[user |-> u1, order |-> o1, asset |-> quote, amount |-> 3],
   [user |-> u1, order |-> o2, asset |-> quote, amount |-> 1],
   [user |-> u1, order |-> o3, asset |-> quote, amount |-> 1],  \* not a retry
   [user |-> u2, order |-> o3, asset |-> base, amount |-> 2]}

MCDepositReqs == {[user |-> u1, asset |-> quote, ref |-> d1, amount |-> 1]}

Trade(id, b, bo, s, so, p, q, n) ==
  [id |-> id, buyer |-> b, seller |-> s, buyOrder |-> bo, sellOrder |-> so,
   price |-> p, qty |-> q, seq |-> n]

MCFreezeReqs == {<<u1, quote>>}

\* Two units of price x quantity make one unit of the quote asset.
MCSettleReqs ==
  {Trade(t1, u1, o1, u2, o3, 3, 1, 1),   \* quote 3/2, floored to 1
   Trade(t2, u1, o1, u2, o3, 4, 1, 2),   \* a second fill, quote 2
   Trade(t2, u1, o2, mm, o3, 2, 1, 2),   \* the market maker sells
   Trade(t3, mm, o1, u2, o3, 2, 1, 3),   \* the market maker buys
   Trade(t3, u1, o2, u2, o3, 1, 1, 3),   \* dust: quote 1/2, floored to 0
   Trade(t3, u1, o1, u1, o3, 2, 1, 3)}   \* a self-trade
=============================================================================

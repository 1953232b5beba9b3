------------------------- MODULE MCLiquidityEngine -------------------------
(***************************************************************************)
(* The liquidity engine for TLC: one level in the HIGH zone, an order of   *)
(* two lots, two generations and any two disturbances.  From 1000 to 1010  *)
(* is 100 bps, a rebase; back is 99, a selective move.                     *)
(***************************************************************************)
EXTENDS LiquidityEngine
=============================================================================

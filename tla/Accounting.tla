----------------------------- MODULE Accounting -----------------------------
(***************************************************************************)
(* Weighted-average accounting of a position (services/portfolio): what a  *)
(* trade makes of a row of holdings.                                       *)
(*                                                                         *)
(* Quantities and money are whole numbers of the stored unit, DECIMAL(30,  *)
(* 10).  A division keeps six more digits: Scale stands for 10^6.          *)
(***************************************************************************)
EXTENDS Integers

CONSTANT Scale   \* units of a quotient in a stored unit

ASSUME ScaleAssumption == Scale \in Nat \ {0}

NoHolding == [quantity |-> 0, total_cost |-> 0, realized_pnl |-> 0, version |-> 0]

\* n / Scale as the database stores it: to the nearest, a half away from zero.
Stored(n) == IF n >= 0 THEN (2 * n + Scale) \div (2 * Scale)
                       ELSE -((Scale - 2 * n) \div (2 * Scale))

\* In units of 1 / Scale.
AverageEntryPrice(h) ==
  IF h.quantity = 0 THEN 0
  ELSE (2 * h.total_cost * Scale + h.quantity) \div (2 * h.quantity)

Bought(h, t) ==
  [h EXCEPT !.quantity = @ + t.quantity,
            !.total_cost = @ + t.quantity * t.price,
            !.version = @ + 1]

\* A position that is sold out costs nothing.
Sold(h, t) ==
  LET costOfSold == t.quantity * AverageEntryPrice(h)
  IN [h EXCEPT !.quantity = @ - t.quantity,
               !.total_cost = IF h.quantity = t.quantity THEN 0
                              ELSE Stored(@ * Scale - costOfSold),
               !.realized_pnl = Stored((@ + t.quantity * t.price) * Scale - costOfSold),
               !.version = @ + 1]

\* No sale may leave the quantity negative.
CanBook(h, t) == t.role = "SELL" => h.quantity >= t.quantity

Booked(h, t) == IF t.role = "BUY" THEN Bought(h, t) ELSE Sold(h, t)

\* The opening position of a system account, added to what is there.
Opened(h, seed) ==
  [h EXCEPT !.quantity = @ + seed.quantity, !.total_cost = @ + seed.cost_basis,
            !.version = @ + 1]
=============================================================================

--------------------------- MODULE PositionKeeping ---------------------------
(***************************************************************************)
(* What the portfolio service promises of one position, whatever happens   *)
(* to its feed, its processes and its messages: a trade is booked at most  *)
(* once, on the position that the bookings before it left; the opening     *)
(* position is added once; a version is announced only after the booking   *)
(* that made it, and an announced version is never withdrawn.              *)
(***************************************************************************)
EXTENDS Accounting

CONSTANTS
  Trades,   \* the user's trades in one base asset
  Trade,    \* role, quantity and price by trade
  Seed      \* the opening position: quantity and cost_basis

VARIABLES
  booked,     \* the trades that the position accounts for
  opened,     \* whether it accounts for the opening position
  position,   \* quantity, total_cost, realized_pnl, version
  announced   \* the versions announced to the other services

vars == <<booked, opened, position, announced>>

Init ==
  /\ booked = {}
  /\ opened = FALSE
  /\ position = NoHolding
  /\ announced = {}

Open ==
  /\ ~opened
  /\ opened' = TRUE
  /\ position' = Opened(position, Seed)
  /\ UNCHANGED <<booked, announced>>

Book(t) ==
  /\ t \notin booked
  /\ CanBook(position, Trade[t])
  /\ booked' = booked \cup {t}
  /\ position' = Booked(position, Trade[t])
  /\ UNCHANGED <<opened, announced>>

\* Several versions may be announced at once.
Announce ==
  /\ announced \subseteq announced'
  /\ announced' \subseteq 1 .. position.version
  /\ UNCHANGED <<booked, opened, position>>

Next == Open \/ (\E t \in Trades : Book(t)) \/ Announce

Spec == Init /\ [][Next]_vars
=============================================================================

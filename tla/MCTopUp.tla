------------------------------- MODULE MCTopUp -------------------------------
(***************************************************************************)
(* TopUp for TLC.  Either one reconciler serves two orders that do not fit *)
(* into one day's limit together and a second attempt of the first, or two *)
(* reconcilers contend for the first of these orders.                      *)
(***************************************************************************)
EXTENDS TopUp

CONSTANTS o1, o2, again, w1, w2

MCOrders       == {o1, o2, again}
MCOrdersKey    == [o \in MCOrders |-> IF o = o2 THEN "k2" ELSE "k1"]
MCOrdersAmount == [o \in MCOrders |-> IF o = o2 THEN 6 ELSE 5]

VARIABLE reconcilers
topUpVars == <<reconcilers, vars>>

TopUpInit == Init /\ reconcilers \in {1, 2}
TopUpNext ==
  /\ Next /\ UNCHANGED reconcilers
  /\ reconcilers = 1 => working'[w2] = {}
  /\ reconcilers = 2 => call'[o2] = "idle"
TopUpSpec == TopUpInit /\ [][TopUpNext]_topUpVars /\ Fairness
=============================================================================

--------------------------- MODULE ControlledTaker ---------------------------
(***************************************************************************)
(* One market worker of the controlled taker (services/controlled-taker):  *)
(* a loop that reads the depth, sizes a MARKET order, checks its safety    *)
(* limits and the circuit breaker, sends the order to the order service    *)
(* and waits for its end.  Workers share nothing that they decide on.      *)
(*                                                                         *)
(* The regimes only weight the profiles, so any may be chosen; a random    *)
(* ratio is one of the ends of its interval.  Quantities are in            *)
(* units of the market, prices in ticks.  Time is a choice: the cooldown,  *)
(* the hour and the day pass, a deadline may come first.                   *)
(***************************************************************************)
EXTENDS Integers, Sequences, FiniteSets, FiniteSetsExt

CONSTANTS
  Books,            \* depth snapshots in Redis: [bids, asks], <<price, quantity>> each
  MinQty, LotSize,
  SlippageBps, MaxSweepLevels,
  Ceiling,          \* MaxVisibleDepthConsumption, per cent
  MaxSpread,        \* MaxSpreadPercent, per mille
  MaxNotional, MaxHourly, MaxDaily, MaxTrades,
  MaxFailures,      \* CircuitBreakerFailures
  MaxUpsets         \* bound: disturbances

\* Config.Validate: the process does not start with anything else.
ValidConfig ==
  /\ {MinQty, LotSize, MaxFailures, MaxSweepLevels, MaxTrades, MaxNotional, MaxHourly, MaxSpread}
       \subseteq Nat \ {0}
  /\ Ceiling \in 1 .. 100 /\ SlippageBps \in 0 .. 500
  /\ MaxDaily \in Nat /\ MaxDaily >= MaxHourly

\* The markets are Load's own, each with one lot as its minimum; Validate asks no more of
\* them than the signs.  A snapshot is parsed into levels of a price and a quantity.
ASSUME TakerAssumption ==
  /\ ValidConfig /\ MinQty % LotSize = 0
  /\ Books \subseteq [bids : Seq(Nat \X Nat), asks : Seq(Nat \X Nat)]

VARIABLES
  worker,    \* [phase, stopping]
  order,     \* the order of this cycle, with what the order service knows of it:
             \* [qty, worst, status, filled, traded, expired]
  breaker,   \* [state, failures, probe, cooled]
  volume,    \* what is booked in the running windows: [hourly, daily, trades]
  strays,    \* since the last success or start, orders given up: [sent, taken]
  upsets

vars == <<worker, order, breaker, volume, strays, upsets>>
-----------------------------------------------------------------------------
(***************************************************************************)
(* The depth, and the size of an order.                                    *)
(***************************************************************************)
Least(a, b) == IF a < b THEN a ELSE b
Best(levels) == levels[1][1]

\* ParseSnapshotJSONWithMaxAge: two sides, in order, with quantities, not crossed.
Valid(book) ==
  /\ book.bids # <<>> /\ book.asks # <<>>
  /\ \A levels \in {book.bids, book.asks} : \A i \in DOMAIN levels : levels[i][1] > 0 /\ levels[i][2] > 0
  /\ \A i \in 2 .. Len(book.bids) : book.bids[i - 1][1] > book.bids[i][1]
  /\ \A i \in 2 .. Len(book.asks) : book.asks[i - 1][1] < book.asks[i][1]
  /\ Best(book.asks) > Best(book.bids)

\* SelectSideWithDepth: inventory, reference and depth move the odds of a purchase
\* between 15 and 85 per cent, so either side may come.
Sides == {"BUY", "SELL"}
\* Every regime gives LOW and MID a weight, every one but QUIET gives HIGH one.
Profiles == {"LOW", "MID", "HIGH"}
Opposite(book, side) == IF side = "BUY" THEN book.asks ELSE book.bids

WithinSlippage(levels, side, price) ==
  IF side = "BUY" THEN price * 10000 <= Best(levels) * (10000 + SlippageBps)
                  ELSE price * 10000 >= Best(levels) * (10000 - SlippageBps)

\* The levels are in order, so those within the slippage are the first ones.
Reachable(levels, side) ==
  LET near == {i \in DOMAIN levels : WithinSlippage(levels, side, levels[i][1])}
  IN SubSeq(levels, 1, Least(Cardinality(near), MaxSweepLevels))

Quantities(levels, S) == MapThenSumSet(LAMBDA i : levels[i][2], S)
Depth(levels, n) == Quantities(levels, 1 .. n)
LotAlign(qty) == qty - (qty % LotSize)

\* Levels that must be swept to make an executable lot of dust.
DustLevels(reach) ==
  LET enough == {n \in 1 .. Len(reach) : Depth(reach, n) * Ceiling >= MinQty * 100}
  IN IF enough = {} THEN Len(reach) ELSE Min(enough)

\* What the profile asks for, in hundredths, and the levels it reaches.
Wanted(profile, reach) ==
  LET first  == reach[1][2]
      dust   == first * Ceiling < MinQty * 100
      deep   == Len(reach) >= 2
      limit(n) == Depth(reach, n) * Ceiling
      take(n, raw) == [n |-> n, raw |-> Least(raw, limit(n))]
      ratio(rs) == {[n |-> 1, raw |-> first * r] : r \in rs}
      levels == IF dust /\ DustLevels(reach) > 2 THEN DustLevels(reach) ELSE 2
  IN CASE profile = "LOW" ->
            IF dust /\ deep /\ DustLevels(reach) >= 2 /\ limit(DustLevels(reach)) >= MinQty * 100
            THEN {take(DustLevels(reach), (first + MinQty) * 100)} ELSE ratio({10, 25})
       [] profile = "MID" ->
            (IF deep THEN {take(levels, first * 100 + reach[2][2] * r) : r \in {25, 50}} ELSE {})
            \cup (IF dust /\ deep THEN {} ELSE ratio({35, 65}))
       [] profile = "HIGH" ->
            (IF deep THEN {take(Len(reach), first * 100 + (Depth(reach, Len(reach)) - first) * r)
                             : r \in {30, 60}} ELSE {})
            \cup {take(1, first * r) : r \in {50, 80}}

\* The quantity: at least the minimum, whole lots, within the ceiling and the
\* notional limit; 0 stands for an error.
AtLeastMinimum(raw, depth, first) ==
  IF raw >= MinQty * 100 THEN raw
  ELSE IF depth * Ceiling >= MinQty * 100 \/ first >= MinQty THEN MinQty * 100 ELSE 0

WithinCeiling(qty, depth) ==
  IF qty * 100 > depth * Ceiling THEN LotAlign((depth * Ceiling) \div 100) ELSE qty

WithinNotional_BeforeLots(qty, price) ==
  IF qty * price > MaxNotional + price THEN LotAlign(MaxNotional \div price) ELSE qty

WithinNotional(qty, price) ==
  IF qty * price > MaxNotional THEN LotAlign(MaxNotional \div price) ELSE qty

Quantity(wanted, depth, first, price) ==
  LET raised  == AtLeastMinimum(wanted.raw, depth, first)
      aligned == LotAlign(raised \div 100)
      whole   == IF aligned < MinQty /\ depth * Ceiling >= MinQty * 100 THEN MinQty ELSE aligned
      shallow == WithinCeiling(whole, depth)
      capped  == WithinNotional(shallow, price)
  IN IF raised = 0 \/ {whole, shallow, capped} \cap 0 .. MinQty - 1 # {} THEN 0 ELSE capped

\* CalculateOrderParametersWithOptions.
Sized(profile, book, side) ==
  LET levels == Opposite(book, side)
      reach  == Reachable(levels, side)
  IN {LET price == reach[w.n][1]
          worst == IF side = "BUY" THEN price ELSE Best(levels)
      IN [side |-> side, qty |-> Quantity(w, Depth(reach, w.n), reach[1][2], worst),
          price |-> price, worst |-> worst]
      : w \in Wanted(profile, reach)}

Candidates == UNION {{[book |-> book, order |-> o] : o \in Sized(profile, book, side)}
                    : book \in {b \in Books : Valid(b)}, profile \in Profiles, side \in Sides}

-----------------------------------------------------------------------------
(***************************************************************************)
(* The circuit breaker and the safety limits.                              *)
(***************************************************************************)
Allow(b) == IF b.state = "OPEN" /\ b.cooled
            THEN [b EXCEPT !.state = "HALF_OPEN", !.probe = FALSE] ELSE b
Allowed(b) == b.state = "CLOSED" \/ (b.state = "HALF_OPEN" /\ ~b.probe)

ReserveProbe(b) == IF b.state = "HALF_OPEN" THEN [b EXCEPT !.probe = TRUE] ELSE b
ReleaseProbe(b) == IF b.state = "HALF_OPEN" THEN [b EXCEPT !.probe = FALSE] ELSE b

RecordSuccess(b) == [b EXCEPT !.failures = 0, !.state = "CLOSED", !.probe = FALSE]

RecordFailure(b) ==
  LET n == Least(b.failures + 1, MaxFailures)
  IN IF b.state = "HALF_OPEN" \/ (n >= MaxFailures /\ b.state # "OPEN")
     THEN [state |-> "OPEN", failures |-> n, probe |-> FALSE, cooled |-> FALSE]
     ELSE [b EXCEPT !.failures = n]

\* A window starts again when an order is checked after its end.
Refreshed(v, hourOver, dayOver) ==
  [hourly |-> IF hourOver THEN 0 ELSE v.hourly, trades |-> IF hourOver THEN 0 ELSE v.trades,
   daily |-> IF dayOver THEN 0 ELSE v.daily]

\* ValidatePreOrder, for the limits that are left when the breaker allows.
WithinLimits(v, book, o) ==
  LET bid == Best(book.bids)
      ask == Best(book.asks)
      opp == Opposite(book, o.side)
      met == {i \in DOMAIN opp : IF o.side = "BUY" THEN opp[i][1] <= o.price ELSE opp[i][1] >= o.price}
  IN /\ v.trades < MaxTrades
     /\ v.hourly + o.qty * o.worst <= MaxHourly
     /\ v.daily + o.qty * o.worst <= MaxDaily
     /\ (ask - bid) * 2000 <= MaxSpread * (ask + bid)
     /\ o.qty * 100 <= Quantities(opp, met) * Ceiling

RecordOrderResolved_FillsOnly(b, filled) == IF filled > 0 THEN RecordSuccess(b) ELSE b

\* RecordOrderResolved: an order without a fill is a success too.
RecordOrderResolved(b, filled) == RecordSuccess(b)

Booked(v, filled, price) ==
  IF filled = 0 THEN v
  ELSE [v EXCEPT !.hourly = @ + filled * price, !.daily = @ + filled * price, !.trades = @ + 1]

-----------------------------------------------------------------------------
(***************************************************************************)
(* The cycle.                                                              *)
(***************************************************************************)
NoOrder  == [status |-> "NONE"]
Terminal == {"FILLED", "CANCELLED"}
Taken    == order.status \notin {"NONE", "SENT", "REFUSED"}
Upset    == upsets < MaxUpsets /\ upsets' = upsets + 1
At(phase) == worker.phase = phase

\* The cycle is over: the worker waits, or ends if it is to stop.
EndsCycle ==
  /\ worker' = [worker EXCEPT !.phase = IF worker.stopping THEN "DOWN" ELSE "WAIT"]
  /\ order' = NoOrder

\* An order whose end the worker will not learn may be under way or taken.
GivesUp ==
  /\ EndsCycle
  /\ strays' = [sent  |-> strays.sent + (IF order.status = "SENT" THEN 1 ELSE 0),
                taken |-> strays.taken + (IF Taken THEN 1 ELSE 0)]

\* GetDepth fails: no snapshot, an old or an invalid one.
ReadFails ==
  /\ At("READY") /\ Upset
  /\ EndsCycle
  /\ breaker' = RecordFailure(breaker)
  /\ UNCHANGED <<volume, strays>>

\* ExecuteCycle up to the call, for the orders it may come to.
Sends ==
  /\ At("READY") /\ Allowed(Allow(breaker))
  /\ \E choice \in Candidates, hourOver, dayOver \in BOOLEAN :
       LET o == choice.order
           v == Refreshed(volume, hourOver \/ dayOver, dayOver) IN
       /\ o.qty > 0 /\ WithinLimits(v, choice.book, o)
       /\ volume' = v
       /\ order' = [qty |-> o.qty, worst |-> o.worst, status |-> "SENT",
                    filled |-> 0, traded |-> 0, expired |-> FALSE]
  /\ breaker' = ReserveProbe(Allow(breaker))
  /\ worker' = [worker EXCEPT !.phase = "SENT"]
  /\ UNCHANGED <<strays, upsets>>

\* The order cannot be sized, the breaker is open or a limit is met.
Skips ==
  /\ At("READY")
  /\ \E choice \in Candidates, hourOver, dayOver \in BOOLEAN :
       LET o == choice.order
           b == IF o.qty = 0 THEN breaker ELSE Allow(breaker)
           v == IF o.qty > 0 /\ Allowed(b) THEN Refreshed(volume, hourOver \/ dayOver, dayOver)
                ELSE volume
       IN /\ o.qty = 0 \/ ~Allowed(b) \/ ~WithinLimits(v, choice.book, o)
          /\ breaker' = b /\ volume' = v
  /\ EndsCycle
  /\ UNCHANGED <<strays, upsets>>

\* The order's depth has grown old before the call.
GrowsOld ==
  /\ At("SENT") /\ order.status = "SENT" /\ Upset
  /\ breaker' = ReleaseProbe(breaker)
  /\ EndsCycle
  /\ UNCHANGED <<volume, strays>>

\* CreateCrossingOrder answers with the order.
Accepted ==
  /\ At("SENT") /\ Taken
  /\ worker' = [worker EXCEPT !.phase = "AWAIT"]
  /\ UNCHANGED <<order, breaker, volume, strays, upsets>>

\* SubmissionErrorDefiniteRejection.  An internal error of the order service counts
\* as one, though it may follow a commit whose answer was lost.
Rejected ==
  /\ At("SENT") /\ order.status # "SENT"
  /\ IF order.status = "REFUSED" THEN UNCHANGED upsets ELSE Upset
  /\ breaker' = ReleaseProbe(breaker)
  /\ EndsCycle
  /\ UNCHANGED <<volume, strays>>

\* SubmissionErrorAmbiguous, and SubmissionErrorCallerCancelled when it is to stop.
NoAnswer ==
  /\ At("SENT")
  /\ IF worker.stopping THEN UNCHANGED upsets ELSE Upset
  /\ worker' = [worker EXCEPT !.phase = "LOOKUP"]
  /\ UNCHANGED <<order, breaker, volume, strays>>

LooksUp_Releasing ==
  /\ At("LOOKUP")
  /\ IF Taken
     THEN worker' = [worker EXCEPT !.phase = "AWAIT"] /\ UNCHANGED <<order, breaker, strays>>
     ELSE GivesUp /\ breaker' = ReleaseProbe(breaker)
  /\ UNCHANGED <<volume, upsets>>

\* FindOrderByIdempotencyKey: an order that is not there yet may come later.
LooksUp ==
  /\ At("LOOKUP")
  /\ IF Taken
     THEN worker' = [worker EXCEPT !.phase = "AWAIT"] /\ UNCHANGED <<order, breaker, strays>>
     ELSE /\ GivesUp
          /\ breaker' = IF worker.stopping THEN ReleaseProbe(breaker)
                        ELSE ReleaseProbe(RecordFailure(breaker))
  /\ UNCHANGED <<volume, upsets>>

LookupFails ==
  /\ At("LOOKUP") /\ Upset
  /\ breaker' = RecordFailure(breaker)
  /\ GivesUp
  /\ UNCHANGED volume

\* awaitOrderCleanup sees the end of the order, and what it has filled is booked.
Resolved ==
  /\ At("AWAIT") /\ order.status \in Terminal
  /\ breaker' = RecordOrderResolved(breaker, order.filled)
  /\ volume' = Booked(volume, order.filled, order.worst)
  /\ strays' = IF breaker'.state = "CLOSED" THEN [sent |-> 0, taken |-> 0] ELSE strays
  /\ EndsCycle
  /\ UNCHANGED upsets

\* After the grace period it is cancelled; a refused cancellation is not repeated.
Cancels ==
  /\ At("AWAIT") /\ order.status \in {"OPEN", "PARTIALLY_FILLED"} /\ Upset
  /\ order' = [order EXCEPT !.status = "CANCELLING"]
  /\ UNCHANGED <<worker, breaker, volume, strays>>

\* The deadline passes before an end is seen.
DeadlinePasses ==
  /\ At("AWAIT") /\ Upset
  /\ breaker' = RecordFailure(breaker)
  /\ GivesUp
  /\ UNCHANGED volume

\* The interval of the regime, or the longer cooldown.
Waits ==
  /\ At("WAIT")
  /\ worker' = [worker EXCEPT !.phase = IF worker.stopping THEN "DOWN" ELSE "READY"]
  /\ UNCHANGED <<order, breaker, volume, strays, upsets>>

\* SIGTERM: the cycle under way goes on to its end.
Stops ==
  /\ ~worker.stopping /\ ~At("DOWN") /\ Upset
  /\ worker' = [worker EXCEPT !.stopping = TRUE]
  /\ UNCHANGED <<order, breaker, volume, strays>>

Crashes ==
  /\ ~At("DOWN") /\ Upset
  /\ worker' = [worker EXCEPT !.phase = "DOWN"]
  /\ order' = NoOrder
  /\ UNCHANGED <<breaker, volume, strays>>

\* NewMarketWorker, after the warm-up: nothing is remembered.
NewWorker  == [phase |-> "READY", stopping |-> FALSE]
NewBreaker == [state |-> "CLOSED", failures |-> 0, probe |-> FALSE, cooled |-> TRUE]
NewVolume  == [hourly |-> 0, daily |-> 0, trades |-> 0]
NoStrays   == [sent |-> 0, taken |-> 0]

Starts ==
  /\ At("DOWN")
  /\ worker' = NewWorker /\ breaker' = NewBreaker /\ volume' = NewVolume
  /\ strays' = NoStrays
  /\ UNCHANGED <<order, upsets>>

-----------------------------------------------------------------------------
(***************************************************************************)
(* The order service, the matching engine and the clock.                   *)
(***************************************************************************)
ServiceSteps(o) ==
  /\ order' = o
  /\ UNCHANGED <<worker, breaker, volume, strays>>

\* The order is committed.
ServiceTakes ==
  /\ order.status = "SENT"
  /\ ServiceSteps([order EXCEPT !.status = "OPEN"])
  /\ UNCHANGED upsets

\* So may be one nobody waits for any more.
StrayIsTaken ==
  /\ strays.sent > 0
  /\ strays' = [sent |-> strays.sent - 1, taken |-> strays.taken + 1]
  /\ UNCHANGED <<worker, order, breaker, volume, upsets>>

ServiceRefuses ==
  /\ order.status = "SENT" /\ Upset
  /\ ServiceSteps([order EXCEPT !.status = "REFUSED"])

\* The engine executes what it can, and the rest expires.
EngineExecutes ==
  /\ order.status \in {"OPEN", "CANCELLING"} /\ order.traded = 0 /\ ~order.expired
  /\ \E n \in {0, order.qty \div 2, order.qty} :
       ServiceSteps([order EXCEPT !.traded = n, !.expired = n < order.qty])
  /\ UNCHANGED upsets

\* The settled trade and the outcome reach the order in either order.
ServiceFills ==
  /\ order.status # "NONE" /\ order.filled < order.traded
  /\ ServiceSteps([order EXCEPT !.filled = order.traded,
                                !.status = IF order.traded = order.qty THEN "FILLED"
                                           ELSE IF @ = "OPEN" THEN "PARTIALLY_FILLED" ELSE @])
  /\ UNCHANGED upsets

ServiceExpires ==
  /\ order.status \notin Terminal \cup {"NONE"} /\ order.expired
  /\ ServiceSteps([order EXCEPT !.status = "CANCELLED"])
  /\ UNCHANGED upsets

CooldownPasses ==
  /\ ~breaker.cooled
  /\ breaker' = [breaker EXCEPT !.cooled = TRUE]
  /\ UNCHANGED <<worker, order, volume, strays, upsets>>

Init ==
  /\ worker = NewWorker /\ breaker = NewBreaker /\ volume = NewVolume
  /\ order = NoOrder /\ strays = NoStrays /\ upsets = 0

Goes == Accepted \/ LooksUp \/ Resolved \/ Waits \/ Starts
Service == ServiceTakes \/ EngineExecutes \/ ServiceFills \/ ServiceExpires
Next ==
  \/ Sends \/ Skips \/ Goes \/ Service \/ CooldownPasses
  \/ ReadFails \/ GrowsOld \/ Rejected \/ NoAnswer \/ LookupFails \/ Cancels
  \/ DeadlinePasses \/ Stops \/ Crashes \/ ServiceRefuses \/ StrayIsTaken

Spec == Init /\ [][Next]_vars

\* The worker goes on, the order service answers, the cooldown passes; and the market
\* and the limits, which start again with the hour and the day, let an order through
\* again and again, so that one is sent.
FairSpec ==
  /\ Spec
  /\ WF_vars(Goes \/ Rejected \/ Skips) /\ SF_vars(Sends)
  /\ WF_vars(Service) /\ WF_vars(CooldownPasses)

-----------------------------------------------------------------------------
(***************************************************************************)
(* Properties.                                                             *)
(***************************************************************************)
\* What the worker books never passes its hourly and daily limits, and an order in
\* the order service is within the notional limit, in whole lots and at least the
\* minimum (CalculateOrderParametersWithOptions, ValidatePreOrder).
WithinBounds ==
  /\ volume.hourly <= MaxHourly /\ volume.daily <= MaxDaily /\ volume.trades <= MaxTrades
  /\ order # NoOrder => /\ order.qty * order.worst <= MaxNotional
                        /\ order.qty >= MinQty /\ order.qty % LotSize = 0
                        /\ volume.hourly + order.filled * order.worst <= MaxHourly
                        /\ volume.daily + order.filled * order.worst <= MaxDaily

\* While the breaker is closed, fewer than CircuitBreakerFailures orders that the
\* order service took have an end the worker never learned: a lost answer, a failed
\* lookup, a passed deadline or a late commit all count.  An order refused with an
\* internal error after its commit is the exception (classifySubmissionError).
FailsClosed ==
  (breaker.state = "CLOSED" /\ ~worker.stopping /\ ~At("DOWN")) => strays.taken < MaxFailures

\* The breaker closes again once calls succeed, also when the probe order is
\* cancelled without a fill (RecordOrderResolved).
BreakerRecovers == []<>(breaker.state = "CLOSED")
=============================================================================

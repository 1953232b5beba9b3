----------------------------- MODULE TakerProofs -----------------------------
(***************************************************************************)
(* Theorems about ControlledTaker for every configuration, every depth and *)
(* every number of disturbances: the circuit breaker counts what the       *)
(* worker lost sight of, and what it sends and books is within its limits. *)
(***************************************************************************)
EXTENDS ControlledTaker, Sums, TLAPS

Breakers == [state : {"CLOSED", "OPEN", "HALF_OPEN"}, failures : Nat, probe : BOOLEAN, cooled : BOOLEAN]
Phases   == {"READY", "SENT", "LOOKUP", "AWAIT", "WAIT", "DOWN"}

\* The variables the argument speaks of hold values of their kinds.
TakerTyped ==
  /\ worker \in [phase : Phases, stopping : BOOLEAN]
  /\ breaker \in Breakers
  /\ strays \in [sent : Nat, taken : Nat]

\* A worker that is not told to stop and has not died.
Runs(w) == ~w.stopping /\ w.phase # "DOWN"

\* Every order given up since the last success is one of the breaker's failures, be it
\* taken by now or still on its way, and it opens before they are too many.
Covers(b, s) == b.state = "CLOSED" => s.sent + s.taken <= b.failures /\ b.failures < MaxFailures

TakerInv == TakerTyped /\ (Runs(worker) => Covers(breaker, strays))
-----------------------------------------------------------------------------
LEMMA MaxFailuresIsPositive == MaxFailures \in Nat \ {0}
  BY TakerAssumption DEF ValidConfig

\* What the operations of the breaker answer.
LEMMA BreakerOperations ==
  ASSUME NEW b \in Breakers
  PROVE  /\ Allow(b) \in Breakers /\ (Allow(b).state = "CLOSED" => Allow(b) = b)
         /\ RecordSuccess(b) \in Breakers
         /\ RecordSuccess(b).state = "CLOSED" /\ RecordSuccess(b).failures = 0
         /\ RecordFailure(b) \in Breakers
<1>1. Allow(b) \in Breakers /\ (Allow(b).state = "CLOSED" => Allow(b) = b)
  BY DEF Allow, Breakers
<1>2. /\ RecordSuccess(b) \in Breakers
      /\ RecordSuccess(b).state = "CLOSED" /\ RecordSuccess(b).failures = 0
  BY DEF RecordSuccess, Breakers
<1>3. RecordFailure(b) \in Breakers
  BY MaxFailuresIsPositive DEF RecordFailure, Least, Breakers
<1>4. QED BY <1>1, <1>2, <1>3

\* A probe, or the end of a cooldown, is no verdict.
LEMMA NoVerdict ==
  ASSUME NEW b \in Breakers, NEW r, r = ReserveProbe(b) \/ r = ReleaseProbe(b) \/ r = [b EXCEPT !.cooled = TRUE]
  PROVE  r \in Breakers /\ r.state = b.state /\ r.failures = b.failures
  BY DEF ReserveProbe, ReleaseProbe, Breakers

\* A failure makes room for one more order given up.
LEMMA FailureCovers ==
  ASSUME NEW b \in Breakers, NEW s \in [sent : Nat, taken : Nat], NEW t \in [sent : Nat, taken : Nat],
         Covers(b, s), t.sent + t.taken <= s.sent + s.taken + 1
  PROVE  Covers(RecordFailure(b), t)
<1> SUFFICES ASSUME RecordFailure(b).state = "CLOSED"
    PROVE  t.sent + t.taken <= RecordFailure(b).failures /\ RecordFailure(b).failures < MaxFailures
  BY DEF Covers
<1>1. /\ b.state = "CLOSED" /\ Least(b.failures + 1, MaxFailures) < MaxFailures
      /\ RecordFailure(b).failures = Least(b.failures + 1, MaxFailures)
  BY MaxFailuresIsPositive DEF RecordFailure, Breakers, Least
<1>2. b.failures + 1 < MaxFailures /\ RecordFailure(b).failures = b.failures + 1
  BY <1>1, MaxFailuresIsPositive DEF Breakers, Least
<1>3. s.sent + s.taken <= b.failures
  BY <1>1 DEF Covers
<1>4. QED BY <1>2, <1>3 DEF Breakers

\* An order that is given up counts once, whether the order service has it or not.
LEMMA GivenUpOnce ==
  ASSUME TakerTyped, GivesUp
  PROVE  /\ strays' \in [sent : Nat, taken : Nat]
         /\ strays'.sent + strays'.taken <= strays.sent + strays.taken + 1
  BY DEF TakerTyped, GivesUp, Taken

\* The end of a cycle starts no worker.
LEMMA CycleEnds ==
  ASSUME TakerTyped, EndsCycle
  PROVE  /\ worker' \in [phase : Phases, stopping : BOOLEAN]
         /\ Runs(worker') => ~worker.stopping
  BY DEF TakerTyped, EndsCycle, Runs, Phases

LEMMA TakerInitially == Init => TakerInv
  BY MaxFailuresIsPositive DEF Init, NewWorker, NewBreaker, NoStrays, TakerInv, TakerTyped, Runs, Covers, Breakers, Phases

\* Steps that leave the breaker's verdict and the strays as they are.
LEMMA NothingCounted ==
  ASSUME TakerInv, worker' \in [phase : Phases, stopping : BOOLEAN], breaker' \in Breakers, UNCHANGED strays,
         Runs(worker') => Runs(worker),
         breaker'.state = "CLOSED" => breaker.state = "CLOSED" /\ breaker'.failures = breaker.failures
  PROVE  TakerInv'
  BY DEF TakerInv, TakerTyped, Covers

\* Steps that end in a failure, with one order given up or none.
LEMMA FailureCounted ==
  ASSUME TakerInv, EndsCycle, worker.phase # "DOWN", NEW b \in Breakers,
         b = RecordFailure(breaker), breaker' \in {b, ReleaseProbe(b)},
         strays' \in [sent : Nat, taken : Nat], strays'.sent + strays'.taken <= strays.sent + strays.taken + 1
  PROVE  TakerInv'
<1>1. /\ worker' \in [phase : Phases, stopping : BOOLEAN] /\ (Runs(worker') => Runs(worker))
      /\ breaker \in Breakers /\ strays \in [sent : Nat, taken : Nat]
  BY CycleEnds DEF TakerInv, TakerTyped, Runs
<1>2. breaker' \in Breakers /\ breaker'.state = b.state /\ breaker'.failures = b.failures
  BY <1>1, BreakerOperations, NoVerdict
<1>3. ASSUME Runs(worker') PROVE Covers(breaker', strays')
  <2>1. Covers(breaker, strays) BY <1>1, <1>3 DEF TakerInv
  <2>2. Covers(b, strays') BY <1>1, <2>1, FailureCovers
  <2>3. QED BY <1>2, <2>2 DEF Covers
<1>4. QED BY <1>1, <1>2, <1>3 DEF TakerInv, TakerTyped, Runs, Covers

LEMMA TakerKeeps == TakerInv /\ [Next]_vars => TakerInv'
<1> SUFFICES ASSUME TakerInv, [Next]_vars PROVE TakerInv'
  OBVIOUS
<1>1. /\ TakerTyped /\ worker \in [phase : Phases, stopping : BOOLEAN]
      /\ breaker \in Breakers /\ strays \in [sent : Nat, taken : Nat]
  BY DEF TakerInv, TakerTyped
<1>2. CASE ReadFails
  <2>1. strays' \in [sent : Nat, taken : Nat] /\ strays'.sent + strays'.taken <= strays.sent + strays.taken + 1
    BY <1>1, <1>2 DEF ReadFails
  <2>2. QED BY <1>1, <1>2, <2>1, FailureCounted, BreakerOperations DEF ReadFails, At
<1>3. CASE LookupFails \/ DeadlinePasses
  BY <1>1, <1>3, FailureCounted, GivenUpOnce, BreakerOperations DEF LookupFails, DeadlinePasses, At, GivesUp
<1>4. CASE LooksUp
  <2>1. CASE worker' = [worker EXCEPT !.phase = "AWAIT"] /\ UNCHANGED <<breaker, strays>>
    BY <1>1, <1>4, <2>1, NothingCounted DEF LooksUp, At, Phases, Runs
  <2>2. CASE GivesUp /\ ~worker.stopping /\ breaker' = ReleaseProbe(RecordFailure(breaker))
    BY <1>1, <1>4, <2>2, FailureCounted, GivenUpOnce, BreakerOperations, NoVerdict DEF LooksUp, At, GivesUp
  <2>3. CASE GivesUp /\ worker.stopping /\ breaker' = ReleaseProbe(breaker)
    <3>1. worker' \in [phase : Phases, stopping : BOOLEAN] /\ ~Runs(worker')
      BY <1>1, <2>3, CycleEnds DEF GivesUp
    <3>2. strays' \in [sent : Nat, taken : Nat] /\ breaker' \in Breakers
      BY <1>1, <2>3, GivenUpOnce, NoVerdict
    <3>3. QED BY <3>1, <3>2 DEF TakerInv, TakerTyped, Runs
  <2>4. QED BY <1>4, <2>1, <2>2, <2>3 DEF LooksUp
<1>5. CASE Resolved
  <2>1. breaker' = RecordSuccess(breaker)
    BY <1>5 DEF Resolved, RecordOrderResolved
  <2>2. breaker' \in Breakers /\ breaker'.state = "CLOSED" /\ breaker'.failures = 0
    BY <1>1, <2>1, BreakerOperations
  <2>3. strays' = [sent |-> 0, taken |-> 0] /\ worker' \in [phase : Phases, stopping : BOOLEAN]
    BY <1>1, <1>5, <2>2, CycleEnds DEF Resolved
  <2>4. QED BY <2>2, <2>3, MaxFailuresIsPositive DEF TakerInv, TakerTyped, Covers
<1>6. CASE Starts
  <2>1. /\ worker' \in [phase : Phases, stopping : BOOLEAN] /\ breaker' \in Breakers
        /\ breaker'.failures = 0 /\ strays' = [sent |-> 0, taken |-> 0]
    BY <1>6 DEF Starts, NewWorker, NewBreaker, NoStrays, Phases, Breakers
  <2>2. QED BY <2>1, MaxFailuresIsPositive DEF TakerInv, TakerTyped, Covers
<1>7. CASE StrayIsTaken
  <2>1. /\ strays' \in [sent : Nat, taken : Nat] /\ strays'.sent + strays'.taken = strays.sent + strays.taken
        /\ UNCHANGED <<worker, breaker>>
    BY <1>1, <1>7 DEF StrayIsTaken
  <2>2. QED BY <2>1 DEF TakerInv, TakerTyped, Runs, Covers
<1>8. CASE Sends
  <2>1. PICK b : b = Allow(breaker) /\ breaker' = ReserveProbe(b)
    BY <1>8 DEF Sends
  <2>2. b \in Breakers /\ (b.state = "CLOSED" => b = breaker)
    BY <1>1, <2>1, BreakerOperations
  <2>3. breaker' \in Breakers /\ breaker'.state = b.state /\ breaker'.failures = b.failures
    BY <2>1, <2>2, NoVerdict
  <2>4. QED BY <1>1, <1>8, <2>2, <2>3, NothingCounted DEF Sends, At, Phases, Runs
<1>9. CASE Skips
  <2>1. breaker' \in {breaker, Allow(breaker)}
    BY <1>9 DEF Skips
  <2>2. breaker' \in Breakers /\ (breaker'.state = "CLOSED" => breaker.state = "CLOSED" /\ breaker'.failures = breaker.failures)
    <3>1. CASE breaker' = breaker BY <1>1, <3>1
    <3>2. CASE breaker' = Allow(breaker)
      <4>1. Allow(breaker) \in Breakers /\ (Allow(breaker).state = "CLOSED" => Allow(breaker) = breaker)
        BY <1>1, BreakerOperations
      <4>2. QED BY <3>2, <4>1
    <3>3. QED BY <2>1, <3>1, <3>2
  <2>3. /\ worker' \in [phase : Phases, stopping : BOOLEAN] /\ (Runs(worker') => Runs(worker)) /\ UNCHANGED strays
    BY <1>1, <1>9, CycleEnds DEF Skips, At, Runs
  <2>4. QED BY <2>2, <2>3, NothingCounted
<1>10. CASE GrowsOld \/ Rejected
  <2>1. breaker' = ReleaseProbe(breaker) /\ EndsCycle /\ UNCHANGED strays /\ worker.phase # "DOWN"
    BY <1>10 DEF GrowsOld, Rejected, At
  <2>2. worker' \in [phase : Phases, stopping : BOOLEAN] /\ (Runs(worker') => Runs(worker))
    BY <1>1, <2>1, CycleEnds DEF Runs
  <2>3. QED BY <1>1, <2>1, <2>2, NothingCounted, NoVerdict
<1>11. CASE CooldownPasses
  BY <1>1, <1>11, NothingCounted, NoVerdict DEF CooldownPasses, Runs
<1>12. CASE Accepted \/ NoAnswer \/ Waits \/ Stops \/ Crashes
  <2>1. worker' \in [phase : Phases, stopping : BOOLEAN] /\ (Runs(worker') => Runs(worker)) /\ UNCHANGED <<breaker, strays>>
    BY <1>1, <1>12 DEF Accepted, NoAnswer, Waits, Stops, Crashes, At, Phases, Runs
  <2>2. QED BY <1>1, <2>1, NothingCounted
<1>13. CASE Cancels \/ Service \/ ServiceRefuses \/ UNCHANGED vars
  <2>1. UNCHANGED <<worker, breaker, strays>>
    BY <1>13 DEF Cancels, Service, ServiceTakes, EngineExecutes, ServiceFills, ServiceExpires, ServiceRefuses, ServiceSteps, vars
  <2>2. QED BY <1>1, <2>1, NothingCounted DEF Runs
<1>14. QED
  BY <1>2, <1>3, <1>4, <1>5, <1>6, <1>7, <1>8, <1>9, <1>10, <1>11, <1>12, <1>13 DEF Next, Goes

\* Whatever is lost between the worker and the order service, a closed breaker means
\* fewer orders out of sight than CircuitBreakerFailures (RecordFailure, RecordSuccess).
THEOREM BreakerFailsClosed == Spec => []FailsClosed
<1>1. TakerInv => FailsClosed
  BY MaxFailuresIsPositive DEF TakerInv, TakerTyped, Runs, Covers, FailsClosed, At, Breakers
<1>2. QED BY <1>1, TakerInitially, TakerKeeps, PTL DEF Spec

-----------------------------------------------------------------------------
(***************************************************************************)
(* Sizes.  Whatever depth is read, an order that is sent is in bounds.     *)
(***************************************************************************)
Levels == Seq(Nat \X Nat)

LEMMA Config ==
  /\ MinQty \in Nat \ {0} /\ LotSize \in Nat \ {0} /\ MaxSweepLevels \in Nat \ {0} /\ MaxTrades \in Nat \ {0}
  /\ MaxNotional \in Nat \ {0} /\ MaxHourly \in Nat \ {0} /\ MaxDaily \in Nat /\ Ceiling \in Nat
  /\ SlippageBps \in 0 .. 500 /\ MinQty % LotSize = 0
  BY TakerAssumption DEF ValidConfig

\* The depth of some levels is a number, and no less than that of one of them.
LEMMA QuantitiesAre ==
  ASSUME NEW levels \in Levels, NEW S \in SUBSET DOMAIN levels
  PROVE  /\ Quantities(levels, S) \in Nat
         /\ \A i \in S : levels[i][2] <= Quantities(levels, S)
<1> DEFINE f == [i \in S |-> levels[i][2]]
           P(h) == h = [s \in SUBSET S |-> IF s = {} THEN 0 ELSE levels[Some(s)][2] + h[s \ {Some(s)}]]
<1>1. DOMAIN levels = 1 .. Len(levels) /\ Len(levels) \in Nat
  BY DEF Levels
<1>2. IsFiniteSet(S)
  <2>1. IsFiniteSet(1 .. Len(levels))
    BY <1>1, FS_Interval
  <2> QED BY <1>1, <2>1, FS_Subset
<1>3. \A i \in S : f[i] \in Nat /\ f[i] = levels[i][2]
  <2>1. \A i \in S : levels[i] \in Nat \X Nat
    BY <1>1 DEF Levels
  <2> QED BY <2>1
<1>4. \A s \in SUBSET S : s # {} => f[Some(s)] = levels[Some(s)][2]
  BY SomeIn
<1> HIDE DEF f
<1>5. \A h : IsTable(h, f, S) <=> P(h)
  BY <1>4 DEF IsTable
<1>6. Quantities(levels, S) = (CHOOSE h : P(h))[S]
  BY DEF Quantities, MapThenSumSet, MapThenFoldSet, Some
<1>7. \E h : P(h)
  BY <1>2, <1>5, TableExists
<1>8. PICK h : P(h) /\ Quantities(levels, S) = h[S]
  BY <1>6, <1>7
<1>9. IsTable(h, f, S)
  BY <1>5, <1>8
<1>10. Quantities(levels, S) = Total(f, S)
  BY <1>2, <1>8, <1>9, TotalIs
<1>11. Total(f, S) \in Nat /\ \A i \in S : f[i] <= Total(f, S)
  BY <1>2, <1>3, TotalNat
<1> QED BY <1>3, <1>10, <1>11

\* Aligning gives whole lots, and no more.
LEMMA Aligned ==
  ASSUME NEW q \in Nat
  PROVE  /\ LotAlign(q) \in Nat /\ LotAlign(q) <= q /\ LotAlign(q) % LotSize = 0
<1>1. LotSize \in Nat \ {0}
  BY Config
<1>a. q % LotSize \in 0 .. (LotSize - 1)
  BY <1>1
<1>b. q \div LotSize \in Nat
  BY <1>1
<1>c. q = LotSize * (q \div LotSize) + (q % LotSize)
  BY <1>1
<1>2. LotSize * (q \div LotSize) \in Nat
  BY <1>1, <1>b
<1>3. LotAlign(q) = LotSize * (q \div LotSize)
  BY <1>a, <1>c, <1>1, <1>2 DEF LotAlign
<1>4. ASSUME NEW n \in Nat PROVE (LotSize * n) % LotSize = 0
  BY <1>1
<1>5. LotAlign(q) <= q
  BY <1>a, <1>c, <1>1, <1>2, <1>3
<1> QED BY <1>b, <1>2, <1>3, <1>4, <1>5

\* A quotient times its divisor.
LEMMA Quotient == ASSUME NEW a \in Nat, NEW b \in Nat \ {0} PROVE a \div b \in Nat /\ (a \div b) * b <= a
  OBVIOUS

LEMMA Grows == ASSUME NEW a \in Nat, NEW b \in Nat, NEW c \in Nat, a <= b PROVE a * c <= b * c /\ a * c \in Nat
  OBVIOUS

\* A size that is no error is in bounds.
LEMMA QuantityInBounds ==
  ASSUME NEW wanted, wanted.raw \in Nat, NEW depth \in Nat, NEW first \in Nat, NEW price \in Nat \ {0},
         NEW q, q = Quantity(wanted, depth, first, price), q > 0
  PROVE  q \in Nat /\ q >= MinQty /\ q % LotSize = 0 /\ q * price <= MaxNotional
<1> DEFINE raised  == AtLeastMinimum(wanted.raw, depth, first)
           aligned == LotAlign(raised \div 100)
           whole   == IF aligned < MinQty /\ depth * Ceiling >= MinQty * 100 THEN MinQty ELSE aligned
           shallow == WithinCeiling(whole, depth)
           capped  == WithinNotional(shallow, price)
<1>1. q = IF raised = 0 \/ {whole, shallow, capped} \cap 0 .. MinQty - 1 # {} THEN 0 ELSE capped
  BY DEF Quantity
<1>2. raised \in Nat
  BY Config DEF AtLeastMinimum
<1> HIDE DEF raised
<1>3. raised \div 100 \in Nat
  BY <1>2
<1>4. aligned \in Nat /\ aligned % LotSize = 0
  BY <1>3, Aligned
<1> HIDE DEF aligned
<1>5. whole \in Nat /\ whole % LotSize = 0
  BY <1>4, Config
<1> HIDE DEF whole
<1>6. depth * Ceiling \in Nat /\ (depth * Ceiling) \div 100 \in Nat
  BY Config
<1>7. shallow \in Nat /\ shallow % LotSize = 0
  BY <1>5, <1>6, Aligned DEF WithinCeiling
<1> HIDE DEF shallow
<1>8. capped \in Nat /\ capped % LotSize = 0 /\ capped * price <= MaxNotional
  <2>1. CASE shallow * price > MaxNotional
    <3> DEFINE a == MaxNotional \div price
    <3>1. a \in Nat /\ a * price <= MaxNotional
      BY Config, Quotient
    <3>2. capped = LotAlign(a)
      BY <2>1 DEF WithinNotional
    <3> HIDE DEF a, capped
    <3>3. LotAlign(a) \in Nat /\ LotAlign(a) <= a /\ LotAlign(a) % LotSize = 0
      BY <3>1, Aligned
    <3>4. LotAlign(a) * price <= a * price /\ LotAlign(a) * price \in Nat
      BY <3>1, <3>3, Grows
    <3>5. a * price \in Nat
      BY <3>1
    <3> QED BY <3>1, <3>2, <3>3, <3>4, <3>5, Config
  <2>2. CASE ~(shallow * price > MaxNotional)
    <3>1. capped = shallow
      BY <2>2 DEF WithinNotional
    <3>2. shallow * price \in Nat
      BY <1>7
    <3> HIDE DEF capped
    <3> QED BY <1>7, <2>2, <3>1, <3>2, Config
  <2> QED BY <2>1, <2>2
<1> HIDE DEF capped
<1>9. q = capped /\ capped \notin 0 .. MinQty - 1
  BY <1>1
<1> QED BY <1>8, <1>9, Config

\* The levels that may be swept are levels of the side, the first of them included.
LEMMA ReachableAre ==
  ASSUME NEW levels \in Levels, levels # <<>>, NEW side \in Sides, NEW reach, reach = Reachable(levels, side)
  PROVE  /\ reach \in Levels /\ Len(reach) \in Nat \ {0} /\ DOMAIN reach = 1 .. Len(reach)
         /\ \A i \in 1 .. Len(reach) : i \in DOMAIN levels /\ reach[i] = levels[i]
<1> DEFINE near == {i \in DOMAIN levels : WithinSlippage(levels, side, levels[i][1])}
           n    == Least(Cardinality(near), MaxSweepLevels)
<1>1. DOMAIN levels = 1 .. Len(levels) /\ Len(levels) \in Nat \ {0}
  BY DEF Levels
<1>2. IsFiniteSet(1 .. Len(levels)) /\ Cardinality(1 .. Len(levels)) = Len(levels)
  BY <1>1, FS_Interval
<1>3. Cardinality(near) \in Nat /\ Cardinality(near) <= Len(levels) /\ IsFiniteSet(near)
  BY <1>1, <1>2, FS_Subset, FS_CardinalityType
<1>4. 1 \in near
  <2>1. levels[1] \in Nat \X Nat
    BY <1>1 DEF Levels
  <2>2. levels[1][1] \in Nat
    BY <2>1
  <2>3. levels[1][1] * 10000 <= levels[1][1] * (10000 + SlippageBps)
    BY <2>2, Config
  <2>4. levels[1][1] * 10000 >= levels[1][1] * (10000 - SlippageBps)
    BY <2>2, Config
  <2>5. WithinSlippage(levels, side, levels[1][1])
    BY <2>3, <2>4 DEF WithinSlippage, Best
  <2> QED BY <1>1, <2>5
<1>5. Cardinality(near) # 0
  BY <1>3, <1>4, FS_EmptySet
<1>6. reach = SubSeq(levels, 1, n)
  BY DEF Reachable
<1> HIDE DEF near
<1>7. n \in Nat \ {0} /\ n <= Len(levels)
  BY <1>3, <1>5, Config DEF Least
<1> HIDE DEF n
<1>8. /\ reach \in Levels /\ Len(reach) = n /\ DOMAIN reach = 1 .. n
  BY <1>1, <1>6, <1>7 DEF Levels
<1>9. \A i \in 1 .. n : reach[i] = levels[i]
  BY <1>1, <1>6, <1>7 DEF Levels
<1> QED BY <1>1, <1>7, <1>8, <1>9

\* The least of some numbers is one of them.
LEMMA LeastIn ==
  ASSUME NEW S \in SUBSET Nat, S # {}
  PROVE  Min(S) \in S
<1> DEFINE R == OpToRel(<, Nat)
<1>1. \A m, n \in Nat : m < n => <<m, n>> \in R
  BY DEF OpToRel
<1> HIDE DEF R
<1>2. PICK n \in S : \A m \in S : ~(<<m, n>> \in R)
  BY NatLessThanWellFounded, WFMin DEF R
<1>3. ASSUME NEW m \in S PROVE n <= m
  <2>1. m \in Nat /\ n \in Nat /\ ~(m < n)
    BY <1>1, <1>2
  <2> QED BY <2>1
<1> HIDE DEF R
<1>4. \E x \in S : \A m \in S : x <= m
  BY <1>3
<1> QED BY <1>4 DEF Min

\* What a profile asks for is a size, of levels that are there.
LEMMA WantedAre ==
  ASSUME NEW reach \in Levels, Len(reach) \in Nat \ {0}, NEW profile \in Profiles,
         NEW w \in Wanted(profile, reach)
  PROVE  w.n \in 1 .. Len(reach) /\ w.raw \in Nat
<1> DEFINE first  == reach[1][2]
           dust   == first * Ceiling < MinQty * 100
           deep   == Len(reach) >= 2
           limit(n) == Depth(reach, n) * Ceiling
           take(n, raw) == [n |-> n, raw |-> Least(raw, limit(n))]
           ratio(rs) == {[n |-> 1, raw |-> first * r] : r \in rs}
           levels == IF dust /\ DustLevels(reach) > 2 THEN DustLevels(reach) ELSE 2
           Goal(v) == v.n \in 1 .. Len(reach) /\ v.raw \in Nat
<1>1. DOMAIN reach = 1 .. Len(reach) /\ \A i \in 1 .. Len(reach) : reach[i][1] \in Nat /\ reach[i][2] \in Nat
  <2>1. DOMAIN reach = 1 .. Len(reach) /\ \A i \in 1 .. Len(reach) : reach[i] \in Nat \X Nat
    BY DEF Levels
  <2> QED BY <2>1
<1>2. \A n \in 1 .. Len(reach) : Depth(reach, n) \in Nat /\ first <= Depth(reach, n)
  <2> SUFFICES ASSUME NEW n \in 1 .. Len(reach) PROVE Depth(reach, n) \in Nat /\ first <= Depth(reach, n)
    OBVIOUS
  <2>1. 1 .. n \in SUBSET DOMAIN reach /\ 1 \in 1 .. n
    BY <1>1
  <2> QED BY <2>1, QuantitiesAre DEF Depth
<1>3. DustLevels(reach) \in 1 .. Len(reach)
  <2> DEFINE enough == {n \in 1 .. Len(reach) : Depth(reach, n) * Ceiling >= MinQty * 100}
  <2>1. DustLevels(reach) = IF enough = {} THEN Len(reach) ELSE Min(enough)
    BY DEF DustLevels
  <2>2. enough \in SUBSET Nat /\ enough \subseteq 1 .. Len(reach)
    OBVIOUS
  <2> HIDE DEF enough
  <2>3. enough # {} => Min(enough) \in enough
    BY <2>2, LeastIn
  <2>4. Len(reach) \in 1 .. Len(reach)
    OBVIOUS
  <2>5. CASE enough = {}
    BY <2>1, <2>4, <2>5
  <2>6. CASE enough # {}
    BY <2>1, <2>2, <2>3, <2>6
  <2> QED BY <2>5, <2>6
<1>4. first \in Nat /\ MinQty \in Nat
  BY <1>1, Config
<1>5. \A n \in 1 .. Len(reach) : limit(n) \in Nat
  BY <1>2, Config
<1>6. ASSUME NEW n \in 1 .. Len(reach), NEW raw \in Nat PROVE Goal(take(n, raw))
  BY <1>5, <1>6 DEF Least
<1>7. ASSUME NEW rs \in SUBSET Nat, NEW v \in ratio(rs) PROVE Goal(v)
  <2>1. PICK r \in rs : v = [n |-> 1, raw |-> first * r]
    BY <1>7
  <2>2. first * r \in Nat
    BY <1>4
  <2> QED BY <2>1, <2>2
<1>8. deep => levels \in 1 .. Len(reach)
  BY <1>3
<1> HIDE DEF Goal, limit, first, dust
<1>9. CASE profile = "LOW"
  <2>1. w = take(DustLevels(reach), (first + MinQty) * 100) \/ w \in ratio({10, 25})
    BY <1>9 DEF Wanted, first, dust, limit
  <2>2. (first + MinQty) * 100 \in Nat
    BY <1>4
  <2>3. Goal(take(DustLevels(reach), (first + MinQty) * 100))
    BY <1>3, <1>6, <2>2
  <2>4. {10, 25} \in SUBSET Nat
    OBVIOUS
  <2>5. Goal(w)
    BY <1>7, <2>1, <2>3, <2>4
  <2> QED BY <2>5 DEF Goal
<1>10. CASE profile = "MID"
  <2>1. \/ deep /\ \E r \in {25, 50} : w = take(levels, first * 100 + reach[2][2] * r)
        \/ w \in ratio({35, 65})
    BY <1>10 DEF Wanted, first, dust, limit
  <2>2. CASE deep /\ \E r \in {25, 50} : w = take(levels, first * 100 + reach[2][2] * r)
    <3>1. PICK r \in {25, 50} : w = take(levels, first * 100 + reach[2][2] * r)
      BY <2>2
    <3>2. reach[2][2] \in Nat
      BY <1>1, <2>2
    <3>3. first * 100 + reach[2][2] * r \in Nat
      BY <1>4, <3>2
    <3>4. levels \in 1 .. Len(reach)
      BY <1>8, <2>2
    <3> HIDE DEF levels
    <3>5. Goal(w)
      BY <1>6, <3>1, <3>3, <3>4
    <3> QED BY <3>5 DEF Goal
  <2>3. CASE w \in ratio({35, 65})
    <3>1. {35, 65} \in SUBSET Nat
      OBVIOUS
    <3>2. Goal(w)
      BY <1>7, <2>3, <3>1
    <3> QED BY <3>2 DEF Goal
  <2> QED BY <2>1, <2>2, <2>3
<1>11. CASE profile = "HIGH"
  <2>1. \/ \E r \in {30, 60} : w = take(Len(reach), first * 100 + (Depth(reach, Len(reach)) - first) * r)
        \/ \E r \in {50, 80} : w = take(1, first * r)
    BY <1>11 DEF Wanted, first, dust, limit
  <2>2. CASE \E r \in {30, 60} : w = take(Len(reach), first * 100 + (Depth(reach, Len(reach)) - first) * r)
    <3>1. PICK r \in {30, 60} : w = take(Len(reach), first * 100 + (Depth(reach, Len(reach)) - first) * r)
      BY <2>2
    <3>2. Depth(reach, Len(reach)) - first \in Nat
      BY <1>2, <1>4
    <3>3. first * 100 + (Depth(reach, Len(reach)) - first) * r \in Nat
      BY <1>4, <3>2
    <3>4. Goal(w)
      BY <1>6, <3>1, <3>3
    <3> QED BY <3>4 DEF Goal
  <2>3. CASE \E r \in {50, 80} : w = take(1, first * r)
    <3>1. PICK r \in {50, 80} : w = take(1, first * r)
      BY <2>3
    <3>2. first * r \in Nat
      BY <1>4
    <3>3. Goal(w)
      BY <1>6, <3>1, <3>2
    <3> QED BY <3>3 DEF Goal
  <2> QED BY <2>1, <2>2, <2>3
<1> QED BY <1>9, <1>10, <1>11 DEF Profiles

\* What a sent order is like.
InBounds(o) ==
  /\ o.qty \in Nat /\ o.worst \in Nat \ {0} /\ o.qty >= MinQty /\ o.qty % LotSize = 0
  /\ o.qty * o.worst <= MaxNotional

LEMMA CandidatesInBounds ==
  ASSUME NEW choice \in Candidates, choice.order.qty > 0
  PROVE  InBounds(choice.order)
<1>0. PICK book \in {b \in Books : Valid(b)}, profile \in Profiles, side \in Sides :
        choice \in {[book |-> book, order |-> o] : o \in Sized(profile, book, side)}
  BY DEF Candidates
<1>1. PICK o \in Sized(profile, book, side) : choice = [book |-> book, order |-> o]
  BY <1>0
<1> DEFINE levels == Opposite(book, side)
           reach  == Reachable(levels, side)
<1>2. levels \in Levels /\ levels # <<>> /\ \A i \in DOMAIN levels : levels[i][1] > 0
  <2>1. book \in [bids : Levels, asks : Levels]
    BY TakerAssumption DEF Levels
  <2> QED BY <2>1 DEF Valid, Opposite
<1> HIDE DEF levels
<1>3. /\ reach \in Levels /\ Len(reach) \in Nat \ {0} /\ DOMAIN reach = 1 .. Len(reach)
      /\ \A i \in 1 .. Len(reach) : i \in DOMAIN levels /\ reach[i] = levels[i]
  BY <1>2, ReachableAre
<1> DEFINE price(w) == reach[w.n][1]
           worst(w) == IF side = "BUY" THEN price(w) ELSE Best(levels)
<1>4. PICK w \in Wanted(profile, reach) :
        o = [side |-> side, qty |-> Quantity(w, Depth(reach, w.n), reach[1][2], worst(w)),
             price |-> price(w), worst |-> worst(w)]
  BY DEF Sized, levels
<1> HIDE DEF reach
<1>5. w.n \in 1 .. Len(reach) /\ w.raw \in Nat
  BY <1>3, WantedAre
<1>6. \A i \in 1 .. Len(reach) : reach[i][1] \in Nat \ {0} /\ reach[i][2] \in Nat
  <2>1. \A i \in 1 .. Len(reach) : reach[i] \in Nat \X Nat
    BY <1>3 DEF Levels
  <2> QED BY <1>2, <1>3, <2>1
<1>7. worst(w) \in Nat \ {0}
  <2>1. 1 \in 1 .. Len(reach) /\ levels[1] = reach[1]
    BY <1>3
  <2> QED BY <1>5, <1>6, <2>1 DEF Best
<1>8. Depth(reach, w.n) \in Nat
  <2>1. 1 .. w.n \in SUBSET DOMAIN reach
    BY <1>3, <1>5
  <2> QED BY <1>3, <2>1, QuantitiesAre DEF Depth
<1>9. reach[1][2] \in Nat
  BY <1>3, <1>6
<1> HIDE DEF worst
<1>10. choice.order = o /\ o.worst = worst(w) /\ o.qty = Quantity(w, Depth(reach, w.n), reach[1][2], worst(w))
  BY <1>1, <1>4
<1>11. o.qty > 0
  BY <1>10
<1> DEFINE q == Quantity(w, Depth(reach, w.n), reach[1][2], worst(w))
<1>12. q > 0
  BY <1>10, <1>11
<1>13. q \in Nat /\ q >= MinQty /\ q % LotSize = 0 /\ q * worst(w) <= MaxNotional
  BY <1>5, <1>7, <1>8, <1>9, <1>12, QuantityInBounds
<1> HIDE DEF q
<1>14. o.qty = q
  BY <1>10 DEF q
<1> QED BY <1>7, <1>10, <1>13, <1>14 DEF InBounds

-----------------------------------------------------------------------------
(***************************************************************************)
(* Bounds.  The limits are checked before an order is sent, and it is      *)
(* booked when its end is seen: between the two nothing else is booked.    *)
(***************************************************************************)
Volumes  == [hourly : Nat, daily : Nat, trades : Nat]
Statuses == {"SENT", "REFUSED", "OPEN", "CANCELLING", "PARTIALLY_FILLED", "FILLED", "CANCELLED"}
Orders   == [qty : Nat, worst : Nat, status : Statuses, filled : Nat, traded : Nat, expired : BOOLEAN]

VolumeBound(v) == v.hourly <= MaxHourly /\ v.daily <= MaxDaily /\ v.trades <= MaxTrades

\* There is room for the whole order.
Fits(v, o) ==
  /\ v.hourly + o.qty * o.worst <= MaxHourly
  /\ v.daily + o.qty * o.worst <= MaxDaily
  /\ v.trades < MaxTrades

OrderBound(v, o) ==
  /\ o \in Orders /\ InBounds(o)
  /\ o.filled <= o.traded /\ o.traded <= o.qty
  /\ Fits(v, o)

BoundsInv ==
  /\ volume \in Volumes /\ VolumeBound(volume)
  /\ order = NoOrder \/ OrderBound(volume, order)

\* A window that starts again makes room.
LEMMA RefreshedAre ==
  ASSUME NEW v \in Volumes, VolumeBound(v), NEW h \in BOOLEAN, NEW d \in BOOLEAN
  PROVE  /\ Refreshed(v, h, d) \in Volumes /\ VolumeBound(Refreshed(v, h, d))
         /\ Refreshed(v, h, d).hourly <= v.hourly /\ Refreshed(v, h, d).daily <= v.daily
         /\ Refreshed(v, h, d).trades <= v.trades
<1> DEFINE r == Refreshed(v, h, d)
<1>1. v.hourly \in Nat /\ v.daily \in Nat /\ v.trades \in Nat
  BY DEF Volumes
<1>2. r.hourly \in {0, v.hourly} /\ r.trades \in {0, v.trades} /\ r.daily \in {0, v.daily}
  BY DEF Refreshed
<1>3. r \in Volumes
  BY <1>1 DEF Refreshed, Volumes
<1> HIDE DEF r
<1>4. r.hourly <= v.hourly /\ r.daily <= v.daily /\ r.trades <= v.trades
  BY <1>1, <1>2
<1>5. VolumeBound(r)
  BY <1>1, <1>2, <1>4, Config DEF VolumeBound
<1> QED BY <1>3, <1>4, <1>5 DEF r

\* The order still fits when less is booked.
LEMMA FitsLess ==
  ASSUME NEW v \in Volumes, NEW w \in Volumes, NEW o \in Orders, Fits(v, o),
         w.hourly <= v.hourly, w.daily <= v.daily, w.trades <= v.trades
  PROVE  Fits(w, o)
<1>1. o.qty * o.worst \in Nat
  <2>1. o.qty \in Nat /\ o.worst \in Nat
    BY DEF Orders
  <2> QED BY <2>1
<1>2. /\ v.hourly \in Nat /\ v.daily \in Nat /\ v.trades \in Nat
      /\ w.hourly \in Nat /\ w.daily \in Nat /\ w.trades \in Nat
  BY DEF Volumes
<1>3. MaxHourly \in Nat /\ MaxDaily \in Nat /\ MaxTrades \in Nat
  BY Config
<1> HIDE DEF Orders
<1> QED BY <1>1, <1>2, <1>3 DEF Fits

\* What fills of an order costs no more than the order.
LEMMA FilledCost ==
  ASSUME NEW o \in Orders, o.filled <= o.traded, o.traded <= o.qty
  PROVE  o.filled * o.worst \in Nat /\ o.qty * o.worst \in Nat /\ o.filled * o.worst <= o.qty * o.worst
<1>1. o.qty \in Nat /\ o.worst \in Nat /\ o.filled \in Nat /\ o.traded \in Nat
  BY DEF Orders
<1>2. o.filled <= o.qty
  BY <1>1
<1> QED BY <1>1, <1>2, Grows

\* A step of the order service on the order.
LEMMA ServiceKeeps ==
  ASSUME BoundsInv, UNCHANGED volume, order # NoOrder, order' \in Orders,
         order'.qty = order.qty, order'.worst = order.worst,
         order'.filled <= order'.traded, order'.traded <= order'.qty
  PROVE  BoundsInv'
<1>1. OrderBound(volume, order)
  BY DEF BoundsInv
<1>2. InBounds(order')
  BY <1>1 DEF OrderBound, InBounds
<1>3. Fits(volume', order')
  BY <1>1 DEF OrderBound, Fits
<1>4. OrderBound(volume', order')
  BY <1>2, <1>3 DEF OrderBound
<1> QED BY <1>4 DEF BoundsInv

LEMMA BoundsInitially == Init => BoundsInv
  BY Config DEF Init, NewVolume, Volumes, VolumeBound, BoundsInv

LEMMA BoundsKept == BoundsInv /\ [Next]_vars => BoundsInv'
<1> SUFFICES ASSUME BoundsInv, [Next]_vars PROVE BoundsInv'
  OBVIOUS
<1>1. volume \in Volumes /\ VolumeBound(volume)
  BY DEF BoundsInv
<1>2. order # NoOrder => order \in Orders /\ OrderBound(volume, order)
  BY DEF BoundsInv, OrderBound
<1>3. order = NoOrder => order.status = "NONE"
  BY DEF NoOrder
<1>4. CASE Sends
  <2>1. PICK choice \in Candidates : \E hourOver, dayOver \in BOOLEAN :
          LET o == choice.order
              v == Refreshed(volume, hourOver \/ dayOver, dayOver) IN
          /\ o.qty > 0 /\ WithinLimits(v, choice.book, o)
          /\ volume' = v
          /\ order' = [qty |-> o.qty, worst |-> o.worst, status |-> "SENT",
                       filled |-> 0, traded |-> 0, expired |-> FALSE]
    BY <1>4 DEF Sends
  <2> DEFINE o == choice.order
  <2>2. PICK h \in BOOLEAN, d \in BOOLEAN :
          /\ o.qty > 0 /\ WithinLimits(Refreshed(volume, h, d), choice.book, o)
          /\ volume' = Refreshed(volume, h, d)
          /\ order' = [qty |-> o.qty, worst |-> o.worst, status |-> "SENT",
                       filled |-> 0, traded |-> 0, expired |-> FALSE]
    <3>1. PICK hourOver \in BOOLEAN, dayOver \in BOOLEAN :
            /\ o.qty > 0 /\ WithinLimits(Refreshed(volume, hourOver \/ dayOver, dayOver), choice.book, o)
            /\ volume' = Refreshed(volume, hourOver \/ dayOver, dayOver)
            /\ order' = [qty |-> o.qty, worst |-> o.worst, status |-> "SENT",
                         filled |-> 0, traded |-> 0, expired |-> FALSE]
      BY <2>1
    <3>2. (hourOver \/ dayOver) \in BOOLEAN
      OBVIOUS
    <3> QED BY <3>1, <3>2
  <2>3. InBounds(o)
    BY <2>2, CandidatesInBounds
  <2> HIDE DEF o
  <2>4. volume' \in Volumes /\ VolumeBound(volume')
    BY <1>1, <2>2, RefreshedAre
  <2>5. /\ order' \in Orders /\ order'.qty = o.qty /\ order'.worst = o.worst
        /\ order'.filled = 0 /\ order'.traded = 0
    BY <2>2, <2>3 DEF InBounds, Orders, Statuses
  <2>6. Fits(volume', order')
    BY <2>2, <2>5 DEF WithinLimits, Fits
  <2>7. InBounds(order')
    BY <2>3, <2>5 DEF InBounds
  <2>8. 0 <= order'.qty
    BY <2>3, <2>5 DEF InBounds
  <2>9. OrderBound(volume', order')
    BY <2>5, <2>6, <2>7, <2>8 DEF OrderBound
  <2> QED BY <2>4, <2>9 DEF BoundsInv
<1>5. CASE Skips
  <2>1. order' = NoOrder
    BY <1>5 DEF Skips, EndsCycle
  <2>2. volume' = volume \/ \E h, d \in BOOLEAN : volume' = Refreshed(volume, h, d)
    <3>1. \E choice \in Candidates, hourOver, dayOver \in BOOLEAN :
            volume' \in {volume, Refreshed(volume, hourOver \/ dayOver, dayOver)}
      BY <1>5 DEF Skips
    <3> QED BY <3>1
  <2>3. volume' \in Volumes /\ VolumeBound(volume')
    BY <1>1, <2>2, RefreshedAre
  <2> QED BY <2>1, <2>3 DEF BoundsInv
<1>6. CASE Resolved
  <2>1. /\ order' = NoOrder /\ order # NoOrder
        /\ volume' = Booked(volume, order.filled, order.worst)
    BY <1>3, <1>6 DEF Resolved, EndsCycle, Terminal
  <2>2. order \in Orders /\ OrderBound(volume, order)
    BY <1>2, <2>1
  <2> DEFINE cost == order.filled * order.worst
  <2>3. cost \in Nat /\ order.qty * order.worst \in Nat /\ cost <= order.qty * order.worst
    BY <2>2, FilledCost DEF OrderBound
  <2>4. volume' = volume \/ volume' = [volume EXCEPT !.hourly = @ + cost, !.daily = @ + cost, !.trades = @ + 1]
    BY <2>1 DEF Booked
  <2> HIDE DEF cost
  <2>5. /\ volume.hourly \in Nat /\ volume.daily \in Nat /\ volume.trades \in Nat
        /\ MaxHourly \in Nat /\ MaxDaily \in Nat /\ MaxTrades \in Nat
    BY <1>1, Config DEF Volumes
  <2>6. Fits(volume, order)
    BY <2>2 DEF OrderBound
  <2>7. /\ volume.hourly + cost <= MaxHourly /\ volume.daily + cost <= MaxDaily
        /\ volume.trades + 1 <= MaxTrades
    BY <2>3, <2>5, <2>6 DEF Fits
  <2>8. volume' \in Volumes /\ VolumeBound(volume')
    <3>1. CASE volume' = volume
      BY <1>1, <3>1
    <3>2. CASE volume' = [volume EXCEPT !.hourly = @ + cost, !.daily = @ + cost, !.trades = @ + 1]
      <4>1. volume' = [hourly |-> volume.hourly + cost, daily |-> volume.daily + cost, trades |-> volume.trades + 1]
        BY <1>1, <3>2 DEF Volumes
      <4> QED BY <2>3, <2>5, <2>7, <4>1 DEF Volumes, VolumeBound
    <3> QED BY <2>4, <3>1, <3>2
  <2> QED BY <2>1, <2>8 DEF BoundsInv
<1>7. CASE Starts
  <2>1. volume' = NewVolume /\ UNCHANGED order
    BY <1>7 DEF Starts
  <2>2. volume' \in Volumes /\ VolumeBound(volume')
    BY <2>1, Config DEF NewVolume, Volumes, VolumeBound
  <2>3. volume'.hourly <= volume.hourly /\ volume'.daily <= volume.daily /\ volume'.trades <= volume.trades
    BY <1>1, <2>1 DEF NewVolume, Volumes
  <2>4. order # NoOrder => OrderBound(volume', order)
    BY <1>1, <1>2, <2>2, <2>3, FitsLess DEF OrderBound
  <2> QED BY <2>1, <2>2, <2>4 DEF BoundsInv
<1>8. CASE Cancels \/ ServiceTakes \/ ServiceRefuses \/ ServiceExpires
  <2>1. PICK s \in Statuses : order' = [order EXCEPT !.status = s]
    BY <1>8 DEF Cancels, ServiceTakes, ServiceRefuses, ServiceExpires, ServiceSteps, Statuses
  <2>2. order # NoOrder /\ UNCHANGED volume
    BY <1>3, <1>8 DEF Cancels, ServiceTakes, ServiceRefuses, ServiceExpires, ServiceSteps
  <2>3. order \in Orders /\ order.filled <= order.traded /\ order.traded <= order.qty
    BY <1>2, <2>2 DEF OrderBound
  <2>4. /\ order' \in Orders /\ order'.qty = order.qty /\ order'.worst = order.worst
        /\ order'.filled = order.filled /\ order'.traded = order.traded
    BY <2>1, <2>3 DEF Orders
  <2> QED BY <2>2, <2>3, <2>4, ServiceKeeps
<1>9. CASE EngineExecutes
  <2>1. PICK n \in {0, order.qty \div 2, order.qty} :
          order' = [order EXCEPT !.traded = n, !.expired = n < order.qty]
    BY <1>9 DEF EngineExecutes, ServiceSteps
  <2>2. order # NoOrder /\ UNCHANGED volume /\ order.traded = 0
    BY <1>3, <1>9 DEF EngineExecutes, ServiceSteps
  <2>3. order \in Orders /\ order.filled <= order.traded
    BY <1>2, <2>2 DEF OrderBound
  <2>4. order.qty \in Nat /\ order.filled \in Nat
    BY <2>3 DEF Orders
  <2>5. order.filled = 0
    BY <2>2, <2>3, <2>4
  <2>6. n \in Nat /\ n <= order.qty
    BY <2>4
  <2> DEFINE rest == n < order.qty
  <2>7. rest \in BOOLEAN
    OBVIOUS
  <2>8. order' = [order EXCEPT !.traded = n, !.expired = rest]
    BY <2>1
  <2> HIDE DEF rest
  <2>9. /\ order' \in Orders /\ order'.qty = order.qty /\ order'.worst = order.worst
        /\ order'.filled = order.filled /\ order'.traded = n
    BY <2>3, <2>6, <2>7, <2>8 DEF Orders
  <2> QED BY <2>2, <2>5, <2>6, <2>9, ServiceKeeps
<1>10. CASE ServiceFills
  <2>1. order # NoOrder /\ UNCHANGED volume
    BY <1>3, <1>10 DEF ServiceFills, ServiceSteps
  <2>2. order \in Orders /\ order.traded <= order.qty
    BY <1>2, <2>1 DEF OrderBound
  <2>3. PICK s \in Statuses : order' = [order EXCEPT !.filled = order.traded, !.status = s]
    <3> DEFINE s == IF order.traded = order.qty THEN "FILLED"
                    ELSE IF order.status = "OPEN" THEN "PARTIALLY_FILLED" ELSE order.status
    <3>1. order.status \in Statuses
      BY <2>2 DEF Orders
    <3>2. s \in Statuses
      BY <3>1 DEF Statuses
    <3>3. order' = [order EXCEPT !.filled = order.traded, !.status = s]
      BY <1>10, <2>2 DEF ServiceFills, ServiceSteps, Orders
    <3> HIDE DEF s
    <3> QED BY <3>2, <3>3
  <2>4. /\ order' \in Orders /\ order'.qty = order.qty /\ order'.worst = order.worst
        /\ order'.filled = order.traded /\ order'.traded = order.traded
    BY <2>2, <2>3 DEF Orders
  <2>5. order.traded \in Nat
    BY <2>2 DEF Orders
  <2> QED BY <2>1, <2>2, <2>4, <2>5, ServiceKeeps
<1>11. CASE ReadFails \/ GrowsOld \/ Rejected \/ LookupFails \/ DeadlinePasses \/ Crashes
  <2>1. order' = NoOrder /\ UNCHANGED volume
    BY <1>11 DEF ReadFails, GrowsOld, Rejected, LookupFails, DeadlinePasses, Crashes, EndsCycle, GivesUp
  <2> QED BY <1>1, <2>1 DEF BoundsInv
<1>12. CASE Accepted \/ LooksUp \/ Waits \/ Stops \/ NoAnswer \/ StrayIsTaken \/ CooldownPasses \/ UNCHANGED vars
  <2>1. UNCHANGED volume /\ order' \in {order, NoOrder}
    BY <1>12 DEF Accepted, LooksUp, Waits, Stops, NoAnswer, StrayIsTaken, CooldownPasses, vars, GivesUp, EndsCycle
  <2> QED BY <2>1 DEF BoundsInv
<1> QED
  BY <1>4, <1>5, <1>6, <1>7, <1>8, <1>9, <1>10, <1>11, <1>12 DEF Next, Goes, Service

\* Whatever depth it reads, whenever a window starts again and however late an order's
\* end is seen, the worker books within its hourly and daily limits, and what it has in
\* the order service is within the notional limit, in whole lots and at least the
\* minimum (CalculateOrderParametersWithOptions, ValidatePreOrder, RecordOrderResolved).
THEOREM OrdersWithinBounds == Spec => []WithinBounds
<1>1. BoundsInv => WithinBounds
  <2> SUFFICES ASSUME BoundsInv PROVE WithinBounds
    OBVIOUS
  <2>1. volume \in Volumes /\ VolumeBound(volume)
    BY DEF BoundsInv
  <2>2. ASSUME order # NoOrder
        PROVE  /\ InBounds(order)
               /\ volume.hourly + order.filled * order.worst <= MaxHourly
               /\ volume.daily + order.filled * order.worst <= MaxDaily
    <3>1. OrderBound(volume, order)
      BY <2>2 DEF BoundsInv
    <3>2. /\ order.filled * order.worst \in Nat /\ order.qty * order.worst \in Nat
          /\ order.filled * order.worst <= order.qty * order.worst
      BY <3>1, FilledCost DEF OrderBound
    <3>3. volume.hourly \in Nat /\ volume.daily \in Nat /\ MaxHourly \in Nat /\ MaxDaily \in Nat
      BY <2>1, Config DEF Volumes
    <3>4. InBounds(order) /\ Fits(volume, order)
      BY <3>1 DEF OrderBound
    <3> QED BY <3>2, <3>3, <3>4 DEF Fits
  <2> QED BY <2>1, <2>2 DEF VolumeBound, InBounds, WithinBounds
<1>2. QED BY <1>1, BoundsInitially, BoundsKept, PTL DEF Spec
=============================================================================

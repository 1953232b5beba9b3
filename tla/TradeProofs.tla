----------------------------- MODULE TradeProofs -----------------------------
(***************************************************************************)
(* Proofs about a trade, from the match to the settlement.                 *)
(*                                                                         *)
(* Settlement, for any log, any classes of trades, any retry limit and any *)
(* number of faults: a row says what has happened to its trade.            *)
(* OrderBook, for any orders, prices, redeliveries and restarts: the book  *)
(* stays in one piece, is not crossed and keeps every order's limit; its   *)
(* orders trade in price-time priority, across restarts too.               *)
(***************************************************************************)
EXTENDS Settlement, OrderBook, Sums, SequenceTheorems, TLAPS

-----------------------------------------------------------------------------
(***************************************************************************)
(* Settlement.                                                             *)
(***************************************************************************)
\* A worker about to mark a trade settled has had the wallet's success.
MarkAfterMove == \A w \in Workers : pc[w] = "mark" => cur[w] \in moved

\* What FindStalePending read is not ahead of the row's retry count.
SnapshotsBehind ==
  /\ \A b \in batch : b[2] <= retry[b[1]]
  /\ pc["recovery"] \in {"call", "record"} => snap <= retry[cur["recovery"]]

\* The recovery calls an error permanent only for a trade refused for good.
PermanentIsReal ==
  pc["recovery"] = "record" /\ permanent => cur["recovery"] \in Released

\* The inductive invariant.
IInv == /\ TypeOK
        /\ SettledMeansMoved
        /\ FailedIsExhausted
        /\ MarkAfterMove
        /\ SnapshotsBehind
        /\ PermanentIsReal

\* The invariant holds at the start.
LEMMA InitInv == Init => IInv
<1> SUFFICES ASSUME Init PROVE IInv
  OBVIOUS
<1>1. cur \in [Workers -> Trades]
  BY DEF Init
<1>2. Len(Log) \in Nat
  BY LogAssumption
<1>3. TypeOK
  <2>1. /\ row \in [Trades -> {"NONE", "PENDING", "SETTLED", "FAILED"}]
        /\ retry \in [Trades -> Nat]
        /\ pc \in [Workers -> Steps]
    BY DEF Init, Steps
  <2>2. /\ moved \subseteq Trades
        /\ orphans \subseteq Trades
        /\ batch \subseteq Trades \X Nat
    BY DEF Init
  <2>3. /\ next \in 0 .. Len(Log)
        /\ committed \in 0 .. next
        /\ snap \in Nat
        /\ faults \in 0 .. MaxFaults
    BY <1>2, BoundAssumption DEF Init
  <2>4. permanent \in BOOLEAN
    BY DEF Init
  <2> QED
    BY <1>1, <2>1, <2>2, <2>3, <2>4 DEF TypeOK
<1>4. SettledMeansMoved /\ FailedIsExhausted /\ MarkAfterMove
  BY DEF Init, SettledMeansMoved, FailedIsExhausted, MarkAfterMove, Workers
<1>5. SnapshotsBehind /\ PermanentIsReal
  BY DEF Init, SnapshotsBehind, PermanentIsReal, Workers
<1> QED
  BY <1>3, <1>4, <1>5 DEF IInv

\* Every step of the two workers, the wallet and the faults keeps the invariant.
LEMMA StepInv == IInv /\ [Next]_vars => IInv'
<1> SUFFICES ASSUME IInv, [Next]_vars PROVE IInv'
  OBVIOUS
<1> USE BoundAssumption
        DEF IInv, TypeOK, SettledMeansMoved, FailedIsExhausted, MarkAfterMove,
            SnapshotsBehind, PermanentIsReal, Workers, Steps,
            GoTo, Fault, ledger, wallet, kafka, rec
<1>1. CASE FetchMessage
  <2>1. Len(Log) \in Nat /\ Log[next + 1] \in Trades
    BY <1>1, LogAssumption DEF FetchMessage
  <2> QED
    BY <1>1, <2>1 DEF FetchMessage
<1>2. CASE FindByTradeID
  BY <1>2 DEF FindByTradeID
<1>3. CASE Insert
  BY <1>3 DEF Insert
<1>4. CASE CommitMessage
  BY <1>4, LogAssumption DEF CommitMessage
<1>5. CASE FindStalePending
  BY <1>5 DEF FindStalePending
<1>6. CASE RetryNext
  BY <1>6 DEF RetryNext
<1>7. CASE RecordFailure
  <2> DEFINE t == cur["recovery"]
  <2>1. CASE row[t] # "PENDING"
    BY <1>7, <2>1 DEF RecordFailure
  <2>2. CASE row[t] = "PENDING"
    <3>1. /\ row' = [row EXCEPT ![t] = IF GivesUp(t) THEN "FAILED" ELSE "PENDING"]
          /\ retry' = [retry EXCEPT ![t] = @ + 1]
          /\ pc' = [pc EXCEPT !["recovery"] = "idle"]
          /\ UNCHANGED <<moved, orphans, next, committed, cur, batch, snap, permanent, faults>>
      BY <1>7, <2>2 DEF RecordFailure
    <3>2. GivesUp(t) => t \in Released \/ retry[t] + 1 > RetryLimit
      BY <1>7 DEF RecordFailure, GivesUp
    <3>3. TypeOK' /\ SettledMeansMoved' /\ MarkAfterMove' /\ PermanentIsReal'
      BY <3>1
    <3>4. SnapshotsBehind'
      BY <3>1
    <3>5. FailedIsExhausted'
      BY <3>1, <3>2
    <3> QED
      BY <3>3, <3>4, <3>5
  <2> QED
    BY <2>1, <2>2
<1>8. ASSUME NEW w \in Workers, SettleSucceeds(w) PROVE IInv'
  BY <1>8 DEF SettleSucceeds, AfterSuccess
<1>9. ASSUME NEW w \in Workers, SettleRefused(w) PROVE IInv'
  <2>1. CASE w = "consumer"
    BY <1>9, <2>1 DEF SettleRefused, AfterError
  <2>2. CASE w = "recovery"
    <3>1. permanent' = (cur[w] \in Released)
      BY <1>9, <2>2 DEF SettleRefused, AfterError
    <3>2. permanent' = TRUE \/ permanent' = FALSE
      BY <3>1
    <3>3. permanent' => cur[w] \in Released
      BY <3>1, Zenon
    <3>4. /\ pc' = [pc EXCEPT !["recovery"] = "record"]
          /\ pc["recovery"] = "call"
          /\ UNCHANGED <<row, retry, moved, orphans, next, committed, cur, batch, snap, faults>>
      BY <1>9, <2>2 DEF SettleRefused, AfterError
    <3>5. TypeOK'
      BY <3>2, <3>4
    <3>6. PermanentIsReal'
      BY <2>2, <3>3, <3>4
    <3>7. SettledMeansMoved' /\ FailedIsExhausted' /\ MarkAfterMove' /\ SnapshotsBehind'
      BY <3>4
    <3> QED
      BY <3>5, <3>6, <3>7
  <2> QED
    BY <2>1, <2>2
<1>10. ASSUME NEW w \in Workers, MarkSettled(w) PROVE IInv'
  BY <1>10 DEF MarkSettled
<1>11. ASSUME NEW w \in Workers, SettleTimesOut(w) PROVE IInv'
  <2>1. CASE w = "consumer"
    BY <1>11, <2>1 DEF SettleTimesOut, AfterError
  <2>2. CASE w = "recovery"
    BY <1>11, <2>2 DEF SettleTimesOut, AfterError
  <2> QED
    BY <2>1, <2>2
<1>12. ASSUME NEW t \in Trades, OrphanLands(t) PROVE IInv'
  BY <1>12 DEF OrphanLands
<1>13. CASE ConsumerSkips
  BY <1>13 DEF ConsumerSkips
<1>14. CASE RecoverySkips
  BY <1>14 DEF RecoverySkips
<1>15. CASE Crash
  BY <1>15 DEF Crash
<1>16. CASE UNCHANGED vars
  BY <1>16 DEF vars
<1> QED
  BY <1>1, <1>2, <1>3, <1>4, <1>5, <1>6, <1>7, <1>8, <1>9, <1>10, <1>11, <1>12,
     <1>13, <1>14, <1>15, <1>16
     DEF Next, Consumer, Recovery, Work

\* Every reachable state satisfies the inductive invariant.
THEOREM Invariance == Spec => []IInv
<1> QED
  BY InitInv, StepInv, PTL DEF Spec

\* No row says SETTLED before the wallet has moved the funds, for any log, any
\* interleaving of consumer and recovery and any faults.
THEOREM SettledIsMoved == Spec => []SettledMeansMoved
<1>1. IInv => SettledMeansMoved
  BY DEF IInv
<1> QED
  BY <1>1, Invariance, PTL

\* RecordSettlementFailure gives a trade up only after a permanent refusal or
\* beyond the retry limit, although it compares a retry count read earlier.
THEOREM GivenUpLate == Spec => []FailedIsExhausted
<1>1. IInv => FailedIsExhausted
  BY DEF IInv
<1> QED
  BY <1>1, Invariance, PTL

\* SETTLED means that the funds have moved and FAILED that trying was over, for any log,
\* any interleaving of consumer and recovery and any faults.
THEOREM RowsTellTheTruth == Spec => []StatusTruthful
<1>1. SettledMeansMoved /\ FailedIsExhausted => StatusTruthful
  BY DEF StatusTruthful
<1> QED
  BY <1>1, SettledIsMoved, GivenUpLate, PTL

-----------------------------------------------------------------------------
(***************************************************************************)
(* OrderBook.                                                              *)
(***************************************************************************)
(***************************************************************************)
(* Sequences.                                                              *)
(***************************************************************************)
Elems(q)  == {q[i] : i \in 1..Len(q)}
Unique(q) == \A i, j \in 1..Len(q) : q[i] = q[j] => i = j

LEMMA NoElems ==
  ASSUME NEW S, NEW q \in Seq(S)
  PROVE  q = <<>> <=> Elems(q) = {}
<1>1. q = <<>> <=> Len(q) = 0
  OBVIOUS
<1>2. Len(q) \in Nat
  OBVIOUS
<1>3. Len(q) # 0 => q[1] \in Elems(q)
  BY <1>2 DEF Elems
<1>4. Len(q) = 0 => Elems(q) = {}
  BY DEF Elems
<1> QED BY <1>1, <1>3, <1>4

\* An element put into place k.
LEMMA InsertAtIs ==
  ASSUME NEW S, NEW q \in Seq(S), NEW k \in 1 .. Len(q) + 1, NEW e \in S
  PROVE  /\ InsertAt(q, k, e) \in Seq(S)
         /\ Len(InsertAt(q, k, e)) = Len(q) + 1
         /\ \A i \in 1 .. Len(q) + 1 :
              InsertAt(q, k, e)[i] = IF i < k THEN q[i] ELSE IF i = k THEN e ELSE q[i - 1]
<1>1. Len(q) \in Nat /\ k \in Nat
  OBVIOUS
<1> DEFINE a == SubSeq(q, 1, k - 1)
           b == SubSeq(q, k, Len(q))
<1>2. a \in Seq(S) /\ Len(a) = k - 1 /\ \A i \in 1 .. k - 1 : a[i] = q[i]
  OBVIOUS
<1>3. b \in Seq(S) /\ Len(b) = Len(q) - k + 1 /\ \A i \in 1 .. Len(q) - k + 1 : b[i] = q[k + i - 1]
  OBVIOUS
<1>4. <<e>> \in Seq(S) /\ Len(<<e>>) = 1 /\ <<e>>[1] = e
  OBVIOUS
<1>5. InsertAt(q, k, e) = a \o <<e>> \o b
  BY DEF InsertAt
<1> HIDE DEF a, b
<1> DEFINE c == a \o <<e>>
<1>6. c \in Seq(S) /\ Len(c) = k /\ \A i \in 1 .. k : c[i] = IF i < k THEN q[i] ELSE e
  <2>1. /\ c \in Seq(S) /\ Len(c) = Len(a) + Len(<<e>>)
        /\ \A i \in 1 .. Len(a) + Len(<<e>>) : c[i] = IF i <= Len(a) THEN a[i] ELSE <<e>>[i - Len(a)]
    BY <1>2, <1>4, ConcatProperties
  <2> HIDE DEF c
  <2>2. Len(a) = k - 1 /\ Len(a) + Len(<<e>>) = k
    BY <1>1, <1>2, <1>4
  <2>3. ASSUME NEW i \in 1 .. k PROVE c[i] = IF i < k THEN q[i] ELSE e
    <3>1. c[i] = IF i <= k - 1 THEN a[i] ELSE <<e>>[i - (k - 1)]
      BY <2>1, <2>2
    <3>2. CASE i < k
      BY <1>1, <1>2, <3>1, <3>2
    <3>3. CASE i = k
      <4>1. ~(i <= k - 1) /\ i - (k - 1) = 1
        BY <1>1, <3>3
      <4> QED BY <1>4, <3>1, <3>3, <4>1
    <3> QED BY <1>1, <3>2, <3>3
  <2> QED BY <2>1, <2>2, <2>3
<1> HIDE DEF c
<1> DEFINE r == c \o b
<1>7. /\ r \in Seq(S) /\ Len(r) = Len(c) + Len(b)
      /\ \A i \in 1 .. Len(c) + Len(b) : r[i] = IF i <= Len(c) THEN c[i] ELSE b[i - Len(c)]
  BY <1>3, <1>6, ConcatProperties
<1> HIDE DEF r
<1>8. Len(r) = Len(q) + 1
  BY <1>1, <1>3, <1>6, <1>7
<1>9. ASSUME NEW i \in 1 .. Len(q) + 1 PROVE r[i] = IF i < k THEN q[i] ELSE IF i = k THEN e ELSE q[i - 1]
  <2>1. CASE i <= k
    BY <1>1, <1>3, <1>6, <1>7, <2>1
  <2>2. CASE i > k
    <3>1. r[i] = b[i - k] /\ i - k \in 1 .. Len(q) - k + 1
      BY <1>1, <1>3, <1>6, <1>7, <2>2
    <3>2. b[i - k] = q[k + (i - k) - 1]
      BY <1>3, <3>1
    <3> QED BY <1>1, <2>2, <3>1, <3>2
  <2> QED BY <1>1, <2>1, <2>2
<1> QED BY <1>5, <1>7, <1>8, <1>9 DEF c, r

\* The element at place k taken out.
LEMMA RemoveAtIs ==
  ASSUME NEW S, NEW q \in Seq(S), NEW k \in 1 .. Len(q)
  PROVE  /\ RemoveAt(q, k) \in Seq(S)
         /\ Len(RemoveAt(q, k)) = Len(q) - 1
         /\ \A i \in 1 .. Len(q) - 1 :
              RemoveAt(q, k)[i] = IF i < k THEN q[i] ELSE q[i + 1]
<1>1. Len(q) \in Nat /\ k \in Nat
  OBVIOUS
<1> DEFINE a == SubSeq(q, 1, k - 1)
           b == SubSeq(q, k + 1, Len(q))
<1>2. a \in Seq(S) /\ Len(a) = k - 1 /\ \A i \in 1 .. k - 1 : a[i] = q[i]
  OBVIOUS
<1>3. b \in Seq(S) /\ Len(b) = Len(q) - k /\ \A i \in 1 .. Len(q) - k : b[i] = q[k + i]
  OBVIOUS
<1>4. RemoveAt(q, k) = a \o b
  BY DEF RemoveAt
<1> HIDE DEF a, b
<1> DEFINE r == a \o b
<1>5. /\ r \in Seq(S) /\ Len(r) = Len(a) + Len(b)
      /\ \A i \in 1 .. Len(a) + Len(b) : r[i] = IF i <= Len(a) THEN a[i] ELSE b[i - Len(a)]
  BY <1>2, <1>3, ConcatProperties
<1> HIDE DEF r
<1>6. Len(r) = Len(q) - 1 /\ \A i \in 1 .. Len(q) - 1 : r[i] = IF i <= k - 1 THEN a[i] ELSE b[i - (k - 1)]
  <2>1. Len(a) + Len(b) = Len(q) - 1
    BY <1>1, <1>2, <1>3
  <2> QED BY <1>2, <1>5, <2>1
<1>7. ASSUME NEW i \in 1 .. Len(q) - 1 PROVE r[i] = IF i < k THEN q[i] ELSE q[i + 1]
  <2>1. CASE i < k
    BY <1>1, <1>2, <1>6, <2>1
  <2>2. CASE i >= k
    <3>1. r[i] = b[i - (k - 1)] /\ i - (k - 1) \in 1 .. Len(q) - k
      BY <1>1, <1>6, <2>2
    <3>2. b[i - (k - 1)] = q[k + (i - (k - 1))]
      BY <1>3, <3>1
    <3> QED BY <1>1, <2>2, <3>1, <3>2
  <2> QED BY <1>1, <2>1, <2>2
<1> QED BY <1>4, <1>5, <1>6, <1>7 DEF r

\* The least of a set of naturals that is not empty.
LEMMA LeastIs ==
  ASSUME NEW I \in SUBSET Nat, I # {}
  PROVE  Min(I) \in I /\ \A i \in I : Min(I) <= i
<1> DEFINE G == {n \in Nat : \A i \in I : n <= i}
<1>1. PICK m \in I : \A i \in I : m <= i
  <2> SUFFICES ASSUME \A m \in I : \E i \in I : ~(m <= i) PROVE FALSE
    OBVIOUS
  <2>1. 0 \in G
    OBVIOUS
  <2>2. ASSUME NEW n \in Nat, n \in G PROVE n + 1 \in G
    <3>1. n \notin I
      BY <2>2
    <3> QED BY <2>2, <3>1
  <2> HIDE DEF G
  <2>3. \A n \in Nat : n \in G
    BY <2>1, <2>2, NatSetInduction
  <2>4. PICK i \in I : TRUE
    OBVIOUS
  <2>5. i + 1 \in G
    BY <2>3
  <2> QED BY <2>5 DEF G
<1>2. Min(I) = CHOOSE x \in I : \A y \in I : x <= y
  BY DEF Min
<1> QED BY <1>1, <1>2

-----------------------------------------------------------------------------
(***************************************************************************)
(* The sorted prices of a side.                                            *)
(***************************************************************************)
Ordered(s, ps) == \A i, j \in 1..Len(ps) : i < j => Before(s, ps[i], ps[j])

LEMMA PricesAre == /\ Prices \subseteq Nat /\ \A x \in Specs : x.price \in Prices
                   /\ \A s \in Sides : \A a, b, c \in Prices :
                        /\ Before(s, a, b) \/ Before(s, b, a) \/ a = b
                        /\ ~Before(s, a, a)
                        /\ Before(s, a, b) /\ Before(s, b, c) => Before(s, a, c)
<1>1. Prices \subseteq Nat /\ \A x \in Specs : x.price \in Prices
  BY SpecsAssumption DEF Prices
<1> QED BY <1>1 DEF Before, Sides

\* A new price goes to its place.
LEMMA WithPriceIs ==
  ASSUME NEW s \in Sides, NEW ps \in Seq(Prices), Ordered(s, ps),
         NEW p \in Prices, p \notin Elems(ps)
  PROVE  /\ WithPrice(s, ps, p) \in Seq(Prices)
         /\ Ordered(s, WithPrice(s, ps, p))
         /\ Elems(WithPrice(s, ps, p)) = Elems(ps) \cup {p}
<1> DEFINE I == {i \in 1..Len(ps) : Before(s, p, ps[i])}
           k == IF I = {} THEN Len(ps) + 1 ELSE Min(I)
           r == InsertAt(ps, k, p)
<1>0. Len(ps) \in Nat /\ \A i \in 1..Len(ps) : ps[i] \in Prices
  OBVIOUS
<1>1. I # {} => Min(I) \in I /\ \A i \in I : Min(I) <= i
  <2>1. I \in SUBSET Nat
    OBVIOUS
  <2> HIDE DEF I
  <2> QED BY <2>1, LeastIs
<1>2. /\ k \in 1 .. Len(ps) + 1
      /\ \A i \in 1..Len(ps) : i < k => Before(s, ps[i], p)
      /\ \A i \in 1..Len(ps) : i >= k => Before(s, p, ps[i])
  <2>1. CASE I = {}
    <3>1. k = Len(ps) + 1
      BY <2>1
    <3>2. \A i \in 1..Len(ps) : ~Before(s, p, ps[i]) /\ ps[i] # p
      BY <2>1 DEF Elems
    <3>3. \A i \in 1..Len(ps) : Before(s, ps[i], p)
      BY <1>0, <3>2, PricesAre
    <3> HIDE DEF k
    <3> QED BY <1>0, <3>1, <3>3
  <2>2. CASE I # {}
    <3>1. k = Min(I) /\ k \in I /\ \A i \in I : k <= i
      BY <2>2, <1>1
    <3> HIDE DEF k
    <3>2. k \in 1..Len(ps) /\ Before(s, p, ps[k])
      BY <3>1
    <3>3. ASSUME NEW i \in 1..Len(ps), i < k PROVE Before(s, ps[i], p)
      <4>1. i \notin I
        BY <3>1, <3>2, <3>3
      <4>2. ~Before(s, p, ps[i]) /\ ps[i] # p
        BY <4>1 DEF Elems
      <4> QED BY <1>0, <4>2, PricesAre
    <3>4. ASSUME NEW i \in 1..Len(ps), i >= k PROVE Before(s, p, ps[i])
      <4>1. CASE i = k
        BY <3>2, <4>1
      <4>2. CASE i # k
        <5>1. Before(s, ps[k], ps[i])
          BY <3>2, <3>4, <4>2 DEF Ordered
        <5> QED BY <1>0, <3>2, <5>1, PricesAre
      <4> QED BY <4>1, <4>2
    <3> QED BY <3>2, <3>3, <3>4
  <2> QED BY <2>1, <2>2
<1>3. WithPrice(s, ps, p) = r
  <2>1. 0 \notin I
    OBVIOUS
  <2>2. SelectInSeq(ps, LAMBDA x : Before(s, p, x)) = IF I # {} THEN Min(I) ELSE 0
    BY DEF SelectInSeq
  <2>3. Search(ps, LAMBDA x : Before(s, p, x)) = k
    BY <1>1, <2>1, <2>2 DEF Search
  <2> QED BY <2>3 DEF WithPrice
<1> HIDE DEF k
<1>4. /\ r \in Seq(Prices) /\ Len(r) = Len(ps) + 1
      /\ \A i \in 1 .. Len(ps) + 1 : r[i] = IF i < k THEN ps[i] ELSE IF i = k THEN p ELSE ps[i - 1]
  BY <1>2, InsertAtIs
<1> HIDE DEF r, I
<1>5. Ordered(s, r)
  <2> SUFFICES ASSUME NEW i \in 1..Len(ps) + 1, NEW j \in 1..Len(ps) + 1, i < j
               PROVE  Before(s, r[i], r[j])
    BY <1>4 DEF Ordered
  <2>1. CASE j < k
    BY <2>1, <1>0, <1>2, <1>4 DEF Ordered
  <2>2. CASE j = k
    BY <2>2, <1>0, <1>2, <1>4
  <2>3. CASE j > k /\ i < k
    <3>1. r[i] = ps[i] /\ r[j] = ps[j - 1] /\ i < j - 1 /\ i \in 1..Len(ps) /\ j - 1 \in 1..Len(ps)
      BY <2>3, <1>0, <1>2, <1>4
    <3> QED BY <3>1 DEF Ordered
  <2>4. CASE j > k /\ i = k
    <3>1. r[i] = p /\ r[j] = ps[j - 1] /\ j - 1 >= k /\ j - 1 \in 1..Len(ps)
      BY <2>4, <1>0, <1>2, <1>4
    <3> QED BY <3>1, <1>2
  <2>5. CASE j > k /\ i > k
    <3>1. r[i] = ps[i - 1] /\ r[j] = ps[j - 1] /\ i - 1 < j - 1 /\ i - 1 \in 1..Len(ps) /\ j - 1 \in 1..Len(ps)
      BY <2>5, <1>0, <1>2, <1>4
    <3> QED BY <3>1 DEF Ordered
  <2> QED BY <2>1, <2>2, <2>3, <2>4, <2>5, <1>0, <1>2
<1>6. Elems(r) = Elems(ps) \cup {p}
  <2>1. ASSUME NEW i \in 1..Len(r) PROVE r[i] \in Elems(ps) \cup {p}
    <3>1. CASE i < k
      BY <3>1, <1>0, <1>2, <1>4 DEF Elems
    <3>2. CASE i = k
      BY <3>2, <1>0, <1>2, <1>4
    <3>3. CASE i > k
      <4>1. r[i] = ps[i - 1] /\ i - 1 \in 1..Len(ps)
        BY <3>3, <1>0, <1>2, <1>4
      <4> QED BY <4>1 DEF Elems
    <3> QED BY <3>1, <3>2, <3>3, <1>0, <1>2, <1>4
  <2>2. ASSUME NEW i \in 1..Len(ps) PROVE ps[i] \in Elems(r)
    <3>1. CASE i < k
      <4>1. r[i] = ps[i] /\ i \in 1..Len(r)
        BY <3>1, <1>0, <1>2, <1>4
      <4> QED BY <4>1 DEF Elems
    <3>2. CASE i >= k
      <4>1. r[i + 1] = ps[i] /\ i + 1 \in 1..Len(r)
        BY <3>2, <1>0, <1>2, <1>4
      <4> QED BY <4>1 DEF Elems
    <3> QED BY <3>1, <3>2, <1>0, <1>2
  <2>3. p \in Elems(r)
    <3>1. r[k] = p /\ k \in 1..Len(r)
      BY <1>0, <1>2, <1>4
    <3> QED BY <3>1 DEF Elems
  <2> QED BY <2>1, <2>2, <2>3 DEF Elems
<1> QED BY <1>3, <1>4, <1>5, <1>6

\* What is left of a sequence without the element at k.
LEMMA Without ==
  ASSUME NEW S, NEW q \in Seq(S), Unique(q), NEW k \in 1..Len(q)
  PROVE  /\ RemoveAt(q, k) \in Seq(S)
         /\ Elems(RemoveAt(q, k)) = Elems(q) \ {q[k]}
         /\ Unique(RemoveAt(q, k))
<1> DEFINE r == RemoveAt(q, k)
<1>0. Len(q) \in Nat /\ k \in Nat
  OBVIOUS
<1>1. /\ r \in Seq(S) /\ Len(r) = Len(q) - 1
      /\ \A i \in 1 .. Len(q) - 1 : r[i] = IF i < k THEN q[i] ELSE q[i + 1]
  BY RemoveAtIs
<1> HIDE DEF r
<1> DEFINE at(i) == IF i < k THEN i ELSE i + 1
<1>2. \A i \in 1 .. Len(r) : at(i) \in 1..Len(q) /\ at(i) # k /\ r[i] = q[at(i)]
  BY <1>0, <1>1
<1>3. \A i, j \in 1 .. Len(r) : at(i) = at(j) => i = j
  BY <1>0, <1>1
<1>4. \A m \in 1..Len(q) : m # k => \E i \in 1..Len(r) : at(i) = m
  <2> SUFFICES ASSUME NEW m \in 1..Len(q), m # k PROVE \E i \in 1..Len(r) : at(i) = m
    OBVIOUS
  <2>1. CASE m < k
    <3>1. m \in 1..Len(r) /\ at(m) = m
      BY <1>0, <1>1, <2>1
    <3> QED BY <3>1
  <2>2. CASE m > k
    <3>1. m - 1 \in 1..Len(r) /\ at(m - 1) = m
      BY <1>0, <1>1, <2>2
    <3> QED BY <3>1
  <2> QED BY <2>1, <2>2, <1>0
<1> HIDE DEF at
<1>5. Elems(r) = Elems(q) \ {q[k]}
  BY <1>2, <1>4 DEF Elems, Unique
<1>6. Unique(r)
  BY <1>2, <1>3 DEF Unique
<1> QED BY <1>1, <1>5, <1>6 DEF r

\* A price without orders goes.
LEMMA WithoutPriceIs ==
  ASSUME NEW s \in Sides, NEW ps \in Seq(Prices), Ordered(s, ps), NEW p \in Elems(ps)
  PROVE  /\ WithoutPrice(s, ps, p) \in Seq(Prices)
         /\ Ordered(s, WithoutPrice(s, ps, p))
         /\ Elems(WithoutPrice(s, ps, p)) = Elems(ps) \ {p}
<1>0. Len(ps) \in Nat /\ \A i \in 1..Len(ps) : ps[i] \in Prices
  OBVIOUS
<1>1. PICK m \in 1..Len(ps) : ps[m] = p
  BY DEF Elems
<1> DEFINE I == {i \in 1..Len(ps) : ps[i] = p \/ Before(s, p, ps[i])}
           r == RemoveAt(ps, m)
<1>2. m \in I /\ \A i \in I : m <= i
  <2> SUFFICES ASSUME NEW i \in 1..Len(ps), i < m PROVE ~(ps[i] = p \/ Before(s, p, ps[i]))
    BY <1>1
  <2>1. Before(s, ps[i], p)
    BY <1>1 DEF Ordered
  <2> QED BY <1>0, <1>1, <2>1, PricesAre
<1>3. Min(I) = m
  <2>1. I \in SUBSET Nat /\ I # {}
    BY <1>2
  <2> HIDE DEF I
  <2>2. Min(I) \in I /\ \A i \in I : Min(I) <= i
    BY <2>1, LeastIs
  <2> DEFINE n == Min(I)
  <2>3. n \in Nat /\ m \in Nat /\ n <= m /\ m <= n
    BY <2>1, <2>2, <1>2
  <2> HIDE DEF n
  <2>4. n = m
    BY <2>3
  <2> QED BY <2>4 DEF n
<1>4. WithoutPrice(s, ps, p) = r
  <2>1. I # {} /\ m # 0
    BY <1>2
  <2>2. SelectInSeq(ps, LAMBDA x : x = p \/ Before(s, p, x)) = IF I # {} THEN Min(I) ELSE 0
    BY DEF SelectInSeq
  <2>3. Search(ps, LAMBDA x : x = p \/ Before(s, p, x)) = m
    BY <1>3, <2>1, <2>2 DEF Search
  <2> QED BY <2>3 DEF WithoutPrice
<1> HIDE DEF I
<1>5. /\ r \in Seq(Prices) /\ Len(r) = Len(ps) - 1
      /\ \A i \in 1 .. Len(ps) - 1 : r[i] = IF i < m THEN ps[i] ELSE ps[i + 1]
  BY RemoveAtIs
<1>6. Unique(ps)
  <2> SUFFICES ASSUME NEW i \in 1..Len(ps), NEW j \in 1..Len(ps), ps[i] = ps[j], i < j PROVE FALSE
    BY <1>0 DEF Unique
  <2>1. Before(s, ps[i], ps[j])
    BY DEF Ordered
  <2> QED BY <1>0, <2>1, PricesAre
<1>7. Elems(r) = Elems(ps) \ {p}
  BY <1>1, <1>6, Without
<1> HIDE DEF r
<1>8. Ordered(s, r)
  <2> DEFINE at(i) == IF i < m THEN i ELSE i + 1
  <2>1. \A i \in 1 .. Len(r) : at(i) \in 1..Len(ps) /\ r[i] = ps[at(i)]
    BY <1>0, <1>5
  <2>2. \A i, j \in 1 .. Len(r) : i < j => at(i) < at(j)
    BY <1>0, <1>5
  <2> HIDE DEF at
  <2> QED BY <2>1, <2>2 DEF Ordered
<1> QED BY <1>4, <1>5, <1>7, <1>8

\* An order leaves its level.
LEMMA RemoveFirstIs ==
  ASSUME NEW S, NEW q \in Seq(S), Unique(q), NEW o \in Elems(q)
  PROVE  /\ RemoveFirst(q, o) \in Seq(S)
         /\ Elems(RemoveFirst(q, o)) = Elems(q) \ {o}
         /\ Unique(RemoveFirst(q, o))
         /\ RemoveFirst(q, o) = <<>> <=> Elems(q) = {o}
         /\ \E m \in 1..Len(q) : q[m] = o /\ RemoveFirst(q, o) = RemoveAt(q, m)
<1>0. Len(q) \in Nat
  OBVIOUS
<1>1. PICK m \in 1..Len(q) : q[m] = o
  BY DEF Elems
<1> DEFINE I == {i \in 1..Len(q) : q[i] = o}
           r == RemoveAt(q, m)
<1>2. I = {m}
  BY <1>1 DEF Unique
<1>3. Min(I) = m
  <2>1. Min({m}) = m
    BY DEF Min
  <2> QED BY <1>2, <2>1
<1>4. RemoveFirst(q, o) = r
  <2>1. SelectInSeq(q, LAMBDA v : v = o) = IF I # {} THEN Min(I) ELSE 0
    BY DEF SelectInSeq
  <2>2. SelectInSeq(q, LAMBDA v : v = o) = m
    BY <1>2, <1>3, <2>1
  <2>3. \E i \in 1..Len(q) : q[i] = o
    BY <1>1
  <2> QED BY <2>2, <2>3 DEF RemoveFirst
<1>5. r \in Seq(S) /\ Elems(r) = Elems(q) \ {o} /\ Unique(r)
  BY <1>1, Without
<1> HIDE DEF r
<1>6. r = <<>> <=> Elems(r) = {}
  BY <1>5, NoElems
<1>7. Elems(q) \ {o} = {} <=> Elems(q) = {o}
  OBVIOUS
<1>8. \E k \in 1..Len(q) : q[k] = o /\ RemoveFirst(q, o) = RemoveAt(q, k)
  BY <1>1, <1>4 DEF r
<1> QED BY <1>4, <1>5, <1>6, <1>7, <1>8

-----------------------------------------------------------------------------
(***************************************************************************)
(* The order of a sequence.                                                *)
(***************************************************************************)
Precedes(a, b, q) == \E i, j \in 1..Len(q) : i < j /\ q[i] = a /\ q[j] = b

LEMMA PrecedesIn ==
  ASSUME NEW q, NEW a, NEW b, Precedes(a, b, q)
  PROVE  a \in Elems(q) /\ b \in Elems(q)
  BY DEF Precedes, Elems

\* Two elements of a sequence come one before the other, and not the other way.
LEMMA PrecedesOne ==
  ASSUME NEW S, NEW q \in Seq(S), Unique(q), NEW a \in Elems(q), NEW b \in Elems(q), a # b
  PROVE  Precedes(a, b, q) <=> ~Precedes(b, a, q)
<1>1. PICK i \in 1..Len(q) : q[i] = a
  BY DEF Elems
<1>2. PICK j \in 1..Len(q) : q[j] = b
  BY DEF Elems
<1>3. Len(q) \in Nat
  OBVIOUS
<1>4. i # j
  <2> SUFFICES ASSUME i = j PROVE FALSE
    OBVIOUS
  <2>1. q[i] = q[j]
    OBVIOUS
  <2> QED BY <1>1, <1>2, <2>1
<1>5. Precedes(a, b, q) <=> i < j
  BY <1>1, <1>2 DEF Precedes, Unique
<1>6. Precedes(b, a, q) <=> j < i
  BY <1>1, <1>2 DEF Precedes, Unique
<1> QED BY <1>3, <1>4, <1>5, <1>6

LEMMA PrecedesOther ==
  ASSUME NEW S, NEW q \in Seq(S), Unique(q), NEW a, NEW b, Precedes(a, b, q)
  PROVE  a # b
<1>1. PICK i \in 1..Len(q), j \in 1..Len(q) : i < j /\ q[i] = a /\ q[j] = b
  BY DEF Precedes
<1>2. Len(q) \in Nat /\ i # j
  BY <1>1
<1> QED BY <1>1, <1>2 DEF Unique

LEMMA ConcatOrder ==
  ASSUME NEW S, NEW q \in Seq(S), NEW r \in Seq(S)
  PROVE  /\ q \o r \in Seq(S)
         /\ Elems(q) \subseteq Elems(q \o r) /\ Elems(r) \subseteq Elems(q \o r)
         /\ \A a, b : Precedes(a, b, q) \/ Precedes(a, b, r) => Precedes(a, b, q \o r)
<1> DEFINE c == q \o r
<1>1. Len(q) \in Nat /\ Len(r) \in Nat
  OBVIOUS
<1>2. /\ c \in Seq(S) /\ Len(c) = Len(q) + Len(r)
      /\ \A i \in 1 .. Len(q) + Len(r) : c[i] = IF i <= Len(q) THEN q[i] ELSE r[i - Len(q)]
  BY ConcatProperties
<1> HIDE DEF c
<1>3. \A i \in 1..Len(q) : i \in 1..Len(c) /\ c[i] = q[i]
  BY <1>1, <1>2
<1>4. ASSUME NEW i \in 1..Len(r) PROVE Len(q) + i \in 1..Len(c) /\ c[Len(q) + i] = r[i]
  <2>1. /\ Len(q) + i \in 1..Len(q) + Len(r) /\ ~(Len(q) + i <= Len(q))
        /\ (Len(q) + i) - Len(q) = i
    BY <1>1
  <2> QED BY <1>2, <2>1
<1>5. Elems(q) \subseteq Elems(c) /\ Elems(r) \subseteq Elems(c)
  BY <1>3, <1>4 DEF Elems
<1>6. ASSUME NEW a, NEW b, Precedes(a, b, q) PROVE Precedes(a, b, c)
  BY <1>3, <1>6 DEF Precedes
<1>7. ASSUME NEW a, NEW b, Precedes(a, b, r) PROVE Precedes(a, b, c)
  <2>1. PICK i \in 1..Len(r), j \in 1..Len(r) : i < j /\ r[i] = a /\ r[j] = b
    BY <1>7 DEF Precedes
  <2>2. Len(q) + i < Len(q) + j
    BY <1>1, <2>1
  <2> QED BY <1>4, <2>1, <2>2 DEF Precedes
<1> QED BY <1>2, <1>5, <1>6, <1>7 DEF c

LEMMA AppendOrder ==
  ASSUME NEW S, NEW q \in Seq(S), NEW o \in S
  PROVE  \A a, b : Precedes(a, b, Append(q, o)) <=> Precedes(a, b, q) \/ (b = o /\ a \in Elems(q))
<1> DEFINE r == Append(q, o)
<1>1. /\ Len(q) \in Nat /\ Len(r) = Len(q) + 1 /\ r[Len(q) + 1] = o
      /\ \A i \in 1..Len(q) : r[i] = q[i]
  OBVIOUS
<1> HIDE DEF r
<1>2. ASSUME NEW a, NEW b, Precedes(a, b, r) PROVE Precedes(a, b, q) \/ (b = o /\ a \in Elems(q))
  <2>1. PICK i \in 1..Len(r), j \in 1..Len(r) : i < j /\ r[i] = a /\ r[j] = b
    BY <1>2 DEF Precedes
  <2>2. i \in 1..Len(q) /\ q[i] = a
    BY <1>1, <2>1
  <2>3. CASE j \in 1..Len(q)
    BY <1>1, <2>1, <2>2, <2>3 DEF Precedes
  <2>4. CASE j \notin 1..Len(q)
    <3>1. j = Len(q) + 1
      BY <1>1, <2>4
    <3> QED BY <1>1, <2>1, <2>2, <3>1 DEF Elems
  <2> QED BY <2>3, <2>4
<1>3. ASSUME NEW a, NEW b, Precedes(a, b, q) PROVE Precedes(a, b, r)
  <2>1. \A i \in 1..Len(q) : i \in 1..Len(r)
    BY <1>1
  <2> QED BY <1>1, <1>3, <2>1 DEF Precedes
<1>4. ASSUME NEW a \in Elems(q) PROVE Precedes(a, o, r)
  <2>1. PICK i \in 1..Len(q) : q[i] = a
    BY DEF Elems
  <2>2. i \in 1..Len(r) /\ Len(q) + 1 \in 1..Len(r) /\ i < Len(q) + 1
    BY <1>1
  <2> QED BY <1>1, <2>1, <2>2 DEF Precedes
<1> QED BY <1>2, <1>3, <1>4 DEF r

\* What is left of a sequence keeps its order.
LEMMA WithoutOrder ==
  ASSUME NEW S, NEW q \in Seq(S), Unique(q), NEW o
  PROVE  /\ RemoveFirst(q, o) \in Seq(S) /\ Unique(RemoveFirst(q, o))
         /\ Elems(RemoveFirst(q, o)) = Elems(q) \ {o}
         /\ \A a, b : Precedes(a, b, RemoveFirst(q, o)) <=> Precedes(a, b, q) /\ a # o /\ b # o
<1>1. CASE o \notin Elems(q)
  <2>1. RemoveFirst(q, o) = q
    BY <1>1 DEF RemoveFirst, Elems
  <2>2. \A a, b : Precedes(a, b, q) => a # o /\ b # o
    BY <1>1, PrecedesIn
  <2> QED BY <1>1, <2>1, <2>2
<1>2. CASE o \in Elems(q)
  <2>1. PICK m \in 1..Len(q) : q[m] = o /\ RemoveFirst(q, o) = RemoveAt(q, m)
    BY <1>2, RemoveFirstIs
  <2> DEFINE r == RemoveAt(q, m)
             at(i) == IF i < m THEN i ELSE i + 1
             to(i) == IF i < m THEN i ELSE i - 1
  <2>2. Len(q) \in Nat /\ m \in Nat
    OBVIOUS
  <2>3. /\ r \in Seq(S) /\ Len(r) = Len(q) - 1
        /\ \A i \in 1 .. Len(q) - 1 : r[i] = IF i < m THEN q[i] ELSE q[i + 1]
    BY RemoveAtIs
  <2>4. r \in Seq(S) /\ Unique(r) /\ Elems(r) = Elems(q) \ {o}
    BY <1>2, <2>1, RemoveFirstIs
  <2> HIDE DEF r
  <2>5. \A i \in 1..Len(r) : at(i) \in 1..Len(q) /\ r[i] = q[at(i)]
    BY <2>2, <2>3
  <2>6. \A i, j \in 1..Len(r) : i < j => at(i) < at(j)
    BY <2>2, <2>3
  <2>7. \A i \in 1..Len(q) : i # m => to(i) \in 1..Len(r) /\ r[to(i)] = q[i]
    <3> SUFFICES ASSUME NEW i \in 1..Len(q), i # m PROVE to(i) \in 1..Len(r) /\ r[to(i)] = q[i]
      OBVIOUS
    <3>1. CASE i < m
      BY <2>2, <2>3, <3>1
    <3>2. CASE i > m
      <4>1. i - 1 \in 1 .. Len(q) - 1 /\ ~(i - 1 < m) /\ (i - 1) + 1 = i /\ to(i) = i - 1
        BY <2>2, <3>2
      <4> QED BY <2>3, <4>1
    <3> QED BY <2>2, <3>1, <3>2
  <2>8. \A i, j \in 1..Len(q) : i # m /\ j # m /\ i < j => to(i) < to(j)
    BY <2>2
  <2> HIDE DEF at, to
  <2>9. ASSUME NEW a, NEW b, Precedes(a, b, r) PROVE Precedes(a, b, q) /\ a # o /\ b # o
    <3>1. Precedes(a, b, q)
      BY <2>5, <2>6, <2>9 DEF Precedes
    <3>2. a \in Elems(r) /\ b \in Elems(r)
      BY <2>9, PrecedesIn
    <3> QED BY <2>4, <3>1, <3>2
  <2>10. ASSUME NEW a, NEW b, Precedes(a, b, q), a # o, b # o PROVE Precedes(a, b, r)
    <3>1. PICK i \in 1..Len(q), j \in 1..Len(q) : i < j /\ q[i] = a /\ q[j] = b
      BY <2>10 DEF Precedes
    <3>2. i # m /\ j # m
      BY <2>1, <2>10, <3>1
    <3>3. to(i) \in 1..Len(r) /\ to(j) \in 1..Len(r) /\ to(i) < to(j) /\ r[to(i)] = a /\ r[to(j)] = b
      BY <2>7, <2>8, <3>1, <3>2
    <3> QED BY <3>3 DEF Precedes
  <2> QED BY <2>1, <2>4, <2>9, <2>10 DEF r
<1> QED BY <1>1, <1>2

\* A queue is as long as it has orders.
LEMMA UniqueLength ==
  ASSUME NEW S, NEW q \in Seq(S), Unique(q)
  PROVE  Cardinality(Elems(q)) = Len(q)
<1>1. Len(q) \in Nat
  OBVIOUS
<1>2. IsFiniteSet(1..Len(q)) /\ Cardinality(1..Len(q)) = Len(q)
  BY <1>1, FS_Interval
<1> DEFINE f == [i \in 1..Len(q) |-> q[i]]
<1>3. f \in Bijection(1..Len(q), Elems(q))
  BY DEF Bijection, Injection, Surjection, IsInjective, Elems, Unique
<1>4. ExistsBijection(1..Len(q), Elems(q))
  BY <1>3 DEF ExistsBijection
<1> QED BY <1>2, <1>4, FS_Bijection

\* A growing map of 1..n to itself leaves every place where it is.
LEMMA GrowingMap ==
  ASSUME NEW n \in Nat, NEW f, \A i \in 1..n : f[i] \in Nat /\ f[i] >= 1,
         \A i, j \in 1..n : i < j => f[i] < f[j]
  PROVE  \A i \in 1..n : f[i] >= i
<1> DEFINE G == {k \in Nat : k \in 1..n => f[k] >= k}
<1>1. 0 \in G
  OBVIOUS
<1>2. ASSUME NEW k \in Nat, k \in G PROVE k + 1 \in G
  <2> SUFFICES ASSUME k + 1 \in 1..n PROVE f[k + 1] >= k + 1
    OBVIOUS
  <2>1. CASE k = 0
    BY <2>1
  <2>2. CASE k # 0
    <3>1. k \in 1..n /\ k < k + 1
      BY <2>2
    <3>2. f[k] >= k /\ f[k] < f[k + 1] /\ f[k] \in Nat /\ f[k + 1] \in Nat
      BY <1>2, <3>1
    <3> QED BY <3>2
  <2> QED BY <2>1, <2>2
<1> HIDE DEF G
<1>3. \A k \in Nat : k \in G
  BY <1>1, <1>2, NatSetInduction
<1> QED BY <1>3 DEF G

\* Sequences of the same elements in the same order are the same.
LEMMA SameOrder ==
  ASSUME NEW S, NEW q \in Seq(S), NEW r \in Seq(S), Unique(q), Unique(r), Elems(q) = Elems(r),
         \A a, b : Precedes(a, b, q) => Precedes(a, b, r)
  PROVE  q = r
<1>1. Len(q) \in Nat /\ Len(r) \in Nat
  OBVIOUS
<1>2. Len(q) = Len(r)
  <2>1. Cardinality(Elems(q)) = Len(q) /\ Cardinality(Elems(r)) = Len(r)
    BY UniqueLength
  <2> QED BY <2>1
<1> DEFINE n == Len(q)
           f == [i \in 1..n |-> CHOOSE j \in 1..n : r[j] = q[i]]
           g == [i \in 1..n |-> CHOOSE j \in 1..n : q[j] = r[i]]
<1>3. \A i \in 1..n : f[i] \in 1..n /\ r[f[i]] = q[i]
  <2>1. \A i \in 1..n : \E j \in 1..n : r[j] = q[i]
    BY <1>2 DEF Elems
  <2> QED BY <2>1
<1>4. \A i \in 1..n : g[i] \in 1..n /\ q[g[i]] = r[i]
  <2>1. \A i \in 1..n : \E j \in 1..n : q[j] = r[i]
    BY <1>2 DEF Elems
  <2> QED BY <2>1
<1> HIDE DEF n, f, g
<1>5. \A i \in 1..n : g[f[i]] = i /\ f[g[i]] = i
  <2> SUFFICES ASSUME NEW i \in 1..n PROVE g[f[i]] = i /\ f[g[i]] = i
    OBVIOUS
  <2>1. f[i] \in 1..n /\ g[i] \in 1..n /\ r[f[i]] = q[i] /\ q[g[i]] = r[i]
    BY <1>3, <1>4
  <2>2. g[f[i]] \in 1..n /\ q[g[f[i]]] = q[i]
    BY <1>4, <2>1
  <2>3. f[g[i]] \in 1..n /\ r[f[g[i]]] = r[i]
    BY <1>3, <2>1
  <2>4. g[f[i]] = i
    BY <2>2 DEF Unique, n
  <2>5. f[g[i]] = i
    BY <1>2, <2>3 DEF Unique, n
  <2> QED BY <2>4, <2>5
<1>6. \A i, j \in 1..n : i < j => f[i] < f[j]
  <2> SUFFICES ASSUME NEW i \in 1..n, NEW j \in 1..n, i < j PROVE f[i] < f[j]
    OBVIOUS
  <2>1. Precedes(q[i], q[j], q)
    BY DEF Precedes, n
  <2>2. Precedes(q[i], q[j], r)
    BY <2>1
  <2>3. PICK k \in 1..n, l \in 1..n : k < l /\ r[k] = q[i] /\ r[l] = q[j]
    BY <1>2, <2>2 DEF Precedes, n
  <2>4. k = f[i] /\ l = f[j]
    BY <1>2, <1>3, <2>3 DEF Unique, n
  <2> QED BY <2>3, <2>4
<1>7. \A i, j \in 1..n : i < j => g[i] < g[j]
  <2> SUFFICES ASSUME NEW i \in 1..n, NEW j \in 1..n, i < j, ~(g[i] < g[j]) PROVE FALSE
    OBVIOUS
  <2>1. g[i] \in 1..n /\ g[j] \in 1..n /\ f[g[i]] = i /\ f[g[j]] = j
    BY <1>4, <1>5
  <2>2. g[i] # g[j]
    BY <1>1, <2>1 DEF n
  <2>3. g[j] < g[i]
    BY <1>1, <2>1, <2>2 DEF n
  <2>4. f[g[j]] < f[g[i]]
    BY <1>6, <2>1, <2>3
  <2> QED BY <1>1, <2>1, <2>4 DEF n
<1>8. n \in Nat
  BY <1>1 DEF n
<1>9. \A i \in 1..n : f[i] >= i /\ g[i] >= i
  <2>1. \A i \in 1..n : f[i] \in Nat /\ f[i] >= 1 /\ g[i] \in Nat /\ g[i] >= 1
    BY <1>3, <1>4, <1>8
  <2>2. \A i \in 1..n : f[i] >= i
    BY <1>6, <1>8, <2>1, GrowingMap
  <2>3. \A i \in 1..n : g[i] >= i
    BY <1>7, <1>8, <2>1, GrowingMap
  <2> QED BY <2>2, <2>3
<1>10. \A i \in 1..n : f[i] = i
  <2> SUFFICES ASSUME NEW i \in 1..n PROVE f[i] = i
    OBVIOUS
  <2>1. f[i] \in 1..n /\ f[i] >= i /\ g[f[i]] >= f[i] /\ g[f[i]] = i
    BY <1>3, <1>5, <1>9
  <2> QED BY <1>8, <2>1
<1>11. \A i \in 1..n : q[i] = r[i]
  BY <1>3, <1>10
<1>12. q = [i \in 1..n |-> q[i]] /\ r = [i \in 1..n |-> r[i]]
  BY <1>2 DEF n
<1> QED BY <1>11, <1>12

-----------------------------------------------------------------------------
(***************************************************************************)
(* A consistent book b for orders nd with the remaining quantities rm.     *)
(***************************************************************************)
Levels == [orders : Seq(Orders), total : Int]
Books  == [levels : [Sides -> [Prices -> Levels]], sortedPrices : [Sides -> Seq(Prices)],
           index : SUBSET Orders]

Belong(X, nd, s, p) == {o \in X : nd[o].side = s /\ nd[o].price = p}

LevelOK(l, Q, rm) == Elems(l.orders) = Q /\ Unique(l.orders) /\ l.total = Total(rm, Q)

SideOK(s, ps, ls) == Ordered(s, ps) /\ Elems(ps) = {p \in Prices : ls[p].orders # <<>>}

Resting(X, nd, rm) == \A o \in X : nd[o] \in Specs /\ rm[o] \in Nat \ {0}

BookOK(b, nd, rm) ==
  /\ b \in Books /\ Resting(b.index, nd, rm)
  /\ \A s \in Sides : /\ SideOK(s, b.sortedPrices[s], b.levels[s])
                       /\ \A p \in Prices : LevelOK(b.levels[s][p], Belong(b.index, nd, s, p), rm)

LEMMA ElemsFinite ==
  ASSUME NEW S, NEW q \in Seq(S)
  PROVE  IsFiniteSet(Elems(q)) /\ Elems(q) \subseteq S
<1>1. Len(q) \in Nat /\ Elems(q) \subseteq S
  BY DEF Elems
<1>2. IsFiniteSet(1..Len(q))
  BY <1>1, FS_Interval
<1> DEFINE f == [i \in 1..Len(q) |-> q[i]]
<1>3. f \in Surjection(1..Len(q), Elems(q))
  BY DEF Surjection, Elems
<1> QED BY <1>1, <1>2, <1>3, FS_Surjection

LEMMA AppendElems ==
  ASSUME NEW S, NEW q \in Seq(S), NEW o \in S
  PROVE  /\ Append(q, o) \in Seq(S) /\ Append(q, o) # <<>>
         /\ Elems(Append(q, o)) = Elems(q) \cup {o}
         /\ Unique(q) /\ o \notin Elems(q) => Unique(Append(q, o))
<1> DEFINE r == Append(q, o)
<1>1. /\ Len(q) \in Nat /\ r \in Seq(S) /\ Len(r) = Len(q) + 1
      /\ \A i \in 1..Len(q) : r[i] = q[i]
      /\ r[Len(q) + 1] = o
  OBVIOUS
<1>2. r # <<>>
  BY <1>1
<1> HIDE DEF r
<1>3. \A i \in 1..Len(r) : i \in 1..Len(q) \/ i = Len(q) + 1
  BY <1>1
<1>4. \A i \in 1..Len(q) : i \in 1..Len(r)
  BY <1>1
<1>5. Len(q) + 1 \in 1..Len(r)
  BY <1>1
<1>6. Elems(r) = Elems(q) \cup {o}
  <2>1. Elems(r) \subseteq Elems(q) \cup {o}
    BY <1>1, <1>3 DEF Elems
  <2>2. Elems(q) \subseteq Elems(r)
    <3> SUFFICES ASSUME NEW i \in 1..Len(q) PROVE q[i] \in Elems(r)
      BY DEF Elems
    <3>1. r[i] = q[i] /\ i \in 1..Len(r)
      BY <1>1, <1>4
    <3> QED BY <3>1 DEF Elems
  <2>3. o \in Elems(r)
    BY <1>1, <1>5 DEF Elems
  <2> QED BY <2>1, <2>2, <2>3
<1>7. ASSUME Unique(q), o \notin Elems(q) PROVE Unique(r)
  BY <1>1, <1>3, <1>7 DEF Unique, Elems
<1> QED BY <1>1, <1>2, <1>6, <1>7 DEF r

\* A level is empty when and only when nothing is in its queue.
LEMMA NoLevelIs ==
  ASSUME NEW l \in Levels, NEW Q, NEW rm, LevelOK(l, Q, rm)
  PROVE  l = NoLevel <=> l.orders = <<>>
<1>1. CASE l.orders = <<>>
  <2>1. Q = {}
    BY <1>1, NoElems DEF LevelOK, Levels
  <2>2. l.total = 0
    BY <2>1, TotalEmpty DEF LevelOK
  <2> QED BY <1>1, <2>2 DEF NoLevel, Levels
<1>2. CASE l.orders # <<>>
  BY <1>2 DEF NoLevel
<1> QED BY <1>1, <1>2

\* Insert keeps a book consistent.
LEMMA InsertedOK ==
  ASSUME NEW b, BookOK(b, node, remaining), NEW o \in Orders, o \notin b.index,
         node[o] \in Specs, remaining[o] \in Nat \ {0}
  PROVE  BookOK(Inserted(b, o), node, remaining) /\ Inserted(b, o).index = b.index \cup {o}
<1> DEFINE s == Side(o)
           p == Price(o)
           l == b.levels[s][p]
           m == Queued(l, o, remaining[o])
           c == Inserted(b, o)
           X == b.index
           Y == b.index \cup {o}
<1>1. s \in Sides /\ p \in Prices /\ node[o].side = s /\ node[o].price = p
  BY SpecsAssumption DEF Side, Price, Prices, Sides
<1>2. /\ b.levels \in [Sides -> [Prices -> Levels]] /\ b.sortedPrices \in [Sides -> Seq(Prices)]
      /\ X \subseteq Orders /\ Resting(X, node, remaining)
  BY DEF BookOK, Books
<1>3. /\ c.index = Y
      /\ c.levels = [b.levels EXCEPT ![s] = [b.levels[s] EXCEPT ![p] = m]]
      /\ c.sortedPrices = IF l = NoLevel
                          THEN [b.sortedPrices EXCEPT ![s] = WithPrice(s, b.sortedPrices[s], p)]
                          ELSE b.sortedPrices
      /\ c = [levels |-> c.levels, sortedPrices |-> c.sortedPrices, index |-> c.index]
  BY DEF Inserted
<1> HIDE DEF c
<1>4. l \in Levels /\ LevelOK(l, Belong(X, node, s, p), remaining)
  BY <1>1, <1>2 DEF BookOK
<1>5. /\ l.orders \in Seq(Orders) /\ Elems(l.orders) = Belong(X, node, s, p) /\ l.total \in Int
      /\ Unique(l.orders) /\ l.total = Total(remaining, Belong(X, node, s, p))
  BY <1>4 DEF Levels, LevelOK
<1>6. m = [orders |-> Append(l.orders, o), total |-> l.total + remaining[o]]
  BY DEF Queued
<1> HIDE DEF l, m, s, p
<1>7. o \notin Elems(l.orders)
  BY <1>5 DEF Belong
<1>8. /\ m.orders \in Seq(Orders) /\ m.orders # <<>> /\ Unique(m.orders)
      /\ Elems(m.orders) = Elems(l.orders) \cup {o}
  BY <1>5, <1>6, <1>7, AppendElems
<1>9. m.total = l.total + remaining[o] /\ m \in Levels
  BY <1>5, <1>6, <1>8 DEF Levels
<1>10. Belong(Y, node, s, p) = Belong(X, node, s, p) \cup {o}
  BY <1>1 DEF Belong
<1>11. LevelOK(m, Belong(Y, node, s, p), remaining)
  <2> DEFINE Q == Belong(X, node, s, p)
  <2>1. IsFiniteSet(Q)
    BY <1>5, ElemsFinite
  <2>2. \A y \in Q \cup {o} : remaining[y] \in Int
    BY <1>2 DEF Resting, Belong
  <2>3. o \notin Q
    BY <1>5, <1>7
  <2> HIDE DEF Q
  <2>4. Total(remaining, Q \cup {o}) = Total(remaining, Q) + remaining[o]
    BY <2>1, <2>2, <2>3, TotalAdd
  <2> QED BY <1>5, <1>8, <1>9, <1>10, <2>4 DEF LevelOK, Q
<1>12. \A s2 \in Sides, p2 \in Prices :
         c.levels[s2][p2] = IF s2 = s /\ p2 = p THEN m ELSE b.levels[s2][p2]
  BY <1>1, <1>2, <1>3
<1>13. c.levels \in [Sides -> [Prices -> Levels]]
  BY <1>1, <1>2, <1>3, <1>9
<1>14. ASSUME NEW s2 \in Sides, NEW p2 \in Prices
       PROVE  LevelOK(c.levels[s2][p2], Belong(Y, node, s2, p2), remaining)
  <2>1. CASE s2 = s /\ p2 = p
    BY <1>11, <1>12, <2>1
  <2>2. CASE ~(s2 = s /\ p2 = p)
    <3>1. Belong(Y, node, s2, p2) = Belong(X, node, s2, p2)
      BY <1>1, <2>2 DEF Belong
    <3>2. LevelOK(b.levels[s2][p2], Belong(X, node, s2, p2), remaining)
      BY DEF BookOK
    <3> QED BY <1>12, <2>2, <3>1, <3>2
  <2> QED BY <2>1, <2>2
<1>15. Resting(Y, node, remaining)
  BY <1>2 DEF Resting
<1>16. SideOK(s, b.sortedPrices[s], b.levels[s]) /\ b.sortedPrices[s] \in Seq(Prices)
  BY <1>1, <1>2 DEF BookOK
<1>17. l = NoLevel <=> p \notin Elems(b.sortedPrices[s])
  <2>1. l = NoLevel <=> l.orders = <<>>
    BY <1>4, NoLevelIs
  <2> QED BY <1>1, <1>16, <2>1 DEF SideOK, l
<1>18. /\ c.sortedPrices \in [Sides -> Seq(Prices)]
       /\ Ordered(s, c.sortedPrices[s]) /\ Elems(c.sortedPrices[s]) = Elems(b.sortedPrices[s]) \cup {p}
       /\ \A s2 \in Sides : s2 # s => c.sortedPrices[s2] = b.sortedPrices[s2]
  <2>1. CASE l = NoLevel
    <3> DEFINE w == WithPrice(s, b.sortedPrices[s], p)
    <3>1. w \in Seq(Prices) /\ Ordered(s, w) /\ Elems(w) = Elems(b.sortedPrices[s]) \cup {p}
      BY <1>1, <1>16, <1>17, <2>1, WithPriceIs DEF SideOK
    <3>2. c.sortedPrices = [b.sortedPrices EXCEPT ![s] = w]
      BY <1>3, <2>1
    <3> HIDE DEF w
    <3> QED BY <1>1, <1>2, <3>1, <3>2
  <2>2. CASE l # NoLevel
    <3>1. c.sortedPrices = b.sortedPrices
      BY <1>3, <2>2
    <3>2. Elems(b.sortedPrices[s]) \cup {p} = Elems(b.sortedPrices[s])
      BY <1>17, <2>2
    <3> QED BY <1>2, <1>16, <3>1, <3>2 DEF SideOK
  <2> QED BY <2>1, <2>2
<1>19. ASSUME NEW s2 \in Sides PROVE SideOK(s2, c.sortedPrices[s2], c.levels[s2])
  <2>1. CASE s2 = s
    <3>1. \A p2 \in Prices : c.levels[s][p2].orders # <<>> <=> p2 = p \/ b.levels[s][p2].orders # <<>>
      BY <1>1, <1>8, <1>12
    <3>2. Elems(b.sortedPrices[s]) = {p2 \in Prices : b.levels[s][p2].orders # <<>>}
      BY <1>16 DEF SideOK
    <3> QED BY <1>1, <1>18, <2>1, <3>1, <3>2 DEF SideOK
  <2>2. CASE s2 # s
    <3>1. \A p2 \in Prices : c.levels[s2][p2] = b.levels[s2][p2]
      BY <1>12, <2>2
    <3>2. SideOK(s2, b.sortedPrices[s2], b.levels[s2])
      BY DEF BookOK
    <3> QED BY <1>18, <2>2, <3>1, <3>2 DEF SideOK
  <2> QED BY <2>1, <2>2
<1>20. c \in Books
  BY <1>2, <1>3, <1>13, <1>18 DEF Books
<1>21. BookOK(c, node, remaining)
  BY <1>3, <1>14, <1>15, <1>19, <1>20 DEF BookOK
<1> QED BY <1>3, <1>21 DEF c

\* An order goes behind the others of its level.
LEMMA InsertedOrder ==
  ASSUME NEW b, BookOK(b, node, remaining), NEW o \in Orders, node[o] \in Specs,
         NEW s \in Sides, NEW p \in Prices, NEW a, NEW c,
         Precedes(a, c, Inserted(b, o).levels[s][p].orders)
  PROVE  Precedes(a, c, b.levels[s][p].orders) \/ (c = o /\ a \in b.index)
<1> DEFINE l == b.levels[s][p]
           m == Inserted(b, o).levels[s][p]
<1>1. Side(o) \in Sides /\ Price(o) \in Prices
  BY SpecsAssumption DEF Side, Price, Prices, Sides
<1>2. b.levels \in [Sides -> [Prices -> Levels]]
  BY DEF BookOK, Books
<1>3. Inserted(b, o).levels = [b.levels EXCEPT ![Side(o)][Price(o)] = Queued(@, o, remaining[o])]
  BY DEF Inserted
<1>4. l \in Levels /\ Elems(l.orders) \subseteq b.index
  <2>1. LevelOK(l, Belong(b.index, node, s, p), remaining)
    BY DEF BookOK
  <2> QED BY <1>2, <2>1 DEF LevelOK, Belong
<1>5. m = l \/ m = Queued(l, o, remaining[o])
  BY <1>1, <1>2, <1>3
<1>6. CASE m = l
  BY <1>6
<1>7. CASE m = Queued(l, o, remaining[o])
  <2>0. l.orders \in Seq(Orders)
    BY <1>4 DEF Levels
  <2> HIDE DEF l, m
  <2>1. m.orders = Append(l.orders, o)
    BY <1>7 DEF Queued
  <2>2. Precedes(a, c, Append(l.orders, o))
    BY <2>1 DEF m
  <2>3. Precedes(a, c, l.orders) \/ (c = o /\ a \in Elems(l.orders))
    BY <2>0, <2>2, AppendOrder
  <2> QED BY <1>4, <2>3 DEF l
<1> QED BY <1>5, <1>6, <1>7

\* A level whose orders' quantities stay is as consistent as before.
LEMMA SameLevel ==
  ASSUME NEW l \in Levels, NEW Q, NEW rm, NEW rn, LevelOK(l, Q, rm), \A x \in Q : rn[x] = rm[x]
  PROVE  LevelOK(l, Q, rn)
<1>1. IsFiniteSet(Q)
  BY ElemsFinite DEF LevelOK, Levels
<1>2. Total(rn, Q) = Total(rm, Q)
  BY <1>1, TotalAgree
<1> QED BY <1>2 DEF LevelOK

\* A resting order is in the queue of its level.
LEMMA InItsLevel ==
  ASSUME NEW b, NEW nd, NEW rm, BookOK(b, nd, rm), NEW o \in b.index
  PROVE  /\ nd[o].side \in Sides /\ nd[o].price \in Prices
         /\ o \in Belong(b.index, nd, nd[o].side, nd[o].price)
         /\ b.levels[nd[o].side][nd[o].price] \in Levels
         /\ LevelOK(b.levels[nd[o].side][nd[o].price], Belong(b.index, nd, nd[o].side, nd[o].price), rm)
<1>1. nd[o] \in Specs
  BY DEF BookOK, Resting
<1>2. nd[o].side \in Sides /\ nd[o].price \in Prices
  BY <1>1, SpecsAssumption DEF Prices, Sides
<1>3. b.levels \in [Sides -> [Prices -> Levels]]
  BY DEF BookOK, Books
<1> QED BY <1>2, <1>3 DEF BookOK, Belong

\* So do Cancel and FullFill, whatever becomes of the quantity of the order that left.
LEMMA RemovedOK ==
  ASSUME BookOK(Current, node, remaining), NEW o \in index, RemoveOrder(o),
         NEW rm, \A x \in index \ {o} : rm[x] = remaining[x]
  PROVE  BookOK(Current', node, rm) /\ index' = index \ {o}
<1> DEFINE s == Side(o)
           p == Price(o)
           l == levels[s][p]
           rest == RemoveFirst(l.orders, o)
           m == IF rest = <<>> THEN NoLevel ELSE [orders |-> rest, total |-> l.total - remaining[o]]
           ps == sortedPrices[s]
           X == index
           Y == index \ {o}
<1>0. node[o].side = s /\ node[o].price = p
  BY DEF Side, Price
<1>1. /\ levels \in [Sides -> [Prices -> Levels]] /\ sortedPrices \in [Sides -> Seq(Prices)]
      /\ X \subseteq Orders /\ Resting(X, node, remaining)
      /\ \A s2 \in Sides : /\ SideOK(s2, sortedPrices[s2], levels[s2])
                           /\ \A p2 \in Prices : LevelOK(levels[s2][p2], Belong(X, node, s2, p2), remaining)
  BY DEF BookOK, Books, Current
<1>2. /\ s \in Sides /\ p \in Prices /\ l \in Levels
      /\ o \in Belong(X, node, s, p) /\ LevelOK(l, Belong(X, node, s, p), remaining)
  BY <1>0, InItsLevel DEF Current
<1>3. /\ levels' = [levels EXCEPT ![s] = [levels[s] EXCEPT ![p] = m]]
      /\ sortedPrices' = IF rest = <<>> THEN [sortedPrices EXCEPT ![s] = WithoutPrice(s, ps, p)]
                         ELSE sortedPrices
      /\ index' = Y
  BY DEF RemoveOrder
<1>4. /\ l.orders \in Seq(Orders) /\ Elems(l.orders) = Belong(X, node, s, p) /\ l.total \in Int
      /\ Unique(l.orders) /\ l.total = Total(remaining, Belong(X, node, s, p))
  BY <1>2 DEF Levels, LevelOK
<1> HIDE DEF s, p, l, ps
<1>5. /\ rest \in Seq(Orders) /\ Elems(rest) = Belong(X, node, s, p) \ {o} /\ Unique(rest)
      /\ rest = <<>> <=> Belong(X, node, s, p) = {o}
  BY <1>2, <1>4, RemoveFirstIs
<1> HIDE DEF rest
<1>6. Belong(Y, node, s, p) = Belong(X, node, s, p) \ {o}
  BY DEF Belong
<1>7. m \in Levels /\ (m.orders # <<>> <=> rest # <<>>)
  <2>1. remaining[o] \in Int
    BY <1>1 DEF Resting
  <2>2. CASE rest = <<>>
    <3>1. <<>> \in Seq(Orders)
      OBVIOUS
    <3> QED BY <2>2, <3>1 DEF NoLevel, Levels
  <2>3. CASE rest # <<>>
    BY <1>4, <1>5, <2>1, <2>3 DEF Levels
  <2> QED BY <2>2, <2>3
<1>8. LevelOK(m, Belong(Y, node, s, p), rm)
  <2> DEFINE Q == Belong(X, node, s, p)
  <2>1. IsFiniteSet(Q) /\ IsFiniteSet(Q \ {o})
    <3>1. IsFiniteSet(Q)
      BY <1>4, ElemsFinite
    <3> QED BY <3>1, FS_RemoveElement
  <2>2. \A y \in Q : remaining[y] \in Int
    BY <1>1 DEF Resting, Belong
  <2>3. \A y \in Q \ {o} : rm[y] = remaining[y]
    BY DEF Belong
  <2>4. o \in Q
    BY <1>2
  <2>5. CASE rest = <<>>
    <3>1. Belong(Y, node, s, p) = {}
      BY <1>5, <1>6, <2>5
    <3>2. m.orders = <<>> /\ m.total = 0
      BY <2>5 DEF NoLevel
    <3>3. Elems(m.orders) = {} /\ Unique(m.orders)
      BY <3>2 DEF Elems, Unique
    <3> QED BY <3>1, <3>2, <3>3, TotalEmpty DEF LevelOK
  <2>6. CASE rest # <<>>
    <3>1. m.orders = rest /\ m.total = l.total - remaining[o]
      BY <2>6
    <3> HIDE DEF Q
    <3>2. Total(remaining, Q) = Total(remaining, Q \ {o}) + remaining[o]
      BY <2>1, <2>2, <2>4, TotalRemove
    <3>3. Total(rm, Q \ {o}) = Total(remaining, Q \ {o})
      BY <2>1, <2>3, TotalAgree
    <3>4. Total(remaining, Q \ {o}) \in Int /\ remaining[o] \in Int
      BY <2>1, <2>2, <2>4, TotalInt
    <3>5. m.total = Total(rm, Q \ {o})
      BY <1>4, <3>1, <3>2, <3>3, <3>4 DEF Q
    <3> QED BY <1>5, <1>6, <3>1, <3>5 DEF LevelOK, Q
  <2> QED BY <2>5, <2>6
<1> HIDE DEF m
<1>9. \A s2 \in Sides, p2 \in Prices :
        levels'[s2][p2] = IF s2 = s /\ p2 = p THEN m ELSE levels[s2][p2]
  BY <1>1, <1>2, <1>3
<1>10. levels' \in [Sides -> [Prices -> Levels]]
  BY <1>1, <1>2, <1>3, <1>7
<1>11. ASSUME NEW s2 \in Sides, NEW p2 \in Prices
       PROVE  LevelOK(levels'[s2][p2], Belong(Y, node, s2, p2), rm)
  <2>1. CASE s2 = s /\ p2 = p
    BY <1>8, <1>9, <2>1
  <2>2. CASE ~(s2 = s /\ p2 = p)
    <3>1. Belong(Y, node, s2, p2) = Belong(X, node, s2, p2) /\ o \notin Belong(X, node, s2, p2)
      BY <1>0, <2>2 DEF Belong
    <3>2. \A x \in Belong(X, node, s2, p2) : rm[x] = remaining[x]
      BY <3>1 DEF Belong
    <3>3. levels[s2][p2] \in Levels /\ LevelOK(levels[s2][p2], Belong(X, node, s2, p2), remaining)
      BY <1>1
    <3>4. LevelOK(levels[s2][p2], Belong(X, node, s2, p2), rm)
      BY <3>2, <3>3, SameLevel
    <3> QED BY <1>9, <2>2, <3>1, <3>4
  <2> QED BY <2>1, <2>2
<1>12. Resting(Y, node, rm)
  BY <1>1 DEF Resting
<1>13. SideOK(s, ps, levels[s]) /\ ps \in Seq(Prices)
  BY <1>1, <1>2 DEF ps
<1>14. p \in Elems(ps)
  <2>1. l.orders # <<>>
    BY <1>2, <1>4, NoElems
  <2> QED BY <1>2, <1>13, <2>1 DEF SideOK, l
<1>15. /\ sortedPrices' \in [Sides -> Seq(Prices)]
       /\ Ordered(s, sortedPrices'[s])
       /\ Elems(sortedPrices'[s]) = IF rest = <<>> THEN Elems(ps) \ {p} ELSE Elems(ps)
       /\ \A s2 \in Sides : s2 # s => sortedPrices'[s2] = sortedPrices[s2]
  <2>1. CASE rest = <<>>
    <3> DEFINE w == WithoutPrice(s, ps, p)
    <3>1. w \in Seq(Prices) /\ Ordered(s, w) /\ Elems(w) = Elems(ps) \ {p}
      BY <1>2, <1>13, <1>14, WithoutPriceIs DEF SideOK
    <3>2. sortedPrices' = [sortedPrices EXCEPT ![s] = w]
      BY <1>3, <2>1
    <3> HIDE DEF w
    <3> QED BY <1>1, <1>2, <2>1, <3>1, <3>2
  <2>2. CASE rest # <<>>
    <3>1. sortedPrices' = sortedPrices
      BY <1>3, <2>2
    <3> QED BY <1>1, <1>13, <2>2, <3>1 DEF SideOK, ps
  <2> QED BY <2>1, <2>2
<1>16. ASSUME NEW s2 \in Sides PROVE SideOK(s2, sortedPrices'[s2], levels'[s2])
  <2>1. CASE s2 = s
    <3>1. \A p2 \in Prices :
            levels'[s][p2].orders # <<>> <=> IF p2 = p THEN rest # <<>> ELSE levels[s][p2].orders # <<>>
      BY <1>2, <1>7, <1>9
    <3>2. Elems(ps) = {p2 \in Prices : levels[s][p2].orders # <<>>}
      BY <1>13 DEF SideOK
    <3> QED BY <1>2, <1>14, <1>15, <2>1, <3>1, <3>2 DEF SideOK
  <2>2. CASE s2 # s
    <3>1. \A p2 \in Prices : levels'[s2][p2] = levels[s2][p2]
      BY <1>9, <2>2
    <3>2. SideOK(s2, sortedPrices[s2], levels[s2])
      BY <1>1
    <3> QED BY <1>15, <2>2, <3>1, <3>2 DEF SideOK
  <2> QED BY <2>1, <2>2
<1>17. Current' \in Books
  BY <1>1, <1>3, <1>10, <1>15 DEF Books, Current
<1>18. BookOK(Current', node, rm)
  <2> DEFINE c == Current'
  <2>1. c.levels = levels' /\ c.sortedPrices = sortedPrices' /\ c.index = Y
    BY <1>3 DEF Current
  <2> HIDE DEF c
  <2>2. c \in Books
    BY <1>17 DEF c
  <2>3. BookOK(c, node, rm)
    BY <1>11, <1>12, <1>16, <2>1, <2>2 DEF BookOK
  <2> QED BY <2>3 DEF c
<1> QED BY <1>3, <1>18

\* So does PartialFill, as the order it reduces keeps a rest.
LEMMA ReducedOK ==
  ASSUME BookOK(Current, node, remaining), NEW o \in index, NEW qty \in Nat, ReduceOrder(o, qty),
         NEW rm, rm[o] = remaining[o] - qty, rm[o] > 0, \A x \in index \ {o} : rm[x] = remaining[x]
  PROVE  BookOK(Current', node, rm) /\ index' = index
<1> DEFINE s == Side(o)
           p == Price(o)
           l == levels[s][p]
           m == [l EXCEPT !.total = l.total - qty]
           X == index
<1>0. node[o].side = s /\ node[o].price = p
  BY DEF Side, Price
<1>1. /\ levels \in [Sides -> [Prices -> Levels]] /\ sortedPrices \in [Sides -> Seq(Prices)]
      /\ X \subseteq Orders /\ Resting(X, node, remaining)
      /\ \A s2 \in Sides : /\ SideOK(s2, sortedPrices[s2], levels[s2])
                           /\ \A p2 \in Prices : LevelOK(levels[s2][p2], Belong(X, node, s2, p2), remaining)
  BY DEF BookOK, Books, Current
<1>2. /\ s \in Sides /\ p \in Prices /\ l \in Levels
      /\ o \in Belong(X, node, s, p) /\ LevelOK(l, Belong(X, node, s, p), remaining)
  BY <1>0, InItsLevel DEF Current
<1>3. /\ levels' = [levels EXCEPT ![s] = [levels[s] EXCEPT ![p] = m]]
      /\ sortedPrices' = sortedPrices /\ index' = X
  BY DEF ReduceOrder
<1>4. /\ l.orders \in Seq(Orders) /\ Elems(l.orders) = Belong(X, node, s, p) /\ l.total \in Int
      /\ Unique(l.orders) /\ l.total = Total(remaining, Belong(X, node, s, p))
  BY <1>2 DEF Levels, LevelOK
<1>5. m \in Levels /\ m.orders = l.orders /\ m.total = l.total - qty
  BY <1>2, <1>4 DEF Levels
<1> HIDE DEF s, p, l, m
<1>6. Resting(X, node, rm)
  BY <1>1 DEF Resting
<1>7. LevelOK(m, Belong(X, node, s, p), rm)
  <2> DEFINE Q == Belong(X, node, s, p)
  <2>1. IsFiniteSet(Q)
    BY <1>4, ElemsFinite
  <2>2. \A y \in Q : remaining[y] \in Int /\ rm[y] \in Int
    BY <1>1, <1>6 DEF Resting, Belong
  <2>3. \A y \in Q \ {o} : remaining[y] = rm[y]
    BY DEF Belong
  <2>4. o \in Q
    BY <1>2
  <2> HIDE DEF Q
  <2>5. Total(rm, Q) = Total(remaining, Q) + (rm[o] - remaining[o])
    <3>1. \A S, f, g : \A x \in S : IsFiniteSet(S) /\ (\A y \in S : f[y] \in Int /\ g[y] \in Int)
            /\ (\A y \in S \ {x} : f[y] = g[y]) => Total(g, S) = Total(f, S) + (g[x] - f[x])
      BY TotalChange
    <3> QED BY <2>1, <2>2, <2>3, <2>4, <3>1
  <2>6. Total(remaining, Q) \in Int
    BY <2>1, <2>2, TotalInt
  <2>7. m.total = Total(rm, Q)
    BY <1>4, <1>5, <2>2, <2>4, <2>5, <2>6 DEF Q
  <2> QED BY <1>4, <1>5, <2>7 DEF LevelOK, Q
<1>8. \A s2 \in Sides, p2 \in Prices :
        levels'[s2][p2] = IF s2 = s /\ p2 = p THEN m ELSE levels[s2][p2]
  BY <1>1, <1>2, <1>3
<1>9. levels' \in [Sides -> [Prices -> Levels]]
  BY <1>1, <1>2, <1>3, <1>5
<1>10. ASSUME NEW s2 \in Sides, NEW p2 \in Prices
       PROVE  LevelOK(levels'[s2][p2], Belong(X, node, s2, p2), rm)
  <2>1. CASE s2 = s /\ p2 = p
    BY <1>7, <1>8, <2>1
  <2>2. CASE ~(s2 = s /\ p2 = p)
    <3>1. \A x \in Belong(X, node, s2, p2) : rm[x] = remaining[x]
      BY <1>0, <2>2 DEF Belong
    <3>2. levels[s2][p2] \in Levels /\ LevelOK(levels[s2][p2], Belong(X, node, s2, p2), remaining)
      BY <1>1
    <3>3. LevelOK(levels[s2][p2], Belong(X, node, s2, p2), rm)
      BY <3>1, <3>2, SameLevel
    <3> QED BY <1>8, <2>2, <3>3
  <2> QED BY <2>1, <2>2
<1>11. ASSUME NEW s2 \in Sides PROVE SideOK(s2, sortedPrices'[s2], levels'[s2])
  <2>1. \A p2 \in Prices : levels'[s2][p2].orders = levels[s2][p2].orders
    BY <1>2, <1>5, <1>8 DEF l
  <2>2. SideOK(s2, sortedPrices[s2], levels[s2])
    BY <1>1
  <2> QED BY <1>3, <2>1, <2>2 DEF SideOK
<1>12. Current' \in Books
  BY <1>1, <1>3, <1>9 DEF Books, Current
<1>13. BookOK(Current', node, rm)
  <2> DEFINE c == Current'
  <2>1. c.levels = levels' /\ c.sortedPrices = sortedPrices' /\ c.index = X
    BY <1>3 DEF Current
  <2> HIDE DEF c
  <2>2. c \in Books
    BY <1>12 DEF c
  <2>3. BookOK(c, node, rm)
    BY <1>6, <1>10, <1>11, <2>1, <2>2 DEF BookOK
  <2> QED BY <2>3 DEF c
<1> QED BY <1>3, <1>13

-----------------------------------------------------------------------------
(***************************************************************************)
(* A restart: the list of a snapshot, and the book that is made of it.     *)
(***************************************************************************)
LEMMA EmptyOK == ASSUME NEW nd, NEW rm PROVE BookOK(EmptyBook, nd, rm) /\ EmptyBook.index = {}
<1>0. <<>> \in Seq(Orders) /\ <<>> \in Seq(Prices) /\ Elems(<<>>) = {} /\ Unique(<<>>)
  <2>1. <<>> \in Seq(Orders)
    OBVIOUS
  <2>2. <<>> \in Seq(Prices)
    OBVIOUS
  <2> QED BY <2>1, <2>2 DEF Elems, Unique
<1>1. EmptyBook.index = {} /\ EmptyBook \in Books
  BY <1>0 DEF EmptyBook, Books, Levels, NoLevel
<1>2. ASSUME NEW s \in Sides, NEW p \in Prices
      PROVE  EmptyBook.levels[s][p] = NoLevel /\ LevelOK(NoLevel, Belong({}, nd, s, p), rm)
  <2>1. Belong({}, nd, s, p) = {}
    BY DEF Belong
  <2> QED BY <1>0, <2>1, TotalEmpty DEF EmptyBook, LevelOK, NoLevel
<1>3. ASSUME NEW s \in Sides PROVE SideOK(s, EmptyBook.sortedPrices[s], EmptyBook.levels[s])
  <2>1. EmptyBook.sortedPrices[s] = <<>>
    BY DEF EmptyBook
  <2>2. \A p \in Prices : EmptyBook.levels[s][p].orders = <<>>
    BY <1>2 DEF NoLevel
  <2> QED BY <1>0, <2>1, <2>2 DEF SideOK, Ordered
<1> QED BY <1>1, <1>2, <1>3 DEF BookOK, Resting

\* The greatest of some positions.
LEMMA GreatestIs ==
  ASSUME NEW n \in Nat, NEW I \in SUBSET (1..n), I # {}
  PROVE  Max(I) \in I /\ \A i \in I : i <= Max(I)
<1> DEFINE J == {n - i : i \in I}
<1>1. J \in SUBSET Nat /\ J # {}
  <2>1. \A i \in I : i \in 1..n /\ n - i \in Nat
    OBVIOUS
  <2>2. PICK i \in I : TRUE
    OBVIOUS
  <2>3. n - i \in J
    OBVIOUS
  <2> QED BY <2>1, <2>3
<1>2. PICK j \in J : \A x \in J : j <= x
  <2> HIDE DEF J
  <2> QED BY <1>1, LeastIs
<1>3. PICK m \in I : j = n - m
  OBVIOUS
<1>4. ASSUME NEW i \in I PROVE i <= m
  <2>1. n - m <= n - i
    BY <1>2, <1>3
  <2>2. i \in Nat /\ m \in Nat
    OBVIOUS
  <2> QED BY <2>1, <2>2
<1>5. Max(I) = CHOOSE x \in I : \A y \in I : x >= y
  BY DEF Max
<1>6. \A y \in I : m >= y
  <2>1. \A y \in I : y \in Nat /\ m \in Nat
    OBVIOUS
  <2> QED BY <1>4, <2>1
<1> QED BY <1>3, <1>5, <1>6

\* h holds the books of the orders in some places of list.
IsRestoring(h, list) ==
  h = [s \in SUBSET (DOMAIN list) |-> IF s = {} THEN EmptyBook ELSE Inserted(h[s \ {Max(s)}], list[Max(s)])]

LEMMA RestoringExists ==
  ASSUME NEW S, NEW list \in Seq(S)
  PROVE  \E h : IsRestoring(h, list)
<1> DEFINE N == Len(list)
           Up(n) == SUBSET (1..n)
           Part(n, h) == h = [s \in Up(n) |-> IF s = {} THEN EmptyBook ELSE Inserted(h[s \ {Max(s)}], list[Max(s)])]
           G == {n \in Nat : \E h : Part(n, h)}
<1>1. 0 \in G
  <2> DEFINE h0 == [s \in Up(0) |-> EmptyBook]
  <2>1. \A s \in Up(0) : s = {}
    OBVIOUS
  <2>2. Part(0, h0)
    BY <2>1
  <2> QED BY <2>2
<1>2. ASSUME NEW n \in G PROVE n + 1 \in G
  <2>1. PICK h : Part(n, h)
    OBVIOUS
  <2> DEFINE k == [s \in Up(n + 1) |-> IF s = {} THEN EmptyBook ELSE Inserted(h[s \ {Max(s)}], list[Max(s)])]
  <2>2. ASSUME NEW s \in Up(n + 1), s # {}
        PROVE  s \ {Max(s)} \in Up(n)
    <3>1. n \in Nat /\ n + 1 \in Nat /\ s \in SUBSET (1..n + 1)
      OBVIOUS
    <3>2. Max(s) \in s /\ \A i \in s : i <= Max(s)
      BY <2>2, <3>1, GreatestIs
    <3> DEFINE x == Max(s)
    <3>3. x \in s /\ \A i \in s : i <= x
      BY <3>2
    <3> HIDE DEF x
    <3>4. \A i \in s \ {x} : i \in 1..n
      BY <3>1, <3>3
    <3> QED BY <3>4 DEF x
  <2>3. ASSUME NEW s \in Up(n) PROVE s \in Up(n + 1) /\ h[s] = k[s]
    <3>1. s \in Up(n + 1)
      OBVIOUS
    <3> QED BY <3>1, <2>1
  <2>4. k = [s \in Up(n + 1) |-> IF s = {} THEN EmptyBook ELSE Inserted(k[s \ {Max(s)}], list[Max(s)])]
    <3> HIDE DEF k
    <3>1. ASSUME NEW s \in Up(n + 1), s # {} PROVE h[s \ {Max(s)}] = k[s \ {Max(s)}]
      BY <2>2, <2>3, <3>1
    <3> QED BY <3>1 DEF k
  <2>5. Part(n + 1, k)
    BY <2>4
  <2> HIDE DEF k
  <2>6. n + 1 \in Nat
    OBVIOUS
  <2> QED BY <2>5, <2>6
<1>3. N \in G
  <2> HIDE DEF G
  <2>1. G \subseteq Nat
    BY DEF G
  <2>2. N \in Nat
    OBVIOUS
  <2> QED BY <1>1, <1>2, <2>1, <2>2, NatSetInduction
<1>4. Up(N) = SUBSET (DOMAIN list)
  OBVIOUS
<1> QED BY <1>3, <1>4 DEF IsRestoring

\* The queues of book b follow the order of the list.
QueuedAs(b, list) ==
  \A s \in Sides, p \in Prices : \A a, c : Precedes(a, c, b.levels[s][p].orders) => Precedes(a, c, list)

\* What Restore makes of a list of different orders.
LEMMA RestoredOK ==
  ASSUME NEW list \in Seq(Orders), Unique(list), Resting(Elems(list), node, remaining)
  PROVE  /\ BookOK(FoldLeft(Inserted, EmptyBook, list), node, remaining)
         /\ FoldLeft(Inserted, EmptyBook, list).index = Elems(list)
         /\ QueuedAs(FoldLeft(Inserted, EmptyBook, list), list)
<1> DEFINE P(h) == h = [s \in SUBSET (DOMAIN list) |->
                          IF s = {} THEN EmptyBook ELSE Inserted(h[s \ {Max(s)}], list[Max(s)])]
<1>1. \A h : IsRestoring(h, list) <=> P(h)
  BY DEF IsRestoring
<1>2. FoldLeft(Inserted, EmptyBook, list) = (CHOOSE h : P(h))[DOMAIN list]
  BY DEF FoldLeft, MapThenFoldSet
<1>3. \E h : P(h)
  BY <1>1, RestoringExists
<1>4. PICK h : P(h) /\ FoldLeft(Inserted, EmptyBook, list) = h[DOMAIN list]
  BY <1>2, <1>3
<1> DEFINE n == Len(list)
           Taken(k) == {list[i] : i \in 1..k}
           G == {k \in Nat : k <= n => /\ BookOK(h[1..k], node, remaining) /\ h[1..k].index = Taken(k)
                                     /\ QueuedAs(h[1..k], list)}
<1>5. n \in Nat /\ DOMAIN list = 1..n /\ Taken(n) = Elems(list)
  BY DEF Elems
<1>6. 0 \in G
  <2>1. 1..0 = {} /\ Taken(0) = {}
    OBVIOUS
  <2>2. h[{}] = EmptyBook
    BY <1>4
  <2>3. QueuedAs(EmptyBook, list)
    <3>1. ASSUME NEW s \in Sides, NEW p \in Prices PROVE EmptyBook.levels[s][p].orders = <<>>
      BY DEF EmptyBook, NoLevel
    <3>2. \A a, c : ~Precedes(a, c, <<>>)
      BY DEF Precedes
    <3> QED BY <3>1, <3>2 DEF QueuedAs
  <2> QED BY <2>1, <2>2, <2>3, EmptyOK
<1>7. ASSUME NEW k \in Nat, k \in G PROVE k + 1 \in G
  <2> SUFFICES ASSUME k + 1 <= n
               PROVE  /\ BookOK(h[1..k + 1], node, remaining) /\ h[1..k + 1].index = Taken(k + 1)
                      /\ QueuedAs(h[1..k + 1], list)
    OBVIOUS
  <2> DEFINE s == 1..k + 1
  <2>1. Max(s) = k + 1 /\ s \ {k + 1} = 1..k
    <3>1. s \in SUBSET (1..k + 1) /\ k + 1 \in Nat /\ k + 1 \in s /\ s # {}
      <4>1. k + 1 \in Nat /\ k + 1 \in 1..k + 1
        OBVIOUS
      <4> QED BY <4>1
    <3>2. Max(s) \in s /\ \A i \in s : i <= Max(s)
      BY <3>1, GreatestIs
    <3>3. Max(s) = k + 1
      BY <3>1, <3>2
    <3> QED BY <3>3
  <2>2. s \in SUBSET (DOMAIN list) /\ s # {}
    BY <1>5
  <2>3. h[s] = Inserted(h[1..k], list[k + 1])
    BY <1>4, <2>1, <2>2
  <2> DEFINE b == h[1..k]
             o == list[k + 1]
  <2>4. BookOK(b, node, remaining) /\ b.index = Taken(k) /\ QueuedAs(b, list)
    BY <1>5, <1>7
  <2>5. o \in Elems(list) /\ o \in Orders /\ k + 1 \in 1..n
    BY <1>5 DEF Elems
  <2>6. o \notin Taken(k)
    BY <1>5, <2>5 DEF Unique
  <2>7. node[o] \in Specs /\ remaining[o] \in Nat \ {0}
    BY <2>5 DEF Resting
  <2>8. Taken(k + 1) = Taken(k) \cup {o}
    <3>1. 1..k + 1 = (1..k) \cup {k + 1}
      OBVIOUS
    <3> QED BY <3>1
  <2>9. \A a \in Taken(k) : Precedes(a, o, list)
    <3> SUFFICES ASSUME NEW i \in 1..k PROVE Precedes(list[i], o, list)
      OBVIOUS
    <3>1. i \in 1..Len(list) /\ k + 1 \in 1..Len(list) /\ i < k + 1
      BY <1>5, <2>5
    <3> QED BY <3>1 DEF Precedes
  <2> HIDE DEF b, o, Taken, s
  <2>10. BookOK(Inserted(b, o), node, remaining) /\ Inserted(b, o).index = b.index \cup {o}
    BY <2>4, <2>5, <2>6, <2>7, InsertedOK
  <2>11. QueuedAs(Inserted(b, o), list)
    <3> SUFFICES ASSUME NEW s1 \in Sides, NEW p \in Prices, NEW a, NEW c,
                        Precedes(a, c, Inserted(b, o).levels[s1][p].orders)
                 PROVE  Precedes(a, c, list)
      BY DEF QueuedAs
    <3>1. Precedes(a, c, b.levels[s1][p].orders) \/ (c = o /\ a \in b.index)
      BY <2>4, <2>5, <2>7, InsertedOrder
    <3> QED BY <2>4, <2>9, <3>1 DEF QueuedAs
  <2> QED BY <2>3, <2>4, <2>8, <2>10, <2>11 DEF b, o, s
<1> HIDE DEF G
<1>8. n \in G
  BY <1>5, <1>6, <1>7, NatSetInduction
<1>9. BookOK(h[1..n], node, remaining) /\ h[1..n].index = Taken(n) /\ QueuedAs(h[1..n], list)
  <2>1. n <= n
    BY <1>5
  <2> QED BY <1>8, <2>1 DEF G
<1> HIDE DEF n, Taken, P
<1> QED BY <1>4, <1>5, <1>9

-----------------------------------------------------------------------------
\* h holds the sequences of qs one after the other, as far as each place.
IsFlat(h, qs) == h = [i \in 1..Len(qs) |-> IF i = 1 THEN qs[i] ELSE h[i - 1] \o qs[i]]

LEMMA FlatExists ==
  ASSUME NEW S, NEW qs \in Seq(S)
  PROVE  \E h : IsFlat(h, qs)
<1> DEFINE N == Len(qs)
           Part(n, h) == h = [i \in 1..n |-> IF i = 1 THEN qs[i] ELSE h[i - 1] \o qs[i]]
           G == {n \in Nat : \E h : Part(n, h)}
<1>1. 0 \in G
  <2> DEFINE h0 == [i \in 1..0 |-> qs[i]]
  <2>1. Part(0, h0)
    OBVIOUS
  <2> QED BY <2>1
<1>2. ASSUME NEW n \in Nat, n \in G PROVE n + 1 \in G
  <2>1. PICK h : Part(n, h)
    BY <1>2
  <2> DEFINE k == [i \in 1..n + 1 |-> IF i = 1 THEN qs[i] ELSE h[i - 1] \o qs[i]]
  <2>2. ASSUME NEW i \in 1..n + 1, i # 1 PROVE i - 1 \in 1..n
    BY <2>2
  <2>3. ASSUME NEW i \in 1..n PROVE i \in 1..n + 1 /\ h[i] = k[i]
    <3>1. i \in 1..n + 1
      OBVIOUS
    <3> QED BY <3>1, <2>1
  <2>4. k = [i \in 1..n + 1 |-> IF i = 1 THEN qs[i] ELSE k[i - 1] \o qs[i]]
    <3> HIDE DEF k
    <3>1. ASSUME NEW i \in 1..n + 1, i # 1 PROVE h[i - 1] = k[i - 1]
      BY <2>2, <2>3, <3>1
    <3> QED BY <3>1 DEF k
  <2>5. Part(n + 1, k)
    BY <2>4
  <2> HIDE DEF k
  <2>6. n + 1 \in Nat
    OBVIOUS
  <2> QED BY <2>5, <2>6
<1>3. N \in G
  <2> HIDE DEF G
  <2>1. N \in Nat
    OBVIOUS
  <2> QED BY <1>1, <1>2, <2>1, NatSetInduction
<1> QED BY <1>3 DEF IsFlat

\* Nothing, or the last of them.
LEMMA FlattenedBy ==
  ASSUME NEW S, NEW qs \in Seq(S)
  PROVE  \E h : /\ IsFlat(h, qs)
                /\ FlattenSeq(qs) = IF Len(qs) = 0 THEN <<>> ELSE h[Len(qs)]
<1> DEFINE P(h) == h = [i \in 1..Len(qs) |-> IF i = 1 THEN qs[i] ELSE h[i - 1] \o qs[i]]
<1>1. \A h : IsFlat(h, qs) <=> P(h)
  BY DEF IsFlat
<1>2. FlattenSeq(qs) = IF Len(qs) = 0 THEN qs ELSE (CHOOSE h : P(h))[Len(qs)]
  BY DEF FlattenSeq
<1>3. \E h : P(h)
  BY <1>1, FlatExists
<1>4. P(CHOOSE h : P(h))
  BY <1>3
<1>5. Len(qs) = 0 => qs = <<>>
  OBVIOUS
<1> HIDE DEF P
<1> QED BY <1>1, <1>2, <1>4, <1>5

\* The sequences one after the other: nothing is lost, and each keeps its order.
Holds(q, r) == /\ Elems(r) \subseteq Elems(q)
               /\ \A a, b : Precedes(a, b, r) => Precedes(a, b, q)

LEMMA FlattenIs ==
  ASSUME NEW S, NEW qs \in Seq(Seq(S))
  PROVE  FlattenSeq(qs) \in Seq(S) /\ \A i \in 1..Len(qs) : Holds(FlattenSeq(qs), qs[i])
<1>1. PICK h : IsFlat(h, qs) /\ FlattenSeq(qs) = IF Len(qs) = 0 THEN <<>> ELSE h[Len(qs)]
  BY FlattenedBy
<1>2. Len(qs) \in Nat
  OBVIOUS
<1> DEFINE G == {n \in Nat : n \in 1..Len(qs) => h[n] \in Seq(S) /\ \A i \in 1..n : Holds(h[n], qs[i])}
<1>3. 0 \in G
  OBVIOUS
<1>4. ASSUME NEW n \in Nat, n \in G PROVE n + 1 \in G
  <2> SUFFICES ASSUME n + 1 \in 1..Len(qs)
               PROVE  h[n + 1] \in Seq(S) /\ \A i \in 1..n + 1 : Holds(h[n + 1], qs[i])
    OBVIOUS
  <2>1. qs[n + 1] \in Seq(S)
    OBVIOUS
  <2>2. CASE n = 0
    <3>1. h[n + 1] = qs[n + 1] /\ \A i \in 1..n + 1 : i = n + 1
      BY <1>1, <2>2 DEF IsFlat
    <3> QED BY <2>1, <3>1 DEF Holds
  <2>3. CASE n # 0
    <3>1. n \in 1..Len(qs) /\ n + 1 # 1 /\ (n + 1) - 1 = n
      BY <2>3
    <3>2. h[n + 1] = h[n] \o qs[n + 1]
      BY <1>1, <3>1 DEF IsFlat
    <3>3. h[n] \in Seq(S) /\ \A i \in 1..n : Holds(h[n], qs[i])
      BY <1>4, <3>1
    <3> DEFINE q == h[n]
               r == qs[n + 1]
    <3>4. q \in Seq(S) /\ r \in Seq(S) /\ h[n + 1] = q \o r
      BY <2>1, <3>2, <3>3
    <3> HIDE DEF q, r
    <3>5. q \o r \in Seq(S) /\ Holds(q \o r, q) /\ Holds(q \o r, r)
      BY <3>4, ConcatOrder DEF Holds
    <3>6. \A i \in 1..n : Holds(q, qs[i])
      BY <3>3 DEF q
    <3>7. \A i \in 1..n : Holds(q \o r, qs[i])
      BY <3>5, <3>6 DEF Holds
    <3>8. \A i \in 1..n + 1 : i \in 1..n \/ i = n + 1
      OBVIOUS
    <3> QED BY <3>4, <3>5, <3>7, <3>8 DEF r
  <2> QED BY <2>2, <2>3
<1> HIDE DEF G
<1>5. \A n \in Nat : n \in G
  BY <1>3, <1>4, NatSetInduction
<1>6. CASE Len(qs) = 0
  <2>1. <<>> \in Seq(S) /\ 1..Len(qs) = {}
    <3>1. <<>> \in Seq(S)
      OBVIOUS
    <3> QED BY <1>6, <3>1
  <2> QED BY <1>1, <1>6, <2>1
<1>7. CASE Len(qs) # 0
  <2>1. Len(qs) \in 1..Len(qs)
    BY <1>2, <1>7
  <2> QED BY <1>1, <1>2, <1>5, <1>7, <2>1 DEF G
<1> QED BY <1>6, <1>7

LEMMA SeqOfElems ==
  ASSUME NEW S, NEW q \in Seq(S), NEW T, Elems(q) \subseteq T
  PROVE  q \in Seq(T)
<1>1. \A i \in 1..Len(q) : q[i] \in T
  BY DEF Elems
<1>2. Len(q) \in Nat /\ q = [i \in 1..Len(q) |-> q[i]]
  OBVIOUS
<1> QED BY <1>1, <1>2, IsASeq

\* A snapshot lists the orders of the book, those of a level in the order of its queue.
LEMMA SerializeIs ==
  ASSUME NEW nd, NEW rm, BookOK(Current, nd, rm)
  PROVE  /\ Serialize \in Seq(index)
         /\ \A s \in Sides, p \in Prices : Holds(Serialize, levels[s][p].orders)
<1>0. levels \in [Sides -> [Prices -> Levels]]
  BY DEF BookOK, Books, Current
<1>1. ASSUME NEW s \in Sides
      PROVE  /\ SerializeSide(s) \in Seq(index)
             /\ \A p \in Prices : Holds(SerializeSide(s), levels[s][p].orders)
  <2> DEFINE ps == sortedPrices[s]
             qs == [i \in DOMAIN ps |-> levels[s][ps[i]].orders]
  <2>1. ps \in Seq(Prices) /\ SideOK(s, ps, levels[s])
    BY DEF BookOK, Books, Current
  <2>2. ASSUME NEW p \in Prices PROVE levels[s][p].orders \in Seq(index)
    <3>1. levels[s][p].orders \in Seq(Orders)
      BY <1>0 DEF Levels
    <3>2. Elems(levels[s][p].orders) \subseteq index
      <4>1. LevelOK(levels[s][p], Belong(index, nd, s, p), rm)
        BY DEF BookOK, Current
      <4> QED BY <4>1 DEF LevelOK, Belong
    <3> QED BY <3>1, <3>2, SeqOfElems
  <2>3. Len(ps) \in Nat /\ DOMAIN ps = 1..Len(ps) /\ \A i \in 1..Len(ps) : ps[i] \in Prices
    BY <2>1
  <2>4. qs \in Seq(Seq(index)) /\ Len(qs) = Len(ps)
    <3>1. \A i \in 1..Len(ps) : levels[s][ps[i]].orders \in Seq(index)
      BY <2>2, <2>3
    <3>2. qs \in Seq(Seq(index))
      BY <2>3, <3>1, IsASeq
    <3>3. DOMAIN qs = 1..Len(ps)
      BY <2>3
    <3> HIDE DEF qs
    <3> QED BY <2>3, <3>2, <3>3
  <2>5. \A i \in 1..Len(ps) : qs[i] = levels[s][ps[i]].orders
    BY <2>3
  <2>6. ASSUME NEW p \in Prices, levels[s][p].orders # <<>>
        PROVE  \E i \in 1..Len(ps) : ps[i] = p
    BY <2>1, <2>6 DEF SideOK, Elems
  <2> HIDE DEF qs, ps
  <2>7. FlattenSeq(qs) \in Seq(index) /\ \A i \in 1..Len(qs) : Holds(FlattenSeq(qs), qs[i])
    BY <2>4, FlattenIs
  <2>8. SerializeSide(s) = FlattenSeq(qs)
    BY DEF SerializeSide, qs, ps
  <2>9. ASSUME NEW p \in Prices PROVE Holds(SerializeSide(s), levels[s][p].orders)
    <3>1. CASE levels[s][p].orders = <<>>
      BY <3>1 DEF Holds, Elems, Precedes
    <3>2. CASE levels[s][p].orders # <<>>
      <4>1. PICK i \in 1..Len(ps) : ps[i] = p
        BY <2>6, <3>2
      <4> QED BY <2>4, <2>5, <2>7, <2>8, <4>1
    <3> QED BY <3>1, <3>2
  <2> QED BY <2>7, <2>8, <2>9
<1> DEFINE b == SerializeSide("BUY")
           a == SerializeSide("SELL")
<1>2. b \in Seq(index) /\ a \in Seq(index) /\ Serialize = b \o a
  BY <1>1 DEF Sides, Serialize
<1>3. /\ \A p \in Prices : Holds(b, levels["BUY"][p].orders)
      /\ \A p \in Prices : Holds(a, levels["SELL"][p].orders)
  BY <1>1 DEF Sides
<1> HIDE DEF a, b
<1>4. b \o a \in Seq(index) /\ Holds(b \o a, b) /\ Holds(b \o a, a)
  BY <1>2, ConcatOrder DEF Holds
<1>5. /\ \A p \in Prices : Holds(b \o a, levels["BUY"][p].orders)
      /\ \A p \in Prices : Holds(b \o a, levels["SELL"][p].orders)
  BY <1>3, <1>4 DEF Holds
<1> QED BY <1>2, <1>4, <1>5 DEF Sides

-----------------------------------------------------------------------------
(***************************************************************************)
(* The inductive invariant.  The book is consistent and not crossed during *)
(* the matching of an order as well, which is not in the book then.        *)
(***************************************************************************)
Accounts ==
  /\ node \in [Orders -> Specs \cup {NoNode}]
  /\ remaining \in [Orders -> Nat] /\ filled \in [Orders -> Nat] /\ paid \in [Orders -> Nat]
  /\ \A o \in Orders : node[o] = NoNode => filled[o] = 0 /\ paid[o] = 0
  /\ taker = NoOrder \/ (taker \in Known /\ taker \notin index)

Uncrossed(X) == \A b, a \in X : Side(b) = "BUY" /\ Side(a) = "SELL" => Price(b) < Price(a)

BookInv == Accounts /\ BookOK(Current, node, remaining) /\ Uncrossed(index) /\ LimitRespected

LEMMA KnownAre ==
  ASSUME Accounts, NEW o \in Known
  PROVE  o \in Orders /\ node[o] \in Specs /\ Side(o) \in Sides /\ Price(o) \in Prices /\ Price(o) \in Nat
<1>1. o \in Orders /\ node[o] \in Specs
  BY DEF Known, Accounts
<1>2. node[o].side \in Sides /\ node[o].price \in Prices /\ node[o].price \in Nat
  BY <1>1, SpecsAssumption DEF Sides, Prices
<1> QED BY <1>1, <1>2 DEF Side, Price

LEMMA SpecIsNode == \A x \in Specs : x # NoNode
<1> SUFFICES ASSUME NEW x \in Specs, x = NoNode PROVE FALSE
  OBVIOUS
<1>1. x.side \in {"BUY", "SELL"}
  BY SpecsAssumption
<1>2. NoNode.side = "NONE"
  BY DEF NoNode
<1> QED BY <1>1, <1>2

LEMMA IndexIsKnown ==
  ASSUME BookOK(Current, node, remaining)
  PROVE  index \subseteq Known /\ \A o \in index : remaining[o] \in Nat \ {0}
<1>1. index \subseteq Orders /\ Resting(index, node, remaining)
  BY DEF BookOK, Books, Current
<1> QED BY <1>1, SpecIsNode DEF Known, Resting

\* A book knows of its own orders only.
LEMMA BookAgrees ==
  ASSUME NEW b, NEW nd, NEW rm, BookOK(b, nd, rm), NEW md, NEW rn,
         \A x \in b.index : md[x] = nd[x] /\ rn[x] = rm[x]
  PROVE  BookOK(b, md, rn)
<1>1. \A s, p : Belong(b.index, md, s, p) = Belong(b.index, nd, s, p)
  BY DEF Belong
<1>2. ASSUME NEW s \in Sides, NEW p \in Prices
      PROVE  LevelOK(b.levels[s][p], Belong(b.index, md, s, p), rn)
  <2>1. b.levels[s][p] \in Levels /\ LevelOK(b.levels[s][p], Belong(b.index, nd, s, p), rm)
    BY DEF BookOK, Books
  <2>2. \A x \in Belong(b.index, nd, s, p) : rn[x] = rm[x]
    BY DEF Belong
  <2> QED BY <1>1, <2>1, <2>2, SameLevel
<1>3. Resting(b.index, md, rn)
  BY DEF BookOK, Resting
<1> QED BY <1>2, <1>3 DEF BookOK

\* ExecuteBest finds an order of the best price of its side.
LEMMA BestIs ==
  ASSUME BookOK(Current, node, remaining), NEW s \in Sides, sortedPrices[s] # <<>>
  PROVE  /\ ExecuteBest(s) \in index /\ Side(ExecuteBest(s)) = s /\ Price(ExecuteBest(s)) = BestPrice(s)
         /\ \A o \in index : Side(o) = s => Price(o) = BestPrice(s) \/ Before(s, BestPrice(s), Price(o))
<1> DEFINE ps == sortedPrices[s]
           p == BestPrice(s)
           q == levels[s][p].orders
<1>1. /\ ps \in Seq(Prices) /\ levels \in [Sides -> [Prices -> Levels]]
      /\ SideOK(s, ps, levels[s])
      /\ \A p2 \in Prices : LevelOK(levels[s][p2], Belong(index, node, s, p2), remaining)
  BY DEF BookOK, Books, Current
<1>2. Len(ps) \in Nat /\ 1 \in 1..Len(ps) /\ p = ps[1]
  BY <1>1 DEF BestPrice
<1>3. p \in Elems(ps) /\ p \in Prices
  BY <1>1, <1>2 DEF Elems
<1>4. q # <<>>
  BY <1>1, <1>3 DEF SideOK
<1>5. q \in Seq(Orders) /\ Elems(q) = Belong(index, node, s, p)
  BY <1>1, <1>3 DEF LevelOK, Levels
<1>6. Head(q) \in Elems(q)
  BY <1>4, <1>5 DEF Elems
<1>7. ExecuteBest(s) = Head(q)
  BY DEF ExecuteBest
<1>8. /\ ExecuteBest(s) \in index /\ Side(ExecuteBest(s)) = s /\ Price(ExecuteBest(s)) = p
  BY <1>5, <1>6, <1>7 DEF Belong, Side, Price
<1>9. ASSUME NEW o \in index, Side(o) = s PROVE Price(o) = p \/ Before(s, p, Price(o))
  <2>1. Price(o) \in Prices /\ LevelOK(levels[s][Price(o)], Belong(index, node, s, Price(o)), remaining)
        /\ o \in Belong(index, node, s, Price(o)) /\ levels[s][Price(o)] \in Levels
    BY <1>9, InItsLevel DEF Current, Side, Price
  <2>2. levels[s][Price(o)].orders # <<>>
    BY <2>1, NoElems DEF LevelOK, Levels
  <2>3. Price(o) \in Elems(ps)
    BY <1>1, <2>1, <2>2 DEF SideOK
  <2>4. PICK i \in 1..Len(ps) : ps[i] = Price(o)
    BY <2>3 DEF Elems
  <2> HIDE DEF p, ps
  <2>5. CASE i = 1
    BY <1>2, <2>4, <2>5
  <2>6. CASE i # 1
    <3>1. 1 < i
      BY <1>2, <2>6
    <3> QED BY <1>1, <1>2, <2>4, <3>1 DEF SideOK, Ordered
  <2> QED BY <2>5, <2>6
<1> QED BY <1>8, <1>9

-----------------------------------------------------------------------------
\* Products of what a fill adds.
LEMMA LimitArith ==
  ASSUME NEW f \in Nat, NEW d \in Nat, NEW P \in Nat, NEW Q \in Nat, NEW q \in Nat
  PROVE  /\ d <= P * f /\ Q <= P => d + Q * q <= P * (f + q)
         /\ d >= P * f /\ Q >= P => d + Q * q >= P * (f + q)
<1>1. P * (f + q) = P * f + P * q /\ P * f \in Nat /\ P * q \in Nat /\ Q * q \in Nat
  OBVIOUS
<1>2. Q <= P => Q * q <= P * q
  OBVIOUS
<1>3. Q >= P => Q * q >= P * q
  OBVIOUS
<1> QED BY <1>1, <1>2, <1>3

\* An order keeps its limit with a fill at a price within it.
LEMMA LimitKept ==
  ASSUME Accounts, LimitRespected, NEW o \in Known, NEW q \in Nat, NEW Q \in Nat,
         Price(o) > 0 => IF Side(o) = "BUY" THEN Q <= Price(o) ELSE Q >= Price(o)
  PROVE  Price(o) > 0 => IF Side(o) = "BUY" THEN paid[o] + Q * q <= Price(o) * (filled[o] + q)
                                           ELSE paid[o] + Q * q >= Price(o) * (filled[o] + q)
<1>1. Price(o) \in Nat /\ filled[o] \in Nat /\ paid[o] \in Nat
  BY KnownAre DEF Accounts
<1>2. Price(o) > 0 => IF Side(o) = "BUY" THEN paid[o] <= Price(o) * filled[o]
                                        ELSE paid[o] >= Price(o) * filled[o]
  BY DEF LimitRespected
<1> DEFINE P == Price(o)
           f == filled[o]
           d == paid[o]
<1>3. /\ d <= P * f /\ Q <= P => d + Q * q <= P * (f + q)
      /\ d >= P * f /\ Q >= P => d + Q * q >= P * (f + q)
  <2> HIDE DEF P, f, d
  <2> QED BY <1>1, LimitArith DEF P, f, d
<1> QED BY <1>2, <1>3

\* Two places of a function change.
LEMMA TwoChange ==
  ASSUME NEW S, NEW f \in [S -> Nat], NEW a \in S, NEW b \in S, a # b, NEW x \in Int, NEW g,
         f[a] + x \in Nat, f[b] + x \in Nat,
         g = [f EXCEPT ![a] = @ + x, ![b] = @ + x]
  PROVE  /\ g \in [S -> Nat] /\ g[a] = f[a] + x /\ g[b] = f[b] + x
         /\ \A y \in S \ {a, b} : g[y] = f[y]
<1>1. PICK h : h = [f EXCEPT ![a] = f[a] + x]
  OBVIOUS
<1>2. h \in [S -> Nat] /\ h[b] = f[b] /\ h[a] = f[a] + x /\ \A y \in S \ {a} : h[y] = f[y]
  BY <1>1
<1>3. g = [h EXCEPT ![b] = h[b] + x]
  BY <1>1, <1>2
<1> QED BY <1>2, <1>3

LEMMA FillBook == BookInv /\ Fill => BookInv'
<1> SUFFICES ASSUME BookInv, Fill PROVE BookInv'
  OBVIOUS
<1> DEFINE s == Opposite(Side(taker))
           maker == ExecuteBest(s)
           qty == IF remaining[maker] < remaining[taker] THEN remaining[maker] ELSE remaining[taker]
           cost == Price(maker) * qty
<1>1. /\ Accounts /\ BookOK(Current, node, remaining) /\ Uncrossed(index) /\ LimitRespected
      /\ taker \in Known /\ taker \notin index
  BY DEF BookInv, Accounts, Fill
<1>2. s \in Sides /\ Side(taker) \in Sides /\ s # Side(taker)
  BY <1>1, KnownAre DEF Opposite, Sides
<1>3. /\ remaining[taker] > 0 /\ sortedPrices[s] # <<>> /\ Crossable(taker, maker)
      /\ IF qty = remaining[maker] THEN RemoveOrder(maker) ELSE ReduceOrder(maker, qty)
      /\ remaining' = [remaining EXCEPT ![maker] = @ - qty, ![taker] = @ - qty]
      /\ filled' = [filled EXCEPT ![maker] = @ + qty, ![taker] = @ + qty]
      /\ paid' = [paid EXCEPT ![maker] = @ + cost, ![taker] = @ + cost]
      /\ node' = node /\ taker' = taker
  BY DEF Fill, CanFill, FillPrice
<1>4. /\ maker \in index /\ Side(maker) = s /\ maker \in Known /\ maker # taker
      /\ remaining[maker] \in Nat \ {0}
  BY <1>1, <1>2, <1>3, BestIs, IndexIsKnown
<1> HIDE DEF s, maker
<1>5. /\ remaining \in [Orders -> Nat] /\ filled \in [Orders -> Nat] /\ paid \in [Orders -> Nat]
      /\ maker \in Orders /\ taker \in Orders
  BY <1>1, <1>4 DEF Accounts, Known
<1>6. /\ qty \in Nat \ {0} /\ qty <= remaining[maker] /\ qty <= remaining[taker]
  BY <1>3, <1>4, <1>5
<1> HIDE DEF qty
<1>7. Price(maker) \in Nat /\ cost \in Nat
  BY <1>1, <1>4, <1>6, KnownAre
<1>8. /\ remaining' \in [Orders -> Nat]
      /\ remaining'[maker] = remaining[maker] - qty
      /\ \A x \in Orders \ {maker, taker} : remaining'[x] = remaining[x]
  <2>1. /\ remaining[maker] + (-qty) \in Nat /\ remaining[taker] + (-qty) \in Nat /\ -qty \in Int
        /\ remaining[maker] + (-qty) = remaining[maker] - qty
        /\ \A y \in Int : y + (-qty) = y - qty
    BY <1>5, <1>6
  <2>2. remaining' = [remaining EXCEPT ![maker] = @ + (-qty), ![taker] = @ + (-qty)]
    BY <1>3, <1>4, <1>5, <2>1
  <2> DEFINE g == remaining'
             x == -qty
  <2>3. g = [remaining EXCEPT ![maker] = @ + x, ![taker] = @ + x]
    BY <2>2
  <2> HIDE DEF g, x
  <2>4. /\ g \in [Orders -> Nat] /\ g[maker] = remaining[maker] + x
        /\ \A y \in Orders \ {maker, taker} : g[y] = remaining[y]
    BY <1>4, <1>5, <2>1, <2>3, TwoChange DEF x
  <2> QED BY <2>1, <2>4 DEF g, x
<1> HIDE DEF cost
<1>9. /\ filled' \in [Orders -> Nat] /\ paid' \in [Orders -> Nat]
      /\ filled'[maker] = filled[maker] + qty /\ filled'[taker] = filled[taker] + qty
      /\ paid'[maker] = paid[maker] + cost /\ paid'[taker] = paid[taker] + cost
      /\ \A x \in Orders \ {maker, taker} : filled'[x] = filled[x] /\ paid'[x] = paid[x]
  <2>1. /\ filled[maker] + qty \in Nat /\ filled[taker] + qty \in Nat /\ qty \in Int
        /\ paid[maker] + cost \in Nat /\ paid[taker] + cost \in Nat /\ cost \in Int
    BY <1>5, <1>6, <1>7
  <2> DEFINE f == filled'
             d == paid'
  <2>2. f = [filled EXCEPT ![maker] = @ + qty, ![taker] = @ + qty]
    BY <1>3
  <2>3. d = [paid EXCEPT ![maker] = @ + cost, ![taker] = @ + cost]
    BY <1>3 DEF cost
  <2> HIDE DEF f, d
  <2>4. /\ f \in [Orders -> Nat] /\ f[maker] = filled[maker] + qty /\ f[taker] = filled[taker] + qty
        /\ \A y \in Orders \ {maker, taker} : f[y] = filled[y]
    BY <1>4, <1>5, <2>1, <2>2, TwoChange
  <2>5. /\ d \in [Orders -> Nat] /\ d[maker] = paid[maker] + cost /\ d[taker] = paid[taker] + cost
        /\ \A y \in Orders \ {maker, taker} : d[y] = paid[y]
    BY <1>4, <1>5, <2>1, <2>3, TwoChange
  <2> QED BY <2>4, <2>5 DEF f, d
<1>10. index \subseteq Orders
  BY <1>1 DEF BookOK, Books, Current
<1>11. BookOK(Current', node, remaining') /\ index' \subseteq index
  <2>1. CASE qty = remaining[maker]
    <3>1. RemoveOrder(maker) /\ \A x \in index \ {maker} : remaining'[x] = remaining[x]
      BY <1>1, <1>3, <1>8, <1>10, <2>1
    <3> DEFINE rm == remaining'
    <3>2. \A x \in index \ {maker} : rm[x] = remaining[x]
      BY <3>1
    <3> HIDE DEF rm
    <3>3. BookOK(Current', node, rm) /\ index' = index \ {maker}
      BY <1>1, <1>4, <3>1, <3>2, RemovedOK
    <3> QED BY <3>3 DEF rm
  <2>2. CASE qty # remaining[maker]
    <3> DEFINE rm == remaining'
    <3>1. ReduceOrder(maker, qty) /\ \A x \in index \ {maker} : rm[x] = remaining[x]
      BY <1>1, <1>3, <1>8, <1>10, <2>2
    <3>2. rm[maker] = remaining[maker] - qty /\ rm[maker] > 0
      BY <1>4, <1>6, <1>8, <2>2
    <3> HIDE DEF rm
    <3>3. BookOK(Current', node, rm) /\ index' = index
      BY <1>1, <1>4, <1>6, <3>1, <3>2, ReducedOK
    <3> QED BY <3>3 DEF rm
  <2> QED BY <2>1, <2>2
<1>12. BookOK(Current, node, remaining)'
  BY <1>3, <1>11
<1>13. Accounts'
  <2>1. Known' = Known
    BY <1>3 DEF Known
  <2>2. \A o \in Orders : node[o] = NoNode => o # maker /\ o # taker
    BY <1>1, <1>4 DEF Known
  <2> QED BY <1>1, <1>3, <1>8, <1>9, <1>11, <2>1, <2>2 DEF Accounts
<1>14. Uncrossed(index)'
  BY <1>1, <1>3, <1>11 DEF Uncrossed, Side, Price
<1>15. LimitRespected'
  <2>1. Known' = Known /\ \A o : Price(o)' = Price(o) /\ Side(o)' = Side(o)
    BY <1>3 DEF Known, Price, Side
  <2>2. Price(maker) > 0 => IF Side(maker) = "BUY" THEN paid'[maker] <= Price(maker) * filled'[maker]
                                                  ELSE paid'[maker] >= Price(maker) * filled'[maker]
    <3>1. Price(maker) <= Price(maker) /\ Price(maker) >= Price(maker)
      BY <1>7
    <3> QED BY <1>1, <1>4, <1>6, <1>7, <1>9, <3>1, LimitKept DEF cost
  <2>3. Price(taker) > 0 => IF Side(taker) = "BUY" THEN paid'[taker] <= Price(taker) * filled'[taker]
                                                  ELSE paid'[taker] >= Price(taker) * filled'[taker]
    <3>1. Price(taker) \in Nat
      BY <1>1, KnownAre
    <3>2. Price(taker) > 0 => IF Side(taker) = "BUY" THEN Price(maker) <= Price(taker)
                                                     ELSE Price(maker) >= Price(taker)
      BY <1>3, <1>7, <3>1 DEF Crossable, Before
    <3> QED BY <1>1, <1>6, <1>7, <1>9, <3>2, LimitKept DEF cost
  <2>4. ASSUME NEW o \in Known, o # maker, o # taker
        PROVE  Price(o) > 0 => IF Side(o) = "BUY" THEN paid'[o] <= Price(o) * filled'[o]
                                                  ELSE paid'[o] >= Price(o) * filled'[o]
    <3>1. filled'[o] = filled[o] /\ paid'[o] = paid[o]
      BY <1>9, <2>4 DEF Known
    <3> QED BY <1>1, <3>1 DEF LimitRespected
  <2> QED BY <2>1, <2>2, <2>3, <2>4 DEF LimitRespected
<1> QED BY <1>12, <1>13, <1>14, <1>15 DEF BookInv

\* A side without prices has no orders.
LEMMA NoneRest ==
  ASSUME BookOK(Current, node, remaining), NEW s \in Sides, sortedPrices[s] = <<>>
  PROVE  \A o \in index : Side(o) # s
<1> SUFFICES ASSUME NEW o \in index, Side(o) = s PROVE FALSE
  OBVIOUS
<1>1. /\ Price(o) \in Prices /\ o \in Belong(index, node, s, Price(o))
      /\ levels[s][Price(o)] \in Levels
      /\ LevelOK(levels[s][Price(o)], Belong(index, node, s, Price(o)), remaining)
  BY InItsLevel DEF Current, Side, Price
<1>2. levels[s][Price(o)].orders # <<>>
  BY <1>1, NoElems DEF LevelOK, Levels
<1>3. Elems(sortedPrices[s]) = {p \in Prices : levels[s][p].orders # <<>>}
  BY DEF BookOK, Current, SideOK
<1>4. <<>> \in Seq(Prices)
  OBVIOUS
<1>5. Elems(sortedPrices[s]) = {}
  BY <1>4, NoElems
<1> QED BY <1>1, <1>2, <1>3, <1>5

\* The remainder of a LIMIT order rests: nothing left in the book crosses it.
LEMMA RestBook == BookInv /\ Rest => BookInv'
<1> SUFFICES ASSUME BookInv, Rest PROVE BookInv'
  OBVIOUS
<1>1. /\ Accounts /\ BookOK(Current, node, remaining) /\ Uncrossed(index) /\ LimitRespected
      /\ taker \in Known /\ taker \notin index
  BY DEF BookInv, Accounts, Rest
<1>2. /\ ~CanFill /\ remaining[taker] > 0 /\ node[taker].type = "LIMIT" /\ InsertOrder(taker)
      /\ taker' = NoOrder
      /\ node' = node /\ remaining' = remaining /\ filled' = filled /\ paid' = paid
  BY DEF Rest, history
<1>3. /\ taker \in Orders /\ node[taker] \in Specs /\ Side(taker) \in Sides
      /\ Price(taker) \in Nat /\ remaining[taker] \in Nat \ {0}
  <2>1. taker \in Orders /\ node[taker] \in Specs /\ Side(taker) \in Sides /\ Price(taker) \in Nat
    BY <1>1, KnownAre
  <2>2. remaining[taker] \in Nat
    BY <1>1, <2>1 DEF Accounts
  <2> QED BY <1>2, <2>1, <2>2
<1>4. Current' = Inserted(Current, taker) /\ index' = Inserted(Current, taker).index
  <2>1. Becomes(Inserted(Current, taker))
    BY <1>1, <1>2 DEF InsertOrder
  <2>2. DOMAIN Inserted(Current, taker) = {"levels", "sortedPrices", "index"}
    BY DEF Inserted
  <2> QED BY <2>1, <2>2 DEF Becomes, Current, Inserted
<1>5. /\ BookOK(Inserted(Current, taker), node, remaining)
      /\ Inserted(Current, taker).index = index \cup {taker}
  <2>1. taker \notin Current.index /\ Current.index = index
    BY <1>1 DEF Current
  <2> QED BY <1>1, <1>3, <2>1, InsertedOK
<1>6. BookOK(Current, node, remaining)'
  BY <1>2, <1>4, <1>5
<1>7. Accounts'
  <2>1. Known' = Known
    BY <1>2 DEF Known
  <2> QED BY <1>1, <1>2, <2>1 DEF Accounts
<1>8. \A o \in index : Side(o) = Opposite(Side(taker)) => IF Side(taker) = "BUY" THEN Price(taker) < Price(o)
                                                                                ELSE Price(o) < Price(taker)
  <2> DEFINE s == Opposite(Side(taker))
  <2>1. s \in Sides /\ Side(taker) \in {"BUY", "SELL"} /\ s = IF Side(taker) = "BUY" THEN "SELL" ELSE "BUY"
    BY <1>3 DEF Opposite, Sides
  <2>2. CASE sortedPrices[s] = <<>>
    BY <1>1, <2>1, <2>2, NoneRest
  <2>3. CASE sortedPrices[s] # <<>>
    <3> DEFINE best == ExecuteBest(s)
    <3>1. ~Crossable(taker, best)
      BY <1>2, <2>3 DEF CanFill
    <3>2. /\ best \in index
          /\ \A o \in index : Side(o) = s => Price(o) = Price(best) \/ Before(s, Price(best), Price(o))
      BY <1>1, <2>1, <2>3, BestIs
    <3>3. \A o \in index : Price(o) \in Nat
      BY <1>1, KnownAre, IndexIsKnown
    <3> HIDE DEF best, s
    <3>4. IF Side(taker) = "BUY" THEN Price(taker) < Price(best) ELSE Price(best) < Price(taker)
      BY <1>3, <2>1, <3>1, <3>2, <3>3 DEF Crossable, Before
    <3>5. ASSUME NEW o \in index, Side(o) = s
          PROVE  IF Side(taker) = "BUY" THEN Price(taker) < Price(o) ELSE Price(o) < Price(taker)
      <4>1. Price(o) \in Nat /\ Price(best) \in Nat /\ Price(taker) \in Nat
        BY <1>3, <3>2, <3>3
      <4>2. Price(o) = Price(best) \/ Before(s, Price(best), Price(o))
        BY <3>2, <3>5
      <4>3. CASE Side(taker) = "BUY"
        BY <2>1, <3>4, <4>1, <4>2, <4>3 DEF Before
      <4>4. CASE Side(taker) = "SELL"
        BY <2>1, <3>4, <4>1, <4>2, <4>4 DEF Before
      <4> QED BY <2>1, <4>3, <4>4
    <3> QED BY <3>5 DEF s
  <2> QED BY <2>2, <2>3
<1>9. Uncrossed(index)'
  <2>1. \A o : Price(o)' = Price(o) /\ Side(o)' = Side(o)
    BY <1>2 DEF Price, Side
  <2>2. index' = index \cup {taker}
    BY <1>4, <1>5
  <2>3. ASSUME NEW b \in index \cup {taker}, NEW a \in index \cup {taker}, Side(b) = "BUY", Side(a) = "SELL"
        PROVE  Price(b) < Price(a)
    <3>1. CASE b \in index /\ a \in index
      BY <1>1, <2>3, <3>1 DEF Uncrossed
    <3>2. CASE b = taker /\ a # taker
      <4>1. a \in index /\ Opposite(Side(taker)) = Side(a)
        BY <2>3, <3>2 DEF Opposite
      <4> QED BY <1>8, <2>3, <3>2, <4>1
    <3>3. CASE a = taker /\ b # taker
      <4>1. b \in index /\ Opposite(Side(taker)) = Side(b)
        BY <2>3, <3>3 DEF Opposite
      <4> QED BY <1>8, <2>3, <3>3, <4>1
    <3> QED BY <2>3, <3>1, <3>2, <3>3
  <2> QED BY <2>1, <2>2, <2>3 DEF Uncrossed
<1>10. LimitRespected'
  BY <1>1, <1>2 DEF LimitRespected, Known, Side, Price
<1> QED BY <1>6, <1>7, <1>9, <1>10 DEF BookInv

\* A remainder that does not rest expires.
LEMMA FinishBook == BookInv /\ Finish => BookInv'
<1> SUFFICES ASSUME BookInv, Finish PROVE BookInv'
  OBVIOUS
<1>1. /\ Accounts /\ BookOK(Current, node, remaining) /\ Uncrossed(index) /\ LimitRespected
      /\ taker \in Known /\ taker \notin index
  BY DEF BookInv, Accounts, Finish
<1>2. /\ remaining' = [remaining EXCEPT ![taker] = 0] /\ taker' = NoOrder
      /\ node' = node /\ filled' = filled /\ paid' = paid
      /\ levels' = levels /\ sortedPrices' = sortedPrices /\ index' = index
  BY DEF Finish, history
<1>3. remaining \in [Orders -> Nat] /\ index \subseteq Orders
  BY <1>1 DEF Accounts, BookOK, Books, Current
<1>4. Current' = Current /\ Current.index = index
  BY <1>2 DEF Current
<1>5. BookOK(Current, node, remaining)'
  <2> DEFINE rm == remaining'
  <2>1. \A x \in Current.index : node[x] = node[x] /\ rm[x] = remaining[x]
    BY <1>1, <1>2, <1>3, <1>4
  <2> HIDE DEF rm
  <2>2. BookOK(Current, node, rm)
    BY <1>1, <2>1, BookAgrees
  <2> QED BY <1>2, <1>4, <2>2 DEF rm
<1>6. Accounts'
  <2>1. Known' = Known /\ remaining' \in [Orders -> Nat]
    BY <1>2, <1>3 DEF Known
  <2> QED BY <1>1, <1>2, <2>1 DEF Accounts
<1>7. Uncrossed(index)'
  BY <1>1, <1>2 DEF Uncrossed, Side, Price
<1>8. LimitRespected'
  BY <1>1, <1>2 DEF LimitRespected, Known, Side, Price
<1> QED BY <1>5, <1>6, <1>7, <1>8 DEF BookInv

\* An order of its event, a new one or one that does not rest, is in hand next.
LEMMA CreatedBook ==
  ASSUME BookInv, NEW o \in Orders, NEW spec \in Specs, OrderCreated(o, spec),
         node' = [node EXCEPT ![o] = spec], node[o] = NoNode \/ node[o] = spec
  PROVE  BookInv'
<1>1. /\ Accounts /\ BookOK(Current, node, remaining) /\ Uncrossed(index) /\ LimitRespected
      /\ index \subseteq Known
  BY IndexIsKnown DEF BookInv
<1>2. /\ levels' = levels /\ sortedPrices' = sortedPrices /\ index' = index
      /\ filled' = filled /\ paid' = paid /\ taker = NoOrder
  BY DEF OrderCreated
<1>3. \/ remaining' = remaining /\ taker' = taker
      \/ o \notin index /\ remaining' = [remaining EXCEPT ![o] = spec.qty] /\ taker' = o
  BY DEF OrderCreated
<1>4. spec.qty \in Nat /\ spec.price \in Nat
  BY SpecsAssumption
<1>5. node \in [Orders -> Specs \cup {NoNode}] /\ remaining \in [Orders -> Nat]
  BY <1>1 DEF Accounts
<1>6. /\ node' \in [Orders -> Specs \cup {NoNode}] /\ remaining' \in [Orders -> Nat]
      /\ node'[o] = spec /\ \A x \in Orders \ {o} : node'[x] = node[x]
  BY <1>3, <1>4, <1>5
<1>7. \A x \in Orders : node[x] # NoNode => node'[x] = node[x]
  BY <1>6
<1>8. \A x \in index : node'[x] = node[x] /\ remaining'[x] = remaining[x]
  BY <1>1, <1>3, <1>5, <1>7 DEF Known
<1>9. Current' = Current /\ Current.index = index
  BY <1>2 DEF Current
<1>10. BookOK(Current, node, remaining)'
  <2> DEFINE nd == node'
             rm == remaining'
  <2>1. \A x \in Current.index : nd[x] = node[x] /\ rm[x] = remaining[x]
    BY <1>8, <1>9
  <2> HIDE DEF nd, rm
  <2>2. BookOK(Current, nd, rm)
    BY <1>1, <2>1, BookAgrees
  <2> QED BY <1>9, <2>2 DEF nd, rm
<1>11. o \in Known'
  <2>1. spec # NoNode
    BY SpecIsNode
  <2> QED BY <1>6, <2>1 DEF Known
<1>12. Accounts'
  <2>1. \A x \in Orders : node'[x] = NoNode => filled'[x] = 0 /\ paid'[x] = 0
    <3>1. \A x \in Orders : node'[x] = NoNode => node[x] = NoNode
      BY <1>7
    <3> QED BY <1>1, <1>2, <3>1 DEF Accounts
  <2>2. taker' = NoOrder \/ (taker' \in Known' /\ taker' \notin index')
    BY <1>2, <1>3, <1>11
  <2>3. filled' \in [Orders -> Nat] /\ paid' \in [Orders -> Nat]
    BY <1>1, <1>2 DEF Accounts
  <2> QED BY <1>6, <2>1, <2>2, <2>3 DEF Accounts
<1>13. Uncrossed(index)'
  BY <1>1, <1>2, <1>8 DEF Uncrossed, Side, Price
<1>14. LimitRespected'
  <2> SUFFICES ASSUME NEW x \in Known', node'[x].price > 0
               PROVE  IF node'[x].side = "BUY" THEN paid[x] <= node'[x].price * filled[x]
                                               ELSE paid[x] >= node'[x].price * filled[x]
    BY <1>2 DEF LimitRespected, Side, Price
  <2>1. CASE x \in Known
    <3>1. node'[x] = node[x]
      BY <1>7, <2>1 DEF Known
    <3> QED BY <1>1, <2>1, <3>1 DEF LimitRespected, Side, Price
  <2>2. CASE x \notin Known
    <3>1. x \in Orders /\ node[x] = NoNode
      BY <2>2 DEF Known
    <3>2. filled[x] = 0 /\ paid[x] = 0
      BY <1>1, <3>1 DEF Accounts
    <3>3. x = o
      BY <1>6, <3>1 DEF Known
    <3>4. node'[x].price \in Nat
      BY <1>4, <1>6, <3>3
    <3> QED BY <3>2, <3>4
  <2> QED BY <2>1, <2>2
<1> QED BY <1>10, <1>12, <1>13, <1>14 DEF BookInv

\* An order leaves on its owner's request.
LEMMA CancelBook == ASSUME BookInv, NEW o \in Orders, CancelOrder(o) PROVE BookInv'
<1>1. Accounts /\ BookOK(Current, node, remaining) /\ Uncrossed(index) /\ LimitRespected
  BY DEF BookInv
<1>2. taker' = NoOrder /\ taker = NoOrder /\ node' = node /\ filled' = filled /\ paid' = paid
  BY DEF CancelOrder, history
<1>3. remaining \in [Orders -> Nat] /\ index \subseteq Orders
  BY <1>1 DEF Accounts, BookOK, Books, Current
<1>4. /\ BookOK(Current, node, remaining)' /\ index' \subseteq index
      /\ remaining' \in [Orders -> Nat]
  <2>1. CASE mode = "LIVE" /\ o \in index
    <3> DEFINE rm == remaining'
    <3>1. RemoveOrder(o) /\ rm = [remaining EXCEPT ![o] = 0]
      BY <2>1 DEF CancelOrder
    <3>2. \A x \in index \ {o} : rm[x] = remaining[x]
      BY <1>3, <3>1
    <3>3. rm \in [Orders -> Nat]
      BY <1>3, <3>1
    <3> HIDE DEF rm
    <3>4. BookOK(Current', node, rm) /\ index' = index \ {o}
      BY <1>1, <2>1, <3>1, <3>2, RemovedOK
    <3> QED BY <1>2, <3>3, <3>4 DEF rm
  <2>2. CASE ~(mode = "LIVE" /\ o \in index)
    <3>1. levels' = levels /\ sortedPrices' = sortedPrices /\ index' = index /\ remaining' = remaining
      BY <2>2 DEF CancelOrder, book
    <3>2. Current' = Current
      BY <3>1 DEF Current
    <3> QED BY <1>1, <1>2, <1>3, <3>1, <3>2
  <2> QED BY <2>1, <2>2
<1>5. Accounts'
  <2>1. Known' = Known
    BY <1>2 DEF Known
  <2> QED BY <1>1, <1>2, <1>4, <2>1 DEF Accounts
<1>6. Uncrossed(index)'
  BY <1>1, <1>2, <1>4 DEF Uncrossed, Side, Price
<1>7. LimitRespected'
  BY <1>1, <1>2 DEF LimitRespected, Known, Side, Price
<1> QED BY <1>4, <1>5, <1>6, <1>7 DEF BookInv

\* An accepted snapshot lists orders of the book, each once.
LEMMA AcceptedIs ==
  ASSUME BookOK(Current, node, remaining), Acceptable(Serialize)
  PROVE  Serialize \in Seq(Orders) /\ Unique(Serialize) /\ Elems(Serialize) \subseteq index
<1> DEFINE list == Serialize
<1>1. list \in Seq(index) /\ index \subseteq Orders
  BY SerializeIs DEF BookOK, Books, Current
<1>2. \A i, j \in DOMAIN list : i # j => list[i] # list[j]
  BY DEF Acceptable
<1> HIDE DEF list
<1>3. DOMAIN list = 1..Len(list) /\ Elems(list) \subseteq index
  BY <1>1 DEF Elems
<1>4. list \in Seq(Orders)
  BY <1>1, <1>3, SeqOfElems
<1>5. Unique(list)
  BY <1>2, <1>3 DEF Unique
<1> QED BY <1>3, <1>4, <1>5 DEF list

\* What an accepted snapshot restores is a book of the same orders.
LEMMA RestartBook == BookInv /\ Restart => BookInv'
<1> SUFFICES ASSUME BookInv, Restart PROVE BookInv'
  OBVIOUS
<1>1. /\ Accounts /\ BookOK(Current, node, remaining) /\ Uncrossed(index) /\ LimitRespected
      /\ index \subseteq Orders /\ Resting(index, node, remaining)
  BY DEF BookInv, BookOK, Books, Current
<1>2. /\ taker' = NoOrder /\ taker = NoOrder /\ node' = node /\ remaining' = remaining
      /\ filled' = filled /\ paid' = paid
  BY DEF Restart, history
<1>3. ASSUME NEW list, list \in Seq(Orders), Unique(list), Elems(list) \subseteq index, Restore(list)
      PROVE  BookOK(Current', node, remaining) /\ index' \subseteq index
  <2> DEFINE b == FoldLeft(Inserted, EmptyBook, list)
  <2>1. BookOK(b, node, remaining) /\ b.index = Elems(list)
    <3>1. Resting(Elems(list), node, remaining)
      BY <1>1, <1>3 DEF Resting
    <3> QED BY <1>3, <3>1, RestoredOK
  <2>2. levels' = b.levels /\ sortedPrices' = b.sortedPrices /\ index' = b.index
    BY <1>3 DEF Restore, Becomes
  <2> HIDE DEF b
  <2>3. Current' = b
    BY <2>1, <2>2 DEF Current, BookOK, Books
  <2> QED BY <1>3, <2>1, <2>2, <2>3
<1>4. BookOK(Current', node, remaining) /\ index' \subseteq index
  <2>1. CASE Acceptable(Serialize)
    <3>1. Serialize \in Seq(Orders) /\ Unique(Serialize) /\ Elems(Serialize) \subseteq index
      BY <1>1, <2>1, AcceptedIs
    <3>2. Restore(Serialize)
      BY <2>1 DEF Restart
    <3> QED BY <1>3, <3>1, <3>2
  <2>2. CASE ~Acceptable(Serialize)
    <3>1. Restore(<<>>)
      BY <2>2 DEF Restart
    <3>2. <<>> \in Seq(Orders)
      OBVIOUS
    <3>3. Unique(<<>>) /\ Elems(<<>>) = {}
      BY DEF Unique, Elems
    <3>4. Elems(<<>>) \subseteq index
      BY <3>3
    <3> QED BY <1>3, <3>1, <3>2, <3>3, <3>4
  <2> QED BY <2>1, <2>2
<1>5. BookOK(Current, node, remaining)'
  BY <1>2, <1>4
<1>6. Accounts'
  <2>1. Known' = Known
    BY <1>2 DEF Known
  <2> QED BY <1>1, <1>2, <2>1 DEF Accounts
<1>7. Uncrossed(index)'
  BY <1>1, <1>2, <1>4 DEF Uncrossed, Side, Price
<1>8. LimitRespected'
  BY <1>1, <1>2 DEF LimitRespected, Known, Side, Price
<1> QED BY <1>5, <1>6, <1>7, <1>8 DEF BookInv

LEMMA BookStart == BookInit => BookInv
<1> SUFFICES ASSUME BookInit PROVE BookInv
  OBVIOUS
<1>1. Current = EmptyBook /\ index = {}
  BY DEF BookInit, Current, EmptyBook
<1>2. BookOK(Current, node, remaining)
  BY <1>1, EmptyOK
<1>3. Accounts
  BY DEF BookInit, Accounts
<1>4. Known = {}
  BY DEF BookInit, Known
<1> QED BY <1>1, <1>2, <1>3, <1>4 DEF BookInv, Uncrossed, LimitRespected

LEMMA BookStep == BookInv /\ [BookNext]_bookVars => BookInv'
<1> SUFFICES ASSUME BookInv, [BookNext]_bookVars PROVE BookInv'
  OBVIOUS
<1>1. ASSUME NEW o \in Orders, NEW spec \in Specs, Submit(o, spec) PROVE BookInv'
  <2>1. node[o] = NoNode /\ OrderCreated(o, spec) /\ node' = [node EXCEPT ![o] = spec]
    BY <1>1 DEF Submit, Known
  <2> QED BY <2>1, CreatedBook
<1>2. ASSUME NEW o \in Orders, Redeliver(o) PROVE BookInv'
  <2>1. node[o] \in Specs /\ OrderCreated(o, node[o]) /\ node' = node
    BY <1>2, KnownAre DEF Redeliver, BookInv
  <2>2. node' = [node EXCEPT ![o] = node[o]]
    BY <2>1 DEF BookInv, Accounts
  <2> QED BY <2>1, <2>2, CreatedBook
<1>3. ASSUME NEW o \in Orders, CancelOrder(o) PROVE BookInv'
  BY <1>3, CancelBook
<1>4. CASE Fill
  BY <1>4, FillBook
<1>5. CASE Rest
  BY <1>5, RestBook
<1>6. CASE Finish
  BY <1>6, FinishBook
<1>7. CASE Restart
  BY <1>7, RestartBook
<1>8. CASE UNCHANGED bookVars
  BY <1>8 DEF bookVars, BookInv, Accounts, Known, Uncrossed, LimitRespected, Side, Price, Current
<1> QED BY <1>1, <1>2, <1>3, <1>4, <1>5, <1>6, <1>7, <1>8 DEF BookNext

LEMMA BookIsSound == BookInv => BookSound
<1> SUFFICES ASSUME BookInv PROVE BookSound
  OBVIOUS
<1>1. BookOK(Current, node, remaining) /\ Uncrossed(index) /\ LimitRespected
  BY DEF BookInv
<1>2. /\ levels \in [Sides -> [Prices -> Levels]] /\ sortedPrices \in [Sides -> Seq(Prices)]
      /\ Resting(index, node, remaining)
      /\ \A s \in Sides : /\ SideOK(s, sortedPrices[s], levels[s])
                          /\ \A p \in Prices : LevelOK(levels[s][p], Belong(index, node, s, p), remaining)
  BY <1>1 DEF BookOK, Books, Current
<1>3. \A S : \A q \in Seq(S) : DOMAIN q = 1..Len(q) /\ ToSet(q) = Elems(q)
  BY DEF ToSet, Elems
<1>4. ASSUME NEW s \in Sides
      PROVE  /\ \A i, j \in DOMAIN sortedPrices[s] :
                  i < j => Before(s, sortedPrices[s][i], sortedPrices[s][j])
             /\ ToSet(sortedPrices[s]) = {p \in Prices : levels[s][p].orders # <<>>}
  <2>1. sortedPrices[s] \in Seq(Prices) /\ SideOK(s, sortedPrices[s], levels[s])
    BY <1>2
  <2>2. DOMAIN sortedPrices[s] = 1..Len(sortedPrices[s]) /\ ToSet(sortedPrices[s]) = Elems(sortedPrices[s])
    BY <1>3, <2>1
  <2> QED BY <2>1, <2>2 DEF SideOK, Ordered
<1>5. ASSUME NEW s \in Sides, NEW p \in Prices
      PROVE  LET queue == ToSet(levels[s][p].orders)
             IN /\ queue = {o \in index : Side(o) = s /\ Price(o) = p}
                /\ Cardinality(queue) = Len(levels[s][p].orders)
                /\ levels[s][p].total = SumOver(queue, remaining)
  <2> DEFINE q == levels[s][p].orders
             Q == Belong(index, node, s, p)
  <2>1. levels[s][p] \in Levels /\ LevelOK(levels[s][p], Q, remaining)
    BY <1>2
  <2>2. q \in Seq(Orders) /\ Elems(q) = Q /\ Unique(q) /\ levels[s][p].total = Total(remaining, Q)
    BY <2>1 DEF LevelOK, Levels
  <2>3. Q = {o \in index : Side(o) = s /\ Price(o) = p}
    BY DEF Belong, Side, Price
  <2> HIDE DEF q, Q
  <2>4. ToSet(q) = Q
    BY <1>3, <2>2
  <2>5. Cardinality(Q) = Len(q) /\ IsFiniteSet(Q)
    BY <2>2, UniqueLength, ElemsFinite
  <2>6. SumOver(Q, remaining) = Total(remaining, Q)
    BY <2>5, FoldedIs DEF SumOver
  <2> QED BY <2>2, <2>3, <2>4, <2>5, <2>6 DEF q
<1>6. BookConsistent
  BY <1>2, <1>4, <1>5 DEF BookConsistent, Resting
<1>7. NotCrossed
  BY <1>1 DEF NotCrossed, Uncrossed
<1> QED BY <1>1, <1>6, <1>7 DEF BookSound

\* Whatever orders arrive, are cancelled, delivered again or restored, prices, levels, index and
\* totals describe one book, which is not crossed, and no order has traded beyond its limit
\* (matcher.go, orderbook, snapshot.go).
THEOREM BookStaysSound == BookSpec => []BookSound
<1>1. BookInit => BookInv
  BY BookStart
<1>2. BookInv /\ [BookNext]_bookVars => BookInv'
  BY BookStep
<1>3. BookInv => BookSound
  BY BookIsSound
<1> QED BY <1>1, <1>2, <1>3, PTL DEF BookSpec

-----------------------------------------------------------------------------
(***************************************************************************)
(* Priority.  The queues are in the order of arrival, the order in hand is *)
(* the last that arrived, and a snapshot restores the same queues.         *)
(***************************************************************************)
ArrivalOK ==
  /\ arrived \in Seq(Orders) /\ Unique(arrived) /\ index \subseteq Elems(arrived)
  /\ taker # NoOrder => /\ taker \in Elems(arrived)
                        /\ \A o \in Elems(arrived) \ {taker} : Precedes(o, taker, arrived)

QueueInv == BookInv /\ ArrivalOK /\ QueuedAs(Current, arrived) /\ sequence \in Nat

\* The levels say which orders are in the book.
LEMMA LevelsTell ==
  ASSUME NEW b, NEW c, NEW nd, NEW rm, NEW rn, BookOK(b, nd, rm), BookOK(c, nd, rn),
         b.levels = c.levels, NEW o \in b.index
  PROVE  o \in c.index
<1> DEFINE s == nd[o].side
           p == nd[o].price
<1>1. /\ s \in Sides /\ p \in Prices /\ o \in Belong(b.index, nd, s, p)
      /\ LevelOK(b.levels[s][p], Belong(b.index, nd, s, p), rm)
  BY InItsLevel
<1>2. LevelOK(c.levels[s][p], Belong(c.index, nd, s, p), rn)
  BY <1>1 DEF BookOK
<1> HIDE DEF s, p
<1>3. o \in Belong(c.index, nd, s, p)
  BY <1>1, <1>2 DEF LevelOK
<1> QED BY <1>3 DEF Belong

LEMMA LevelIs ==
  ASSUME BookOK(Current, node, remaining), NEW s \in Sides, NEW p \in Prices
  PROVE  /\ levels \in [Sides -> [Prices -> Levels]] /\ levels[s][p] \in Levels
         /\ levels[s][p].orders \in Seq(Orders) /\ Unique(levels[s][p].orders)
         /\ Elems(levels[s][p].orders) = Belong(index, node, s, p)
         /\ levels[s][p].total \in Int
         /\ levels[s][p].total = Total(remaining, Belong(index, node, s, p))
<1>1. levels \in [Sides -> [Prices -> Levels]] /\ LevelOK(levels[s][p], Belong(index, node, s, p), remaining)
  BY DEF BookOK, Books, Current
<1>2. levels[s][p] \in Levels
  BY <1>1
<1> QED BY <1>1, <1>2 DEF LevelOK, Levels

\* The book of an accepted snapshot has the levels of the book it was taken of.
LEMMA RestoredLevels ==
  ASSUME BookOK(Current, node, remaining), Acceptable(Serialize), Restore(Serialize)
  PROVE  levels' = levels
<1> DEFINE list == Serialize
           b == FoldLeft(Inserted, EmptyBook, list)
<1>1. list \in Seq(Orders) /\ Unique(list) /\ Elems(list) \subseteq index
  BY AcceptedIs
<1>2. \A s \in Sides, p \in Prices : Holds(list, levels[s][p].orders)
  BY SerializeIs
<1>3. Resting(index, node, remaining)
  BY DEF BookOK, Current
<1>4. levels' = b.levels
  BY DEF Restore, Becomes
<1> HIDE DEF list
<1>5. Elems(list) = index
  <2> SUFFICES ASSUME NEW o \in index PROVE o \in Elems(list)
    BY <1>1
  <2>1. /\ Side(o) \in Sides /\ Price(o) \in Prices
        /\ LevelOK(levels[Side(o)][Price(o)], Belong(index, node, Side(o), Price(o)), remaining)
        /\ o \in Belong(index, node, Side(o), Price(o))
    BY InItsLevel DEF Current, Side, Price
  <2>2. o \in Elems(levels[Side(o)][Price(o)].orders)
    BY <2>1 DEF LevelOK
  <2> QED BY <1>2, <2>1, <2>2 DEF Holds
<1>6. BookOK(b, node, remaining) /\ b.index = index /\ QueuedAs(b, list)
  <2>1. Resting(Elems(list), node, remaining)
    BY <1>3, <1>5
  <2> QED BY <1>1, <1>5, <2>1, RestoredOK
<1> HIDE DEF b
<1>7. ASSUME NEW s \in Sides, NEW p \in Prices PROVE b.levels[s][p] = levels[s][p]
  <2> DEFINE q == b.levels[s][p].orders
             r == levels[s][p].orders
             Q == Belong(index, node, s, p)
  <2>1. b.levels[s][p] \in Levels /\ LevelOK(b.levels[s][p], Q, remaining)
    BY <1>6 DEF BookOK, Books
  <2>2. q \in Seq(Orders) /\ Unique(q) /\ Elems(q) = Q /\ b.levels[s][p].total = Total(remaining, Q)
    BY <2>1 DEF LevelOK, Levels
  <2>3. levels[s][p] \in Levels /\ r \in Seq(Orders) /\ Unique(r) /\ Elems(r) = Q /\ levels[s][p].total = Total(remaining, Q)
    BY LevelIs
  <2>4. \A a, c : Precedes(a, c, q) => Precedes(a, c, list)
    BY <1>6 DEF QueuedAs
  <2>5. \A a, c : Precedes(a, c, r) => Precedes(a, c, list)
    BY <1>2 DEF Holds
  <2> HIDE DEF q, r, Q
  <2>6. ASSUME NEW a, NEW c, Precedes(a, c, q) PROVE Precedes(a, c, r)
    <3>1. a # c /\ a \in Elems(r) /\ c \in Elems(r)
      BY <2>2, <2>3, <2>6, PrecedesIn, PrecedesOther
    <3>2. Precedes(a, c, list) /\ a \in Elems(list) /\ c \in Elems(list)
      BY <2>4, <2>6, PrecedesIn
    <3>3. ~Precedes(c, a, list)
      BY <1>1, <3>1, <3>2, PrecedesOne
    <3>4. ~Precedes(c, a, r)
      BY <2>5, <3>3
    <3> QED BY <2>3, <3>1, <3>4, PrecedesOne
  <2>7. q = r
    BY <2>2, <2>3, <2>6, SameOrder
  <2>8. b.levels[s][p].orders = levels[s][p].orders /\ b.levels[s][p].total = levels[s][p].total
    BY <2>2, <2>3, <2>7 DEF q, r
  <2> QED BY <2>1, <2>3, <2>8 DEF Levels
<1>8. b.levels \in [Sides -> [Prices -> Levels]] /\ levels \in [Sides -> [Prices -> Levels]]
  BY <1>6 DEF BookOK, Books, Current
<1>9. b.levels = levels
  <2>1. \A s \in Sides : b.levels[s] = levels[s]
    <3> SUFFICES ASSUME NEW s \in Sides PROVE b.levels[s] = levels[s]
      OBVIOUS
    <3>1. b.levels[s] \in [Prices -> Levels] /\ levels[s] \in [Prices -> Levels]
      BY <1>8
    <3> QED BY <1>7, <3>1
  <2> QED BY <1>8, <2>1
<1> QED BY <1>4, <1>9

\* Who leaves the book leaves the others in their order.
LEMMA RemovedQueues ==
  ASSUME BookOK(Current, node, remaining), NEW o \in index, RemoveOrder(o), NEW list, QueuedAs(Current, list)
  PROVE  QueuedAs(Current, list)'
<1> SUFFICES ASSUME NEW s \in Sides, NEW p \in Prices, NEW a, NEW c,
                    Precedes(a, c, levels'[s][p].orders)
             PROVE  Precedes(a, c, levels[s][p].orders)
  BY DEF QueuedAs, Current
<1> DEFINE q == levels[s][p].orders
<1>1. Side(o) \in Sides /\ Price(o) \in Prices
  BY InItsLevel DEF Current, Side, Price
<1>2. levels \in [Sides -> [Prices -> Levels]] /\ q \in Seq(Orders) /\ Unique(q)
  BY LevelIs
<1>3. levels'[s][p].orders \in {q, <<>>, RemoveFirst(q, o)}
  <2> DEFINE rest == RemoveFirst(levels[Side(o)][Price(o)].orders, o)
             m == IF rest = <<>> THEN NoLevel
                  ELSE [orders |-> rest, total |-> levels[Side(o)][Price(o)].total - remaining[o]]
  <2>1. levels' = [levels EXCEPT ![Side(o)][Price(o)] = m]
    BY DEF RemoveOrder
  <2>2. m.orders \in {<<>>, rest}
    BY DEF NoLevel
  <2> HIDE DEF m
  <2>3. levels'[s][p] = levels[s][p] \/ (s = Side(o) /\ p = Price(o) /\ levels'[s][p] = m)
    BY <1>1, <1>2, <2>1
  <2> QED BY <2>2, <2>3
<1> HIDE DEF q
<1>4. ~Precedes(a, c, <<>>)
  BY DEF Precedes
<1>5. Precedes(a, c, RemoveFirst(q, o)) => Precedes(a, c, q)
  BY <1>2, WithoutOrder
<1> QED BY <1>3, <1>4, <1>5 DEF q

\* A partial fill leaves every order in its place.
LEMMA ReducedQueues ==
  ASSUME BookOK(Current, node, remaining), NEW o \in index, NEW qty \in Nat \ {0}, ReduceOrder(o, qty),
         NEW list, QueuedAs(Current, list)
  PROVE  QueuedAs(Current, list)' /\ levels' # levels
<1>1. Side(o) \in Sides /\ Price(o) \in Prices
  BY InItsLevel DEF Current, Side, Price
<1>2. levels \in [Sides -> [Prices -> Levels]]
  BY DEF BookOK, Books, Current
<1>3. levels' = [levels EXCEPT ![Side(o)][Price(o)].total = @ - qty]
  BY DEF ReduceOrder
<1>4. \A s \in Sides, p \in Prices : levels'[s][p].orders = levels[s][p].orders
  BY <1>1, <1>2, <1>3 DEF Levels
<1>5. levels'[Side(o)][Price(o)].total = levels[Side(o)][Price(o)].total - qty
  BY <1>1, <1>2, <1>3 DEF Levels
<1>6. levels[Side(o)][Price(o)].total \in Int
  BY <1>1, LevelIs
<1>7. levels[Side(o)][Price(o)].total - qty # levels[Side(o)][Price(o)].total
  BY <1>6
<1> QED BY <1>4, <1>5, <1>7 DEF QueuedAs, Current

-----------------------------------------------------------------------------
LEMMA QueueStart == BookInit => QueueInv
<1> SUFFICES ASSUME BookInit PROVE QueueInv
  OBVIOUS
<1>1. BookInv
  BY BookStart
<1>2. arrived = <<>> /\ index = {} /\ taker = NoOrder /\ sequence \in Nat
  BY DEF BookInit
<1>3. ArrivalOK
  <2>1. <<>> \in Seq(Orders)
    OBVIOUS
  <2> QED BY <1>2, <2>1 DEF ArrivalOK, Unique
<1>4. QueuedAs(Current, arrived)
  BY DEF BookInit, QueuedAs, Current, NoLevel, Precedes
<1> QED BY <1>1, <1>2, <1>3, <1>4 DEF QueueInv

\* A matched order is the last of those that arrived.
LEMMA CreatedQueues ==
  ASSUME QueueInv, NEW o \in Orders, NEW spec, OrderCreated(o, spec)
  PROVE  ArrivalOK' /\ QueuedAs(Current, arrived)'
<1>1. ArrivalOK /\ QueuedAs(Current, arrived) /\ BookOK(Current, node, remaining)
  BY DEF QueueInv, BookInv
<1>2. levels' = levels /\ sortedPrices' = sortedPrices /\ index' = index /\ taker = NoOrder
  BY DEF OrderCreated
<1>3. \/ taker' = taker /\ arrived' = arrived
      \/ o \notin index /\ taker' = o /\ arrived' = Append(RemoveFirst(arrived, o), o)
  BY DEF OrderCreated
<1>4. CASE taker' = taker /\ arrived' = arrived
  BY <1>1, <1>2, <1>4 DEF ArrivalOK, QueuedAs, Current
<1>5. CASE o \notin index /\ taker' = o /\ arrived' = Append(RemoveFirst(arrived, o), o)
  <2> DEFINE q == RemoveFirst(arrived, o)
             r == Append(q, o)
  <2>1. /\ q \in Seq(Orders) /\ Unique(q) /\ Elems(q) = Elems(arrived) \ {o}
        /\ \A a, b : Precedes(a, b, q) <=> Precedes(a, b, arrived) /\ a # o /\ b # o
    BY <1>1, WithoutOrder DEF ArrivalOK
  <2> HIDE DEF q
  <2>2. o \notin Elems(q)
    BY <2>1
  <2>3. r \in Seq(Orders) /\ Elems(r) = Elems(q) \cup {o} /\ Unique(r)
    BY <2>1, <2>2, AppendElems
  <2>4. \A a, b : Precedes(a, b, r) <=> Precedes(a, b, q) \/ (b = o /\ a \in Elems(q))
    BY <2>1, AppendOrder
  <2>5. arrived' = r
    BY <1>5 DEF q
  <2> HIDE DEF r
  <2>6. index \subseteq Elems(r)
    BY <1>1, <1>5, <2>1, <2>3 DEF ArrivalOK
  <2>7. \A x \in Elems(r) \ {o} : Precedes(x, o, r)
    BY <2>3, <2>4
  <2>8. ArrivalOK'
    BY <1>2, <1>5, <2>3, <2>5, <2>6, <2>7 DEF ArrivalOK
  <2>9. ASSUME NEW s \in Sides, NEW p \in Prices, NEW a, NEW c, Precedes(a, c, levels[s][p].orders)
        PROVE  Precedes(a, c, r)
    <3>1. a \in index /\ c \in index
      <4>1. /\ levels[s][p].orders \in Seq(Orders)
            /\ Elems(levels[s][p].orders) = Belong(index, node, s, p)
        BY <1>1, LevelIs
      <4>2. a \in Elems(levels[s][p].orders) /\ c \in Elems(levels[s][p].orders)
        BY <2>9, <4>1, PrecedesIn
      <4> QED BY <4>1, <4>2 DEF Belong
    <3>2. Precedes(a, c, arrived)
      BY <1>1, <2>9 DEF QueuedAs, Current
    <3> QED BY <1>5, <2>1, <2>4, <3>1, <3>2
  <2> QED BY <1>2, <2>5, <2>8, <2>9 DEF QueuedAs, Current
<1> QED BY <1>3, <1>4, <1>5

\* Orders that leave the book, or a book that is the same, disturb no queue.
LEMMA SameQueues ==
  ASSUME QueueInv, index' \subseteq index, arrived' = arrived, taker' \in {taker, NoOrder}
  PROVE  ArrivalOK'
  BY DEF QueueInv, ArrivalOK

LEMMA QueueStep == QueueInv /\ [BookNext]_bookVars => QueueInv'
<1> SUFFICES ASSUME QueueInv, [BookNext]_bookVars PROVE QueueInv'
  OBVIOUS
<1>1. /\ BookInv /\ BookInv' /\ BookOK(Current, node, remaining)
      /\ ArrivalOK /\ QueuedAs(Current, arrived) /\ sequence \in Nat
  BY BookStep DEF QueueInv, BookInv
<1> SUFFICES ArrivalOK' /\ QueuedAs(Current, arrived)' /\ sequence' \in Nat
  BY <1>1 DEF QueueInv
<1>2. ASSUME NEW o \in Orders, NEW spec \in Specs, Submit(o, spec)
      PROVE  ArrivalOK' /\ QueuedAs(Current, arrived)' /\ sequence' \in Nat
  <2>1. OrderCreated(o, spec)
    BY <1>2 DEF Submit
  <2> QED BY <1>1, <2>1, CreatedQueues DEF OrderCreated
<1>3. ASSUME NEW o \in Orders, Redeliver(o)
      PROVE  ArrivalOK' /\ QueuedAs(Current, arrived)' /\ sequence' \in Nat
  <2>1. OrderCreated(o, node[o])
    BY <1>3 DEF Redeliver
  <2> QED BY <1>1, <2>1, CreatedQueues DEF OrderCreated
<1>4. ASSUME NEW o \in Orders, CancelOrder(o)
      PROVE  ArrivalOK' /\ QueuedAs(Current, arrived)' /\ sequence' \in Nat
  <2>1. arrived' = arrived /\ taker' = taker
    BY <1>4 DEF CancelOrder, history
  <2>2. CASE mode = "LIVE" /\ o \in index
    <3>1. RemoveOrder(o) /\ index' = index \ {o} /\ sequence' = sequence + 1
      BY <1>4, <2>2 DEF CancelOrder, RemoveOrder
    <3> DEFINE list == arrived
    <3>2. QueuedAs(Current, list)
      BY <1>1
    <3>3. list' = list
      BY <2>1
    <3>4. QueuedAs(Current', arrived)
      <4>1. ASSUME NEW l, QueuedAs(Current, l) PROVE QueuedAs(Current', l)
        BY <1>1, <2>2, <3>1, <4>1, RemovedQueues
      <4> QED BY <1>1, <4>1
    <3> QED BY <1>1, <2>1, <3>1, <3>4, SameQueues
  <2>3. CASE ~(mode = "LIVE" /\ o \in index)
    <3>1. levels' = levels /\ index' = index /\ sequence' = sequence
      BY <1>4, <2>3 DEF CancelOrder, book
    <3> QED BY <1>1, <2>1, <3>1, SameQueues DEF QueuedAs, Current
  <2> QED BY <2>2, <2>3
<1>5. CASE Fill
  <2> DEFINE maker == ExecuteBest(Opposite(Side(taker)))
             qty == IF remaining[maker] < remaining[taker] THEN remaining[maker] ELSE remaining[taker]
  <2>1. /\ arrived' = arrived /\ taker' = taker /\ sequence' = sequence + 1
        /\ IF qty = remaining[maker] THEN RemoveOrder(maker) ELSE ReduceOrder(maker, qty)
        /\ taker \in Known /\ remaining[taker] > 0 /\ sortedPrices[Opposite(Side(taker))] # <<>>
    BY <1>1, <1>5 DEF Fill, CanFill, BookInv, Accounts
  <2>2. maker \in index /\ remaining[maker] \in Nat \ {0} /\ remaining[taker] \in Nat
    <3>1. Opposite(Side(taker)) \in Sides
      BY DEF Opposite, Sides
    <3>2. maker \in index
      BY <1>1, <2>1, <3>1, BestIs
    <3>3. taker \in Orders
      BY <2>1 DEF Known
    <3> QED BY <1>1, <3>2, <3>3, IndexIsKnown DEF BookInv, Accounts
  <2> HIDE DEF maker
  <2>3. qty \in Nat \ {0}
    BY <2>1, <2>2
  <2> HIDE DEF qty
  <2>4. index' \subseteq index /\ QueuedAs(Current', arrived)
    <3>1. ASSUME NEW l, QueuedAs(Current, l) PROVE QueuedAs(Current', l)
      BY <1>1, <2>1, <2>2, <2>3, <3>1, RemovedQueues, ReducedQueues
    <3>2. index' \subseteq index
      BY <2>1 DEF RemoveOrder, ReduceOrder
    <3> QED BY <1>1, <3>1, <3>2
  <2> QED BY <1>1, <2>1, <2>4, SameQueues
<1>6. CASE Rest
  <2>1. /\ arrived' = arrived /\ taker' = NoOrder /\ sequence' = sequence + 1 /\ taker # NoOrder
        /\ taker \in Known /\ taker \notin index
    BY <1>1, <1>6 DEF Rest, history, BookInv, Accounts
  <2>2. Becomes(Inserted(Current, taker))
    BY <1>6, <2>1 DEF Rest, InsertOrder
  <2>3. levels' = Inserted(Current, taker).levels /\ index' = index \cup {taker}
    BY <2>2 DEF Becomes, Inserted, Current
  <2>4. taker \in Orders /\ node[taker] \in Specs
    BY <1>1, <2>1, KnownAre DEF BookInv
  <2>5. ArrivalOK'
    BY <1>1, <2>1, <2>3 DEF ArrivalOK
  <2>6. ASSUME NEW s \in Sides, NEW p \in Prices, NEW a, NEW c,
               Precedes(a, c, Inserted(Current, taker).levels[s][p].orders)
        PROVE  Precedes(a, c, arrived)
    <3>1. Precedes(a, c, levels[s][p].orders) \/ (c = taker /\ a \in index)
      <4>1. Current.levels = levels /\ Current.index = index
        BY DEF Current
      <4> QED BY <1>1, <2>4, <2>6, <4>1, InsertedOrder
    <3>2. CASE Precedes(a, c, levels[s][p].orders)
      BY <1>1, <3>2 DEF QueuedAs, Current
    <3>3. CASE c = taker /\ a \in index
      BY <1>1, <2>1, <3>3 DEF ArrivalOK
    <3> QED BY <3>1, <3>2, <3>3
  <2> QED BY <1>1, <2>1, <2>3, <2>5, <2>6 DEF QueuedAs, Current
<1>7. CASE Finish
  <2>1. levels' = levels /\ index' = index /\ arrived' = arrived /\ taker' = NoOrder /\ sequence' = sequence
    BY <1>7 DEF Finish, history
  <2> QED BY <1>1, <2>1, SameQueues DEF QueuedAs, Current
<1>8. CASE Restart
  <2>1. arrived' = arrived /\ taker' = taker
    BY <1>8 DEF Restart, history
  <2>2. CASE Acceptable(Serialize)
    <3>1. Restore(Serialize) /\ sequence' = sequence
      BY <1>8, <2>2 DEF Restart
    <3>2. levels' = levels
      BY <1>1, <2>2, <3>1, RestoredLevels
    <3>3. index' \subseteq index
      <4>1. BookOK(Current, node, remaining)' /\ node' = node
        BY <1>1, <1>8 DEF BookInv, Restart
      <4> DEFINE b == Current'
                 rn == remaining'
      <4>2. BookOK(b, node, rn) /\ b.levels = Current.levels /\ b.index = index' /\ Current.index = index
        BY <3>2, <4>1 DEF Current
      <4> HIDE DEF b, rn
      <4>3. \A o \in b.index : o \in Current.index
        BY <1>1, <4>2, LevelsTell
      <4> QED BY <4>2, <4>3
    <3> QED BY <1>1, <2>1, <3>1, <3>2, <3>3, SameQueues DEF QueuedAs, Current
  <2>3. CASE ~Acceptable(Serialize)
    <3>1. Restore(<<>>) /\ sequence' = 0
      BY <1>8, <2>3 DEF Restart
    <3> DEFINE b == FoldLeft(Inserted, EmptyBook, <<>>)
    <3>2. b.index = {} /\ QueuedAs(b, <<>>)
      <4>1. <<>> \in Seq(Orders)
        OBVIOUS
      <4>2. Elems(<<>>) = {} /\ Unique(<<>>)
        BY DEF Elems, Unique
      <4>3. Resting(Elems(<<>>), node, remaining)
        BY <4>2 DEF Resting
      <4> QED BY <4>1, <4>2, <4>3, RestoredOK
    <3>3. levels' = b.levels /\ index' = b.index
      BY <3>1 DEF Restore, Becomes
    <3> HIDE DEF b
    <3>4. \A a, c : ~Precedes(a, c, <<>>)
      BY DEF Precedes
    <3>5. QueuedAs(Current, arrived)'
      BY <3>2, <3>3, <3>4 DEF QueuedAs, Current
    <3>6. index' \subseteq index
      BY <3>2, <3>3
    <3> QED BY <2>1, <3>1, <3>5, <3>6, SameQueues
  <2> QED BY <2>2, <2>3
<1>9. CASE UNCHANGED bookVars
  BY <1>1, <1>9 DEF bookVars, ArrivalOK, QueuedAs, Current
<1> QED BY <1>2, <1>3, <1>4, <1>5, <1>6, <1>7, <1>8, <1>9 DEF BookNext

\* What a fill does to the orders in the book.
LEMMA FillIs ==
  ASSUME QueueInv, Fill
  PROVE  /\ levels' # levels
         /\ \A x \in index : filled'[x] # filled[x] => x = ExecuteBest(Opposite(Side(taker)))
         /\ sortedPrices[Opposite(Side(taker))] # <<>>
<1> DEFINE s == Opposite(Side(taker))
           maker == ExecuteBest(s)
           qty == IF remaining[maker] < remaining[taker] THEN remaining[maker] ELSE remaining[taker]
<1>1. /\ BookInv /\ BookInv' /\ BookOK(Current, node, remaining)
      /\ taker \in Known /\ taker \notin index
  <2>1. BookInv'
    BY FillBook DEF QueueInv
  <2> QED BY <2>1 DEF QueueInv, BookInv, Accounts, Fill
<1>2. /\ IF qty = remaining[maker] THEN RemoveOrder(maker) ELSE ReduceOrder(maker, qty)
      /\ filled' = [filled EXCEPT ![maker] = @ + qty, ![taker] = @ + qty]
      /\ remaining[taker] > 0 /\ sortedPrices[s] # <<>> /\ node' = node
  BY DEF Fill, CanFill
<1>3. maker \in index /\ remaining[maker] \in Nat \ {0} /\ remaining[taker] \in Nat
  <2>1. s \in Sides
    BY DEF Opposite, Sides
  <2>2. maker \in index
    BY <1>1, <1>2, <2>1, BestIs
  <2>3. taker \in Orders
    BY <1>1 DEF Known
  <2> QED BY <1>1, <2>2, <2>3, IndexIsKnown DEF BookInv, Accounts
<1> HIDE DEF maker
<1>4. qty \in Nat \ {0}
  BY <1>2, <1>3
<1> HIDE DEF qty
<1>5. \A x \in index : filled'[x] # filled[x] => x = maker
  <2> SUFFICES ASSUME NEW x \in index, x # maker PROVE filled'[x] = filled[x]
    OBVIOUS
  <2>1. x # taker
    BY <1>1
  <2>2. filled \in [Orders -> Nat] /\ x \in Orders
    BY <1>1, IndexIsKnown DEF BookInv, Accounts, Known
  <2> QED BY <1>2, <2>1, <2>2
<1>6. levels' # levels
  <2>1. CASE qty = remaining[maker]
    <3> SUFFICES ASSUME levels' = levels PROVE FALSE
      OBVIOUS
    <3>1. index' = index \ {maker} /\ BookOK(Current, node, remaining)'
      BY <1>1, <1>2, <2>1 DEF RemoveOrder, BookInv
    <3> DEFINE b == Current'
               rn == remaining'
    <3>2. /\ BookOK(b, node, rn) /\ Current.levels = b.levels
          /\ b.index = index \ {maker} /\ Current.index = index
      BY <1>2, <3>1 DEF Current
    <3> HIDE DEF b, rn
    <3>3. \A o \in Current.index : o \in b.index
      BY <1>1, <3>2, LevelsTell
    <3> QED BY <1>3, <3>2, <3>3
  <2>2. CASE qty # remaining[maker]
    <3>1. \E l : QueuedAs(Current, l)
      BY DEF QueueInv
    <3> QED BY <1>1, <1>2, <1>3, <1>4, <2>2, <3>1, ReducedQueues
  <2> QED BY <2>1, <2>2
<1> QED BY <1>2, <1>5, <1>6 DEF maker

\* A maker is first in its queue, and its queue the best of its side.
LEMMA PriorityStep ==
  ASSUME QueueInv, [BookNext]_bookVars, NEW maker \in index, NEW other \in index,
         filled'[maker] > filled[maker], maker # other, Side(maker) = Side(other)
  PROVE  \/ Before(Side(maker), Price(maker), Price(other))
         \/ Price(maker) = Price(other) /\ ArrivedBefore(maker, other)
<1>1. /\ BookOK(Current, node, remaining) /\ Accounts /\ ArrivalOK /\ QueuedAs(Current, arrived)
      /\ maker \in Known /\ other \in Known
  BY IndexIsKnown DEF QueueInv, BookInv
<1>2. filled'[maker] # filled[maker]
  <2>1. filled[maker] \in Nat
    BY <1>1 DEF Accounts, Known
  <2> SUFFICES ASSUME filled'[maker] = filled[maker] PROVE FALSE
    OBVIOUS
  <2>2. ~(filled[maker] > filled[maker])
    BY <2>1
  <2> QED BY <2>2
<1>3. Fill
  <2>1. filled' # filled
    BY <1>2
  <2> QED BY <2>1 DEF BookNext, bookVars, Submit, Redeliver, OrderCreated, CancelOrder, Rest, Finish, Restart, history
<1> DEFINE s == Opposite(Side(taker))
<1>4. s \in Sides
  BY DEF Opposite, Sides
<1>5. maker = ExecuteBest(s) /\ sortedPrices[s] # <<>>
  BY <1>2, <1>3, FillIs
<1>6. /\ Side(maker) = s /\ Price(maker) = BestPrice(s)
      /\ Price(other) = BestPrice(s) \/ Before(s, BestPrice(s), Price(other))
  <2> HIDE DEF s
  <2> QED BY <1>1, <1>4, <1>5, BestIs
<1>7. ASSUME Price(other) = Price(maker) PROVE ArrivedBefore(maker, other)
  <2> DEFINE q == levels[s][Price(maker)].orders
  <2>1. Price(maker) \in Prices
    BY <1>1, KnownAre
  <2>2. q \in Seq(Orders) /\ Elems(q) = Belong(index, node, s, Price(maker))
    BY <1>1, <1>4, <2>1, LevelIs
  <2>3. other \in Elems(q)
    BY <1>6, <1>7, <2>2 DEF Belong, Side, Price
  <2>4. maker = Head(q)
    BY <1>5, <1>6 DEF ExecuteBest
  <2> HIDE DEF q
  <2>5. PICK j \in 1..Len(q) : q[j] = other
    BY <2>3 DEF Elems
  <2>6. 1 \in 1..Len(q) /\ q[1] = maker /\ Len(q) \in Nat
    <3>1. Len(q) \in Nat /\ q # <<>>
      BY <2>2, <2>3, NoElems
    <3> QED BY <2>2, <2>4, <2>5, <3>1
  <2>7. 1 < j
    <3>1. j # 1
      BY <2>5, <2>6
    <3> QED BY <2>6, <3>1
  <2>8. Precedes(maker, other, q)
    BY <2>5, <2>6, <2>7 DEF Precedes
  <2>9. Precedes(maker, other, arrived)
    BY <1>1, <1>4, <2>1, <2>8 DEF QueuedAs, Current, q
  <2>10. DOMAIN arrived = 1..Len(arrived)
    BY <1>1 DEF ArrivalOK
  <2> QED BY <2>9, <2>10 DEF ArrivedBefore, Precedes
<1> QED BY <1>6, <1>7

\* Every change of the levels, and nothing else, takes a sequence number.
LEMMA SequenceStep ==
  ASSUME QueueInv, [BookNext]_bookVars, mode' = "LIVE"
  PROVE  levels' # levels <=> sequence' = sequence + 1
<1>1. /\ BookInv /\ BookInv' /\ BookOK(Current, node, remaining) /\ sequence \in Nat
  BY BookStep DEF QueueInv, BookInv
<1>2. sequence # sequence + 1
  BY <1>1
<1>3. ASSUME levels' = levels, node' = node PROVE index' = index
  <2>1. BookOK(Current, node, remaining)'
    BY <1>1 DEF BookInv
  <2> DEFINE b == Current'
             rn == remaining'
  <2>2. /\ BookOK(b, node, rn) /\ Current.levels = b.levels
        /\ b.index = index' /\ Current.index = index
    BY <1>3, <2>1 DEF Current
  <2> HIDE DEF b, rn
  <2>3. \A o \in Current.index : o \in b.index
    BY <1>1, <2>2, LevelsTell
  <2>4. \A o \in b.index : o \in Current.index
    BY <1>1, <2>2, LevelsTell
  <2> QED BY <2>2, <2>3, <2>4
<1>4. ASSUME NEW o \in Orders, NEW spec \in Specs, Submit(o, spec) PROVE levels' = levels /\ sequence' = sequence
  BY <1>4 DEF Submit, OrderCreated
<1>5. ASSUME NEW o \in Orders, Redeliver(o) PROVE levels' = levels /\ sequence' = sequence
  BY <1>5 DEF Redeliver, OrderCreated
<1>6. ASSUME NEW o \in Orders, CancelOrder(o) PROVE levels' # levels <=> sequence' = sequence + 1
  <2>1. CASE mode = "LIVE" /\ o \in index
    <3>1. index' = index \ {o} /\ sequence' = sequence + 1 /\ node' = node
      BY <1>6, <2>1 DEF CancelOrder, RemoveOrder
    <3> QED BY <1>3, <2>1, <3>1
  <2>2. CASE ~(mode = "LIVE" /\ o \in index)
    <3>1. levels' = levels /\ sequence' = sequence
      BY <1>6, <2>2 DEF CancelOrder, book
    <3> QED BY <1>2, <3>1
  <2> QED BY <2>1, <2>2
<1>7. ASSUME Fill PROVE levels' # levels /\ sequence' = sequence + 1
  BY <1>7, FillIs DEF Fill
<1>8. ASSUME Rest PROVE levels' # levels /\ sequence' = sequence + 1
  <2>1. sequence' = sequence + 1 /\ node' = node /\ taker \notin index /\ InsertOrder(taker)
    BY <1>1, <1>8 DEF Rest, BookInv, Accounts
  <2>2. taker \in index'
    BY <2>1 DEF InsertOrder, Becomes, Inserted, Current
  <2> QED BY <1>3, <2>1, <2>2
<1>9. ASSUME Finish PROVE levels' = levels /\ sequence' = sequence
  BY <1>9 DEF Finish
<1>10. ASSUME Restart PROVE levels' = levels /\ sequence' = sequence
  <2>1. Acceptable(Serialize) /\ Restore(Serialize) /\ sequence' = sequence
    BY <1>10 DEF Restart
  <2> QED BY <1>1, <2>1, RestoredLevels
<1>11. ASSUME UNCHANGED bookVars PROVE levels' = levels /\ sequence' = sequence
  BY <1>11 DEF bookVars
<1> QED BY <1>2, <1>4, <1>5, <1>6, <1>7, <1>8, <1>9, <1>10, <1>11 DEF BookNext

\* An order in the book trades only when it is the best of its side and the first of its price;
\* each change of the book has a sequence number of its own, and what a restart restores is the
\* same book with the same number (matcher.go, snapshot.go).
THEOREM FillsStayInOrder == BookSpec => FillsInOrder
<1>1. BookInit => QueueInv
  BY QueueStart
<1>2. QueueInv /\ [BookNext]_bookVars => QueueInv'
  BY QueueStep
<1>3. QueueInv /\ [BookNext]_bookVars =>
        [\A maker \in index, other \in index :
           /\ filled'[maker] > filled[maker]
           /\ maker # other
           /\ Side(maker) = Side(other)
           => \/ Before(Side(maker), Price(maker), Price(other))
              \/ Price(maker) = Price(other) /\ ArrivedBefore(maker, other)]_bookVars
  BY PriorityStep
<1>4. QueueInv /\ [BookNext]_bookVars =>
        [mode' = "LIVE" => (levels' # levels <=> sequence' = sequence + 1)]_bookVars
  BY SequenceStep
<1> QED BY <1>1, <1>2, <1>3, <1>4, PTL DEF BookSpec, FillsInOrder, PriceTimePriority, SequenceTellsBooksApart
=============================================================================

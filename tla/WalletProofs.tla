---------------------------- MODULE WalletProofs ----------------------------
(***************************************************************************)
(* Theorems about Wallet for any accounts, orders, trades and amounts.     *)
(***************************************************************************)
EXTENDS Wallet, Sums, TLAPS

\* A row that was never written is the empty row, a consumed one has nothing
\* left, and the consumed and remaining amounts make up the reserved amount.
RowOK(o) ==
  /\ res[o].status = "NONE" => res[o].remaining = 0
  /\ res[o].status = "CONSUMED" => res[o].remaining = 0
  /\ res[o].consumed + res[o].remaining = res[o].amount

RowsOK == \A o \in Orders : RowOK(o)

\* A settlement is never in the ledger without its settled_trades row.
SettlementRegistered ==
  \A x \in ledger : x.type = "SETTLEMENT" => /\ x.ref \in TradeIds
                                             /\ settledSeq[x.ref] # 0

\* The inductive invariant.
IInv == TypeOK /\ RowsOK /\ SettlementRegistered

\* Flooring price x quantity to the quote asset gives a natural number.
LEMMA QuoteAmountNat ==
  ASSUME NEW r \in SettleReqs
  PROVE  /\ r \in SettleReq
         /\ r.price * r.qty \in Nat
         /\ QuoteAmount(r) \in Nat
<1>1. r \in SettleReq
  BY RequestAssumption
<1>2. r.price \in Nat /\ r.qty \in Nat
  BY <1>1 DEF SettleReq
<1>3. \A a, b \in Nat : a * b \in Nat
  OBVIOUS
<1>4. \A n \in Nat, k \in Nat \ {0} : n \div k \in Nat
  OBVIOUS
<1> QED
  BY <1>1, <1>2, <1>3, <1>4, AmountAssumption DEF QuoteAmount

\* A row built from a wallet, a known reference and a positive amount.
LEMMA RowType ==
  ASSUME NEW w \in Wallets, NEW ref \in Users \cup Orders \cup TradeIds \cup DepositIds,
         NEW type \in RefTypes, NEW dir \in {"CREDIT", "DEBIT"}, NEW n \in Nat \ {0}
  PROVE  /\ Row(w, ref, type, dir, n) \in LedgerRow
         /\ Row(w, ref, type, dir, n).type = type
  BY DEF Row, LedgerRow

\* Adding to or subtracting from one wallet keeps a column of balances.
LEMMA PlusType ==
  ASSUME NEW f \in [Wallets -> Nat], NEW w \in Wallets, NEW n \in Nat
  PROVE  /\ Plus(f, w, n) \in [Wallets -> Nat]
         /\ \A v \in Wallets : Plus(f, w, n)[v] = IF v = w THEN f[v] + n ELSE f[v]
  BY DEF Plus

\* A debit that the balance covers leaves a balance.
LEMMA MinusType ==
  ASSUME NEW f \in [Wallets -> Nat], NEW w \in Wallets, NEW n \in Nat, f[w] >= n
  PROVE  /\ Minus(f, w, n) \in [Wallets -> Nat]
         /\ \A v \in Wallets : Minus(f, w, n)[v] = IF v = w THEN f[v] - n ELSE f[v]
  BY DEF Minus

\* The initial state satisfies the invariant.
LEMMA InitInv == Init => IInv
<1> SUFFICES ASSUME Init PROVE IInv
  OBVIOUS
<1>1. \A w \in Wallets : w[1] \in Users /\ w[2] \in Assets
  BY DEF Wallets
<1>2. {MM} \X Assets \subseteq Wallets
  BY AccountAssumption DEF Wallets
<1>3. avail \in [Wallets -> Nat]
  BY <1>1, AmountAssumption DEF Init
<1>4. NoReservation \in Reservation
  BY AccountAssumption DEF NoReservation, Reservation, Assets
<1>5. ledger \subseteq LedgerRow
  <2> SUFFICES ASSUME NEW w \in {MM} \X Assets, MMSeed[w[2]] # 0
               PROVE Row(w, MM, "INITIAL_ALLOCATION", "CREDIT", MMSeed[w[2]]) \in LedgerRow
    BY DEF Init
  <2>1. MMSeed[w[2]] \in Nat \ {0}
    BY <1>1, <1>2, AmountAssumption
  <2> QED
    BY <1>2, <2>1, RowType, AccountAssumption DEF RefTypes
<1>6. reply \in [wallet : Wallets, balance : Nat]
  BY <1>2 DEF Init, Assets
<1>7. TypeOK
  BY <1>2, <1>3, <1>4, <1>5, <1>6 DEF Init, TypeOK
<1>8. RowsOK
  BY DEF Init, RowsOK, RowOK, NoReservation
<1>9. SettlementRegistered
  BY DEF Init, SettlementRegistered, Row
<1> QED
  BY <1>7, <1>8, <1>9 DEF IInv

\* What a settlement that passes its guards does to the reservations.
LEMMA SettleRows ==
  ASSUME IInv, NEW r \in SettleReqs, SettleTrade(r)
  PROVE  /\ res' \in [Orders -> Reservation]
         /\ RowsOK'
         /\ \A o \in Orders : res[o].status \in Terminal => res'[o] = res[o]
<1>1. r \in SettleReq /\ QuoteAmount(r) \in Nat /\ QuoteAmount(r) > 0
  BY QuoteAmountNat DEF SettleTrade
<1>2. r.qty \in Nat \ {0} /\ r.sellOrder \in Orders /\ r.buyOrder \in Orders
  BY <1>1 DEF SettleReq
<1>3. \A o \in Orders : res[o] \in Reservation
  BY DEF IInv, TypeOK
<1>4. ASSUME NEW o \in Orders, NEW n \in Nat \ {0}, res[o].remaining >= n,
             res[o].status \notin {"NONE", "RELEASED"}
      PROVE  /\ ConsumeRemaining(o, n) \in Reservation
             /\ ConsumeRemaining(o, n).consumed + ConsumeRemaining(o, n).remaining
                  = ConsumeRemaining(o, n).amount
             /\ ConsumeRemaining(o, n).status # "NONE"
             /\ ConsumeRemaining(o, n).status = "CONSUMED" =>
                  ConsumeRemaining(o, n).remaining = 0
             /\ res[o].status \notin Terminal
  <2> DEFINE c == ConsumeRemaining(o, n)
  <2>1. RowOK(o)
    BY DEF IInv, RowsOK
  <2>2. res[o] \in Reservation
    BY <1>3
  <2>3. /\ res[o].remaining \in Nat /\ res[o].consumed \in Nat /\ res[o].amount \in Nat
        /\ res[o].user \in Users /\ res[o].asset \in Assets
    BY <2>2 DEF Reservation
  <2>4. /\ c.consumed = res[o].consumed + n
        /\ c.remaining = res[o].remaining - n
        /\ c.amount = res[o].amount
        /\ c.status = IF res[o].remaining - n <= 0 THEN "CONSUMED" ELSE "PARTIALLY_CONSUMED"
    BY <2>2 DEF ConsumeRemaining, Reservation
  <2>5. c \in Reservation
    <3>1. res[o].consumed + n \in Nat /\ res[o].remaining - n \in Nat
      BY <1>4, <2>3
    <3> QED
      BY <2>2, <3>1 DEF ConsumeRemaining, Reservation, Terminal, Live
  <2> HIDE DEF c
  <2>6. c.consumed + c.remaining = c.amount
    BY <1>4, <2>1, <2>3, <2>4 DEF RowOK
  <2>7. c.status # "NONE" /\ (c.status = "CONSUMED" => c.remaining = 0)
    BY <1>4, <2>3, <2>4
  <2>8. res[o].status \notin Terminal
    BY <1>4, <2>1, <2>3 DEF RowOK, Terminal
  <2> QED
    BY <2>5, <2>6, <2>7, <2>8 DEF c
<1>5. /\ r.seller # MM => /\ res[r.sellOrder].remaining >= r.qty
                          /\ res[r.sellOrder].status \notin {"NONE", "RELEASED"}
      /\ r.buyer # MM => /\ res[r.buyOrder].remaining >= QuoteAmount(r)
                         /\ res[r.buyOrder].status \notin {"NONE", "RELEASED"}
  BY DEF SettleTrade, SettleReaches, ReservationsUsable, SideUsable, LegsCovered
<1>6. res' = [o \in Orders |->
                IF o = r.sellOrder /\ r.seller # MM THEN ConsumeRemaining(o, r.qty)
                ELSE IF o = r.buyOrder /\ r.buyer # MM
                     THEN ConsumeRemaining(o, QuoteAmount(r))
                ELSE res[o]]
  BY DEF SettleTrade, SettleLegs
<1>7. \A o \in Orders : /\ res'[o] \in Reservation
                        /\ RowOK(o)'
                        /\ res[o].status \in Terminal => res'[o] = res[o]
  <2> SUFFICES ASSUME NEW o \in Orders
               PROVE  /\ res'[o] \in Reservation
                      /\ RowOK(o)'
                      /\ res[o].status \in Terminal => res'[o] = res[o]
    OBVIOUS
  <2>1. CASE o = r.sellOrder /\ r.seller # MM
    <3>1. res'[o] = ConsumeRemaining(o, r.qty)
      BY <1>6, <2>1
    <3> QED
      BY <3>1, <1>2, <1>4, <1>5, <2>1 DEF RowOK
  <2>2. CASE ~(o = r.sellOrder /\ r.seller # MM) /\ o = r.buyOrder /\ r.buyer # MM
    <3>1. res'[o] = ConsumeRemaining(o, QuoteAmount(r))
      BY <1>6, <2>2
    <3>2. QuoteAmount(r) \in Nat \ {0}
      BY <1>1
    <3> QED
      BY <3>1, <3>2, <1>2, <1>4, <1>5, <2>2 DEF RowOK
  <2>3. CASE ~(o = r.sellOrder /\ r.seller # MM) /\ ~(o = r.buyOrder /\ r.buyer # MM)
    <3>1. res'[o] = res[o]
      BY <1>6, <2>3
    <3> QED
      BY <3>1, <1>3 DEF RowOK, IInv, RowsOK
  <2> QED
    BY <2>1, <2>2, <2>3
<1> QED
  BY <1>6, <1>7 DEF RowsOK

\* The four wallets of a settlement are different rows.
LEMMA FourDistinct ==
  ASSUME NEW r \in SettleReqs, ~InvalidSettlement(r)
  PROVE  /\ SellerBase(r) \in Wallets /\ BuyerBase(r) \in Wallets
         /\ BuyerQuote(r) \in Wallets /\ SellerQuote(r) \in Wallets
         /\ SellerBase(r) # BuyerBase(r) /\ SellerBase(r) # BuyerQuote(r)
         /\ SellerBase(r) # SellerQuote(r) /\ BuyerBase(r) # BuyerQuote(r)
         /\ BuyerBase(r) # SellerQuote(r) /\ BuyerQuote(r) # SellerQuote(r)
  BY QuoteAmountNat, AccountAssumption
     DEF SettleReq, InvalidSettlement, SellerBase, BuyerBase, BuyerQuote,
         SellerQuote, Wallets, Assets

\* What a settlement does to the balances: one leg per asset.
LEMMA SettleBalances ==
  ASSUME IInv, NEW r \in SettleReqs, SettleTrade(r)
  PROVE  /\ avail' \in [Wallets -> Nat]
         /\ resvd' \in [Wallets -> Nat]
         /\ \A w \in Wallets :
              resvd'[w] = resvd[w]
                - (IF w = SellerBase(r) /\ r.seller # MM THEN r.qty ELSE 0)
                - (IF w = BuyerQuote(r) /\ r.buyer # MM THEN QuoteAmount(r) ELSE 0)
<1> DEFINE q == QuoteAmount(r)
           credited == Plus(Plus(avail, BuyerBase(r), r.qty), SellerQuote(r), q)
<1>1. r \in SettleReq /\ q \in Nat /\ q > 0 /\ r.qty \in Nat
  BY QuoteAmountNat DEF SettleTrade, SettleReq
<1>2. ~InvalidSettlement(r) /\ LegsCovered(r)
  BY DEF SettleTrade, SettleReaches
<1>3. avail \in [Wallets -> Nat] /\ resvd \in [Wallets -> Nat]
  BY DEF IInv, TypeOK
<1>4. ~(r.seller = MM /\ r.buyer = MM)
  BY <1>2 DEF InvalidSettlement
<1>5. /\ credited \in [Wallets -> Nat]
      /\ credited[SellerBase(r)] = avail[SellerBase(r)]
      /\ credited[BuyerQuote(r)] = avail[BuyerQuote(r)]
  <2>1. /\ SellerQuote(r) \in Wallets /\ SellerBase(r) \in Wallets
        /\ BuyerQuote(r) \in Wallets /\ BuyerBase(r) \in Wallets
        /\ SellerBase(r) # SellerQuote(r) /\ BuyerQuote(r) # SellerQuote(r)
        /\ SellerBase(r) # BuyerBase(r) /\ BuyerQuote(r) # BuyerBase(r)
    BY <1>2, FourDistinct
  <2> HIDE DEF q
  <2> QED
    BY <1>1, <1>3, <2>1 DEF Plus
<1> HIDE DEF q, credited
<1>7. CASE r.seller = MM
  <2>1. /\ avail' = Minus(credited, SellerBase(r), r.qty)
        /\ resvd' = Minus(resvd, BuyerQuote(r), q)
    BY <1>7 DEF SettleTrade, SettleLegs, q, credited
  <2>2. avail[SellerBase(r)] >= r.qty /\ resvd[BuyerQuote(r)] >= q
    BY <1>2, <1>4, <1>7 DEF LegsCovered, q
  <2>3. SellerBase(r) \in Wallets /\ BuyerQuote(r) \in Wallets
    BY <1>2, FourDistinct
  <2>4. /\ avail' \in [Wallets -> Nat] /\ resvd' \in [Wallets -> Nat]
        /\ \A w \in Wallets : resvd'[w] = IF w = BuyerQuote(r) THEN resvd[w] - q ELSE resvd[w]
    BY <1>1, <1>3, <1>5, <2>1, <2>2, <2>3, MinusType
  <2> QED
    BY <2>4, <1>1, <1>3, <1>4, <1>7 DEF q
<1>8. CASE r.buyer = MM
  <2>1. /\ avail' = Minus(credited, BuyerQuote(r), q)
        /\ resvd' = Minus(resvd, SellerBase(r), r.qty)
    BY <1>4, <1>8 DEF SettleTrade, SettleLegs, q, credited
  <2>2. avail[BuyerQuote(r)] >= q /\ resvd[SellerBase(r)] >= r.qty
    BY <1>2, <1>4, <1>8 DEF LegsCovered, q
  <2>3. SellerBase(r) \in Wallets /\ BuyerQuote(r) \in Wallets
    BY <1>2, FourDistinct
  <2>4. /\ avail' \in [Wallets -> Nat] /\ resvd' \in [Wallets -> Nat]
        /\ \A w \in Wallets : resvd'[w] = IF w = SellerBase(r) THEN resvd[w] - r.qty ELSE resvd[w]
    BY <1>1, <1>3, <1>5, <2>1, <2>2, <2>3, MinusType
  <2> QED
    BY <2>4, <1>1, <1>3, <1>4, <1>8 DEF q
<1>9. CASE r.seller # MM /\ r.buyer # MM
  <2> DEFINE once == Minus(resvd, SellerBase(r), r.qty)
  <2>1. /\ avail' = credited
        /\ resvd' = Minus(once, BuyerQuote(r), q)
    BY <1>9 DEF SettleTrade, SettleLegs, q, credited
  <2>2. resvd[SellerBase(r)] >= r.qty /\ resvd[BuyerQuote(r)] >= q
    BY <1>2, <1>9 DEF LegsCovered, q
  <2>3. /\ SellerBase(r) \in Wallets /\ BuyerQuote(r) \in Wallets
        /\ SellerBase(r) # BuyerQuote(r)
    BY <1>2, FourDistinct
  <2>4. /\ once \in [Wallets -> Nat]
        /\ \A w \in Wallets : once[w] = IF w = SellerBase(r) THEN resvd[w] - r.qty ELSE resvd[w]
    BY <1>1, <1>3, <2>2, <2>3, MinusType
  <2>5. once[BuyerQuote(r)] >= q
    BY <2>2, <2>3, <2>4
  <2> HIDE DEF once
  <2>6. /\ resvd' \in [Wallets -> Nat]
        /\ \A w \in Wallets : resvd'[w] = IF w = BuyerQuote(r) THEN once[w] - q ELSE once[w]
    BY <1>1, <2>1, <2>3, <2>4, <2>5, MinusType
  <2> QED
    BY <2>1, <2>3, <2>4, <2>6, <1>1, <1>3, <1>5, <1>9 DEF q
<1> QED
  BY <1>7, <1>8, <1>9

\* A settlement writes rows of its own trade, which it has just registered.
LEMMA SettleLedger ==
  ASSUME IInv, NEW r \in SettleReqs, SettleTrade(r)
  PROVE  ledger' \subseteq LedgerRow /\ SettlementRegistered'
<1>1. /\ r.id \in TradeIds /\ r.seq \in Nat \ {0} /\ r.qty \in Nat \ {0}
      /\ QuoteAmount(r) \in Nat \ {0} /\ ~InvalidSettlement(r)
  BY QuoteAmountNat DEF SettleTrade, SettleReaches, SettleReq, InvalidSettlement
<1>2. SettlementRows(r) \subseteq LedgerRow
  BY <1>1, FourDistinct DEF SettlementRows, LedgerRow, Row, RefTypes
<1>3. \A x \in SettlementRows(r) : x.ref = r.id
  BY DEF SettlementRows, Row
<1>4. settledSeq' = [settledSeq EXCEPT ![r.id] = r.seq] /\ ledger' = ledger \cup SettlementRows(r)
  BY DEF SettleTrade
<1>5. settledSeq \in [TradeIds -> Nat] /\ ledger \subseteq LedgerRow
  BY DEF IInv, TypeOK
<1>6. ASSUME NEW x \in ledger', x.type = "SETTLEMENT"
      PROVE  x.ref \in TradeIds /\ settledSeq'[x.ref] # 0
  <2>1. x \in SettlementRows(r) \/ (x.ref \in TradeIds /\ settledSeq[x.ref] # 0)
    BY <1>4, <1>6 DEF IInv, SettlementRegistered
  <2> QED
    BY <2>1, <1>1, <1>3, <1>4, <1>5
<1> QED
  BY <1>2, <1>4, <1>5, <1>6 DEF SettlementRegistered

\* A step that adds ledger rows of other types than SETTLEMENT only.
LEMMA OtherRows ==
  ASSUME IInv, NEW S \in SUBSET LedgerRow, \A x \in S : x.type # "SETTLEMENT",
         ledger' = ledger \cup S, settledSeq' = settledSeq
  PROVE  ledger' \subseteq LedgerRow /\ SettlementRegistered'
  BY DEF IInv, TypeOK, SettlementRegistered

\* A ledger row that is no settlement leaves the register of settlements alone.
LEMMA OneRow ==
  ASSUME IInv, NEW x \in LedgerRow, x.type # "SETTLEMENT",
         ledger' = ledger \cup {x}, settledSeq' = settledSeq
  PROVE  ledger' \subseteq LedgerRow /\ SettlementRegistered'
  BY DEF IInv, TypeOK, SettlementRegistered

\* Every step preserves the invariant.
LEMMA StepInv == IInv /\ [Next]_vars => IInv'
<1> SUFFICES ASSUME IInv, [Next]_vars PROVE IInv'
  OBVIOUS
<1> USE DEF IInv
<1>T. /\ avail \in [Wallets -> Nat] /\ resvd \in [Wallets -> Nat]
      /\ opened \subseteq Wallets /\ frozen \subseteq opened
      /\ res \in [Orders -> Reservation] /\ settledSeq \in [TradeIds -> Nat]
      /\ ledger \subseteq LedgerRow /\ outbox \subseteq TradeIds \X Events
      /\ reserving \subseteq [req : ReserveReqs, frozen : BOOLEAN]
      /\ depositing \subseteq [req : DepositReqs, seen : Nat]
      /\ reply \in [wallet : Wallets, balance : Nat]
  BY DEF TypeOK
<1>1. ASSUME NEW u \in Users, InitializeWallet(u) PROVE IInv'
  <2> DEFINE new == {w \in {u} \X Assets : w \notin opened}
             rows == {Row(w, u, "INITIAL_ALLOCATION", "CREDIT", Seed[w[2]]) :
                        w \in {x \in new : Seed[x[2]] # 0}}
  <2>1. new \subseteq Wallets /\ \A w \in Wallets : w[2] \in Assets
    BY DEF Wallets
  <2>2. avail' \in [Wallets -> Nat]
    BY <1>1, <1>T, <2>1, AmountAssumption DEF InitializeWallet
  <2>3. ASSUME NEW w \in new, Seed[w[2]] # 0
        PROVE Row(w, u, "INITIAL_ALLOCATION", "CREDIT", Seed[w[2]]) \in LedgerRow
    <3>1. Seed[w[2]] \in Nat \ {0}
      BY <2>1, <2>3, AmountAssumption
    <3>2. w \in Wallets
      BY <2>1
    <3> QED
      BY <3>1, <3>2, RowType DEF RefTypes
  <2>4. rows \subseteq LedgerRow /\ \A x \in rows : x.type # "SETTLEMENT"
    BY <2>3 DEF Row
  <2>5. ledger' \subseteq LedgerRow /\ SettlementRegistered'
    BY <1>1, <2>4, OtherRows DEF InitializeWallet
  <2> QED
    BY <1>1, <1>T, <2>1, <2>2, <2>5 DEF InitializeWallet, TypeOK, RowsOK, RowOK, calls
<1>2. ASSUME NEW c \in ReserveReqs, ReserveBegin(c) PROVE IInv'
  <2>1. PICK b \in BOOLEAN : reserving' = reserving \cup {[req |-> c, frozen |-> b]}
    <3>1. (<<c.user, c.asset>> \in frozen) \in BOOLEAN
      OBVIOUS
    <3> QED
      BY <1>2, <3>1, Zenon DEF ReserveBegin
  <2>2. reserving' \subseteq [req : ReserveReqs, frozen : BOOLEAN]
    BY <1>T, <2>1
  <2> QED
    BY <1>2, <1>T, <2>2 DEF ReserveBegin, TypeOK, RowsOK, RowOK, SettlementRegistered, balances
<1>3. ASSUME NEW c \in reserving, ReserveCommit(c) PROVE IInv'
  <2> DEFINE q == c.req
             w == <<q.user, q.asset>>
             row == [status |-> "ACTIVE", user |-> q.user, asset |-> q.asset,
                     amount |-> q.amount, consumed |-> 0, remaining |-> q.amount]
  <2>1. /\ q.user \in Users /\ q.asset \in Assets /\ q.order \in Orders
        /\ q.amount \in Nat \ {0} /\ w \in Wallets
    BY <1>T, RequestAssumption DEF ReserveReq, Wallets
  <2>2. avail' \in [Wallets -> Nat] /\ resvd' \in [Wallets -> Nat]
    <3>1. /\ avail[w] >= q.amount
          /\ avail' = Minus(avail, w, q.amount) /\ resvd' = Plus(resvd, w, q.amount)
      BY <1>3 DEF ReserveCommit, MoveToReserved
    <3>2. \A v \in Wallets, n \in Nat : avail[v] >= n => Minus(avail, v, n) \in [Wallets -> Nat]
      BY <1>T DEF Minus
    <3>3. \A v \in Wallets, n \in Nat : Plus(resvd, v, n) \in [Wallets -> Nat]
      BY <1>T DEF Plus
    <3> QED BY <2>1, <3>1, <3>2, <3>3
  <2>3. row \in Reservation
    BY <2>1 DEF Reservation, Live
  <2>4. res' = [res EXCEPT ![q.order] = row]
    BY <1>3 DEF ReserveCommit
  <2>5. res' \in [Orders -> Reservation] /\ RowsOK'
    BY <1>T, <2>1, <2>3, <2>4 DEF RowsOK, RowOK
  <2>6. ledger' = ledger \cup {Row(w, q.order, "RESERVATION", "DEBIT", q.amount)}
    BY <1>3 DEF ReserveCommit
  <2>7. /\ Row(w, q.order, "RESERVATION", "DEBIT", q.amount) \in LedgerRow
        /\ Row(w, q.order, "RESERVATION", "DEBIT", q.amount).type = "RESERVATION"
    BY <2>1, RowType DEF RefTypes
  <2>8. ledger' \subseteq LedgerRow /\ SettlementRegistered'
    BY <1>3, <2>6, <2>7, OneRow DEF ReserveCommit
  <2> QED
    BY <1>3, <1>T, <2>2, <2>5, <2>8 DEF ReserveCommit, TypeOK
<1>4. ASSUME NEW c \in reserving, ReserveRefuse(c) PROVE IInv'
  BY <1>4, <1>T DEF ReserveRefuse, TypeOK, RowsOK, RowOK, SettlementRegistered, balances
<1>5. ASSUME NEW o \in Orders, ReleaseFunds(o) PROVE IInv'
  <2> DEFINE w == ReservationWallet(o)
             n == res[o].remaining
  <2>1. res[o] \in Reservation /\ n \in Nat /\ w \in Wallets
    BY <1>T DEF Reservation, ReservationWallet, Wallets
  <2>2. res' = [res EXCEPT ![o].status = "RELEASED"]
    BY <1>5 DEF ReleaseFunds
  <2>3. res' \in [Orders -> Reservation] /\ RowsOK'
    BY <1>T, <2>1, <2>2 DEF RowsOK, RowOK, Reservation, Terminal
  <2>4. /\ avail' \in [Wallets -> Nat] /\ resvd' \in [Wallets -> Nat]
        /\ ledger' \subseteq LedgerRow /\ SettlementRegistered'
    <3>1. CASE n <= 0
      BY <1>5, <1>T, <2>1, <3>1 DEF ReleaseFunds, balances, SettlementRegistered
    <3>2. CASE n > 0
      <4>1. avail' \in [Wallets -> Nat] /\ resvd' \in [Wallets -> Nat]
        <5>1. MoveFromReserved(w, n)
          BY <1>5, <2>1, <3>2 DEF ReleaseFunds
        <5> HIDE DEF w, n
        <5> QED
          BY <1>T, <2>1, <5>1, PlusType, MinusType DEF MoveFromReserved
      <4>2. ledger' = ledger \cup {Row(w, o, "RELEASE", "CREDIT", n)}
        BY <1>5, <2>1, <3>2 DEF ReleaseFunds
      <4>3. /\ Row(w, o, "RELEASE", "CREDIT", n) \in LedgerRow
            /\ Row(w, o, "RELEASE", "CREDIT", n).type = "RELEASE"
        BY <2>1, <3>2, RowType DEF RefTypes
      <4> QED
        BY <1>5, <4>1, <4>2, <4>3, OneRow DEF ReleaseFunds
    <3> QED
      BY <2>1, <3>1, <3>2
  <2> QED
    BY <1>5, <1>T, <2>3, <2>4 DEF ReleaseFunds, TypeOK, calls
<1>6. ASSUME NEW r \in SettleReqs, SettleTrade(r) PROVE IInv'
  <2>1. r.id \in TradeIds /\ r.seq \in Nat
    BY QuoteAmountNat DEF SettleReq
  <2>2. settledSeq' \in [TradeIds -> Nat] /\ outbox' \subseteq TradeIds \X Events
    BY <1>6, <1>T, <2>1 DEF SettleTrade
  <2> QED
    BY <1>6, <1>T, <2>2, SettleRows, SettleBalances, SettleLedger DEF SettleTrade, TypeOK, calls
<1>7. ASSUME NEW c \in DepositReqs, DepositBegin(c) PROVE IInv'
  <2>1. <<c.user, c.asset>> \in Wallets
    BY RequestAssumption DEF DepositReq, Wallets
  <2> QED
    BY <1>7, <1>T, <2>1 DEF DepositBegin, TypeOK, RowsOK, RowOK, SettlementRegistered, balances
<1>8. ASSUME NEW c \in depositing, DepositCommit(c) PROVE IInv'
  <2> DEFINE q == c.req
             w == <<q.user, q.asset>>
  <2>1. w \in Wallets /\ q.amount \in Nat \ {0} /\ q.ref \in DepositIds /\ c.seen \in Nat
    BY <1>T, RequestAssumption DEF DepositReq, Wallets
  <2>2. avail' \in [Wallets -> Nat]
    <3>1. avail' = Plus(avail, w, q.amount)
      BY <1>8 DEF DepositCommit
    <3>2. \A v \in Wallets, n \in Nat : Plus(avail, v, n) \in [Wallets -> Nat]
      BY <1>T DEF Plus
    <3> QED BY <2>1, <3>1, <3>2
  <2>3. ledger' = ledger \cup {Row(w, q.ref, "TOPUP", "CREDIT", q.amount)}
    BY <1>8 DEF DepositCommit
  <2>4. /\ Row(w, q.ref, "TOPUP", "CREDIT", q.amount) \in LedgerRow
        /\ Row(w, q.ref, "TOPUP", "CREDIT", q.amount).type = "TOPUP"
    BY <2>1, RowType DEF RefTypes
  <2>5. ledger' \subseteq LedgerRow /\ SettlementRegistered'
    BY <1>8, <2>3, <2>4, OneRow DEF DepositCommit
  <2>6. reply' \in [wallet : Wallets, balance : Nat]
    BY <1>8, <2>1 DEF DepositCommit
  <2> QED
    BY <1>8, <1>T, <2>2, <2>5, <2>6 DEF DepositCommit, TypeOK, RowsOK, RowOK
<1>9. ASSUME NEW c \in depositing, DepositRefuse(c) PROVE IInv'
  <2>1. <<c.req.user, c.req.asset>> \in Wallets
    BY <1>T, RequestAssumption DEF DepositReq, Wallets
  <2>2. reply' \in [wallet : Wallets, balance : Nat]
    BY <1>9, <1>T, <2>1 DEF DepositRefuse
  <2> QED
    BY <1>9, <1>T, <2>2 DEF DepositRefuse, TypeOK, RowsOK, RowOK, SettlementRegistered, balances
<1>10. ASSUME NEW w \in FreezeReqs, FreezeWallet(w) PROVE IInv'
  BY <1>10, <1>T, RequestAssumption
     DEF FreezeWallet, TypeOK, RowsOK, RowOK, SettlementRegistered, balances, calls
<1>11. CASE UNCHANGED vars
  BY <1>11, <1>T DEF vars, TypeOK, RowsOK, RowOK, SettlementRegistered
<1> QED
  BY <1>1, <1>2, <1>3, <1>4, <1>5, <1>6, <1>7, <1>8, <1>9, <1>10, <1>11 DEF Next

\* The inductive invariant holds in every reachable state.
THEOREM Invariance == Spec => []IInv
<1> QED
  BY InitInv, StepInv, PTL DEF Spec

\* For any accounts, orders and amounts no column of the wallet database ever
\* leaves its type: the WHERE guards keep every balance non-negative.
THEOREM TypeCorrect == Spec => []TypeOK
<1>1. IInv => TypeOK
  BY DEF IInv
<1> QED
  BY <1>1, Invariance, PTL

\* SettleTrade never takes its "duplicate" exit that answers success for a
\* transaction it rolls back.
THEOREM SuccessIsReal == Spec => []SuccessMeansSettled
<1>1. IInv => SuccessMeansSettled
  <2> SUFFICES ASSUME IInv, NEW r \in SettleReqs, SettleReaches(r), LedgerDuplicate(r)
               PROVE FALSE
    BY DEF SuccessMeansSettled
  <2>1. PICK w \in FourWallets(r), x \in ledger : x.ref = r.id /\ x.type = "SETTLEMENT"
    BY DEF LedgerDuplicate, HasRow
  <2> QED
    BY <2>1 DEF IInv, SettlementRegistered, SettleReaches
<1> QED
  BY <1>1, Invariance, PTL

\* A released or consumed reservation is never written again.
THEOREM TerminalStays == Spec => TerminalIsFinal
<1>1. IInv /\ [Next]_vars => [\A o \in Orders : res[o].status \in Terminal => res'[o] = res[o]]_vars
  <2> SUFFICES ASSUME IInv, Next, NEW o \in Orders, res[o].status \in Terminal
               PROVE  res'[o] = res[o]
    OBVIOUS
  <2>T. res \in [Orders -> Reservation]
    BY DEF IInv, TypeOK
  <2>1. ASSUME NEW c \in reserving, ReserveCommit(c) PROVE res'[o] = res[o]
    BY <2>1, <2>T DEF ReserveCommit, Terminal
  <2>2. ASSUME NEW p \in Orders, ReleaseFunds(p) PROVE res'[o] = res[o]
    BY <2>2, <2>T DEF ReleaseFunds, Terminal, Live
  <2>3. ASSUME NEW r \in SettleReqs, SettleTrade(r) PROVE res'[o] = res[o]
    BY <2>3, SettleRows
  <2>4. CASE UNCHANGED res
    BY <2>4
  <2> QED
    BY <2>1, <2>2, <2>3, <2>4
       DEF Next, InitializeWallet, ReserveBegin, ReserveRefuse, DepositBegin,
           DepositCommit, DepositRefuse, FreezeWallet
<1> QED
  BY <1>1, Invariance, PTL DEF Spec, TerminalIsFinal

\* A step that leaves the reservations and the reserved balances alone.
LEMMA NothingHeldMoves ==
  ASSUME UNCHANGED <<resvd, res>>
  PROVE  \A w \in Wallets : WalletMovesWithOrder(w)
  BY DEF WalletMovesWithOrder, HeldNext, Held

\* The reserved balance of a wallet moves with what one of its orders holds.
LEMMA ReservedStep ==
  ASSUME IInv, Next, NEW w \in Wallets
  PROVE  WalletMovesWithOrder(w)
<1>T. /\ res \in [Orders -> Reservation] /\ resvd \in [Wallets -> Nat]
      /\ \A o \in Orders : RowOK(o) /\ res[o].remaining \in Nat
  BY DEF IInv, TypeOK, RowsOK, Reservation
<1>1. ASSUME NEW c \in reserving, ReserveCommit(c) PROVE WalletMovesWithOrder(w)
  <2> DEFINE q == c.req
             v == <<q.user, q.asset>>
  <2>1. /\ q.order \in Orders /\ q.amount \in Nat \ {0} /\ v \in Wallets
    BY RequestAssumption DEF IInv, TypeOK, ReserveReq, Wallets
  <2>2. \A o \in Orders : o # q.order => res'[o] = res[o]
    BY <1>1, <1>T DEF ReserveCommit
  <2>3. /\ Held(q.order) = 0 /\ HeldNext(q.order) = q.amount
        /\ <<res'[q.order].user, res'[q.order].asset>> = v
    BY <1>1, <1>T, <2>1 DEF ReserveCommit, Held, HeldNext, Live
  <2>4. \A o \in Orders : o # q.order => HeldNext(o) = Held(o)
    BY <2>2 DEF Held, HeldNext
  <2>5. resvd'[w] = IF w = v THEN resvd[w] + q.amount ELSE resvd[w]
    <3>1. resvd' = Plus(resvd, v, q.amount)
      BY <1>1 DEF ReserveCommit, MoveToReserved
    <3> HIDE DEF q, v
    <3> QED
      BY <1>T, <2>1, <3>1, PlusType
  <2> HIDE DEF q, v
  <2>6. CASE w = v
    <3>1. OwnedNext(q.order, w) /\ resvd'[w] - resvd[w] = HeldNext(q.order) - Held(q.order)
      BY <1>T, <2>1, <2>3, <2>5, <2>6 DEF OwnedNext
    <3> QED
      BY <2>1, <2>4, <3>1 DEF WalletMovesWithOrder
  <2>7. CASE w # v
    BY <2>3, <2>4, <2>5, <2>7 DEF WalletMovesWithOrder, OwnedNext
  <2> QED
    BY <2>6, <2>7
<1>2. ASSUME NEW p \in Orders, ReleaseFunds(p) PROVE WalletMovesWithOrder(w)
  <2> DEFINE v == ReservationWallet(p)
             n == res[p].remaining
  <2>1. n \in Nat /\ v \in Wallets /\ Held(p) = n
    <3>1. res[p] \in Reservation /\ res[p].status \in Live
      BY <1>2, <1>T DEF ReleaseFunds
    <3> QED
      BY <3>1 DEF Reservation, ReservationWallet, Wallets, Held
  <2>2. \A o \in Orders : o # p => res'[o] = res[o]
    BY <1>2, <1>T DEF ReleaseFunds
  <2>3. \A o \in Orders : o # p => HeldNext(o) = Held(o)
    BY <2>2 DEF Held, HeldNext
  <2>4. HeldNext(p) = 0 /\ <<res'[p].user, res'[p].asset>> = v
    <3>1. /\ res'[p].status = "RELEASED"
          /\ res'[p].user = res[p].user /\ res'[p].asset = res[p].asset
      BY <1>2, <1>T DEF ReleaseFunds, Reservation
    <3> QED
      BY <3>1 DEF HeldNext, Live, ReservationWallet
  <2>5. resvd'[w] = IF w = v THEN resvd[w] - n ELSE resvd[w]
    <3>1. CASE n <= 0
      <4>1. resvd' = resvd /\ n = 0
        BY <1>2, <2>1, <3>1 DEF ReleaseFunds, balances
      <4> HIDE DEF n, v
      <4> QED
        BY <1>T, <4>1
    <3>2. CASE n > 0
      <4>1. MoveFromReserved(v, n)
        BY <1>2, <2>1, <3>2 DEF ReleaseFunds
      <4> HIDE DEF n, v
      <4> QED
        BY <1>T, <2>1, <4>1, MinusType DEF MoveFromReserved
    <3> QED
      BY <2>1, <3>1, <3>2
  <2> HIDE DEF n, v
  <2>6. CASE w = v
    <3>1. OwnedNext(p, w) /\ resvd'[w] - resvd[w] = HeldNext(p) - Held(p)
      BY <1>T, <2>1, <2>4, <2>5, <2>6 DEF OwnedNext
    <3> QED
      BY <2>3, <3>1 DEF WalletMovesWithOrder
  <2>7. CASE w # v
    BY <2>3, <2>4, <2>5, <2>7 DEF WalletMovesWithOrder, OwnedNext
  <2> QED
    BY <2>6, <2>7
<1>3. ASSUME NEW r \in SettleReqs, SettleTrade(r) PROVE WalletMovesWithOrder(w)
  <2> DEFINE q == QuoteAmount(r)
  <2>1. /\ r.sellOrder \in Orders /\ r.buyOrder \in Orders /\ r.sellOrder # r.buyOrder
        /\ r.qty \in Nat \ {0} /\ q \in Nat \ {0} /\ ~InvalidSettlement(r)
    BY <1>3, QuoteAmountNat DEF SettleReq, SettleTrade, SettleReaches, InvalidSettlement
  <2>2. ASSUME NEW o \in Orders, NEW n \in Nat \ {0}, NEW u, NEW a,
               SideUsable(o, u, a), res[o].remaining >= n,
               res'[o] = ConsumeRemaining(o, n)
        PROVE  HeldNext(o) - Held(o) = -n /\ <<res'[o].user, res'[o].asset>> = <<u, a>>
    <3>1. res[o] \in Reservation /\ res[o].remaining \in Nat /\ RowOK(o)
      BY <1>T
    <3>2. res[o].status \in Live
      BY <2>2, <3>1 DEF SideUsable, Reservation, Terminal, Live, RowOK
    <3>3. /\ res'[o].remaining = res[o].remaining - n
          /\ res'[o].user = res[o].user /\ res'[o].asset = res[o].asset
          /\ res'[o].status = IF res[o].remaining - n <= 0 THEN "CONSUMED" ELSE "PARTIALLY_CONSUMED"
      BY <2>2, <3>1 DEF ConsumeRemaining, Reservation
    <3> QED
      BY <2>2, <3>1, <3>2, <3>3 DEF Held, HeldNext, Live, SideUsable
  <2>3. \A o \in Orders : res'[o] =
           IF o = r.sellOrder /\ r.seller # MM THEN ConsumeRemaining(o, r.qty)
           ELSE IF o = r.buyOrder /\ r.buyer # MM THEN ConsumeRemaining(o, q)
           ELSE res[o]
    BY <1>3 DEF SettleTrade, SettleLegs
  <2> HIDE DEF q
  <2>4. r.seller # MM => /\ HeldNext(r.sellOrder) - Held(r.sellOrder) = -r.qty
                         /\ OwnedNext(r.sellOrder, SellerBase(r))
    <3> SUFFICES ASSUME r.seller # MM
                 PROVE  /\ HeldNext(r.sellOrder) - Held(r.sellOrder) = -r.qty
                        /\ OwnedNext(r.sellOrder, SellerBase(r))
      OBVIOUS
    <3>1. SideUsable(r.sellOrder, r.seller, Base) /\ res[r.sellOrder].remaining >= r.qty
      BY <1>3 DEF SettleTrade, SettleReaches, ReservationsUsable, LegsCovered
    <3>2. res'[r.sellOrder] = ConsumeRemaining(r.sellOrder, r.qty)
      BY <2>1, <2>3
    <3> QED
      BY <2>1, <2>2, <3>1, <3>2 DEF SellerBase, OwnedNext
  <2>5. r.buyer # MM => /\ HeldNext(r.buyOrder) - Held(r.buyOrder) = -q
                        /\ OwnedNext(r.buyOrder, BuyerQuote(r))
    <3> SUFFICES ASSUME r.buyer # MM
                 PROVE  /\ HeldNext(r.buyOrder) - Held(r.buyOrder) = -q
                        /\ OwnedNext(r.buyOrder, BuyerQuote(r))
      OBVIOUS
    <3>1. SideUsable(r.buyOrder, r.buyer, Quote) /\ res[r.buyOrder].remaining >= q
      BY <1>3 DEF SettleTrade, SettleReaches, ReservationsUsable, LegsCovered, q
    <3>2. res'[r.buyOrder] = ConsumeRemaining(r.buyOrder, q)
      BY <2>1, <2>3
    <3> QED
      BY <2>1, <2>2, <3>1, <3>2 DEF BuyerQuote, OwnedNext
  <2>6. \A o \in Orders : \/ o = r.sellOrder /\ r.seller # MM
                          \/ o = r.buyOrder /\ r.buyer # MM
                          \/ HeldNext(o) = Held(o)
    BY <2>3 DEF Held, HeldNext
  <2>7. SellerBase(r) # BuyerQuote(r)
    BY <2>1, FourDistinct
  <2>8. resvd'[w] = resvd[w]
              - (IF w = SellerBase(r) /\ r.seller # MM THEN r.qty ELSE 0)
              - (IF w = BuyerQuote(r) /\ r.buyer # MM THEN q ELSE 0)
    BY <1>3, SettleBalances DEF q
  <2>9. CASE w = SellerBase(r) /\ r.seller # MM
    <3>1. resvd'[w] - resvd[w] = HeldNext(r.sellOrder) - Held(r.sellOrder)
      BY <1>T, <2>1, <2>4, <2>7, <2>8, <2>9
    <3>2. \A o \in Orders \ {r.sellOrder} : OwnedNext(o, w) => HeldNext(o) = Held(o)
      BY <2>5, <2>6, <2>7, <2>9 DEF OwnedNext
    <3> QED
      BY <2>1, <2>4, <2>9, <3>1, <3>2 DEF WalletMovesWithOrder
  <2>10. CASE w = BuyerQuote(r) /\ r.buyer # MM
    <3>1. resvd'[w] - resvd[w] = HeldNext(r.buyOrder) - Held(r.buyOrder)
      BY <1>T, <2>1, <2>5, <2>7, <2>8, <2>10
    <3>2. \A o \in Orders \ {r.buyOrder} : OwnedNext(o, w) => HeldNext(o) = Held(o)
      BY <2>4, <2>6, <2>7, <2>10 DEF OwnedNext
    <3> QED
      BY <2>1, <2>5, <2>10, <3>1, <3>2 DEF WalletMovesWithOrder
  <2>11. CASE ~(w = SellerBase(r) /\ r.seller # MM) /\ ~(w = BuyerQuote(r) /\ r.buyer # MM)
    <3>1. resvd'[w] = resvd[w]
      BY <1>T, <2>8, <2>11
    <3>2. \A o \in Orders : OwnedNext(o, w) => HeldNext(o) = Held(o)
      BY <2>4, <2>5, <2>6, <2>11 DEF OwnedNext
    <3> QED
      BY <3>1, <3>2 DEF WalletMovesWithOrder
  <2> QED
    BY <2>9, <2>10, <2>11
<1>4. CASE UNCHANGED <<resvd, res>>
  BY <1>4, NothingHeldMoves
<1> QED
  BY <1>1, <1>2, <1>3, <1>4
     DEF Next, InitializeWallet, ReserveBegin, ReserveRefuse, DepositBegin,
         DepositCommit, DepositRefuse, FreezeWallet, balances

\* That holds of every step of a behaviour.
THEOREM ReservedFollowsOrders == Spec => ReservedMovesWithOrders
<1>1. IInv /\ [Next]_vars => [\A w \in Wallets : WalletMovesWithOrder(w)]_vars
  BY ReservedStep
<1> QED
  BY <1>1, Invariance, PTL DEF Spec, ReservedMovesWithOrders

\* Ended reservations keep what they have and the others move with the reserved balance,
\* for any requests and any interleaving of the wallet's transactions.
THEOREM FundsFollow == Spec => FundsFollowOrders
<1> QED
  BY TerminalStays, ReservedFollowsOrders DEF FundsFollowOrders

-----------------------------------------------------------------------------
(***************************************************************************)
(* Conservation.  The sums of Conserved, as sums of functions.             *)
(***************************************************************************)

\* The sum of what the orders of S hold.
LEMMA SumHeld ==
  ASSUME NEW S, IsFiniteSet(S), NEW f, \A o \in S : f[o] = Held(o)
  PROVE  Sum(Held, S) = Total(f, S)
<1> DEFINE P(h) == h = [s \in SUBSET S |-> IF s = {} THEN 0 ELSE Held(Some(s)) + h[s \ {Some(s)}]]
<1>1. \A h : IsTable(h, f, S) <=> P(h)
  BY SomeIn DEF IsTable
<1>2. Sum(Held, S) = (CHOOSE h : P(h))[S]
  BY DEF Sum, MapThenSumSet, MapThenFoldSet, Some
<1>3. \E h : P(h)
  BY <1>1, TableExists
<1>4. PICK h : P(h) /\ Sum(Held, S) = h[S]
  BY <1>2, <1>3
<1>5. IsTable(h, f, S)
  BY <1>1, <1>4
<1> QED
  BY <1>4, <1>5, TotalIs

\* The rows of wallet w with a type in T and direction d.
Rows(w, T, d) == {x \in ledger : x.wallet = w /\ x.type \in T /\ x.dir = d}

\* The sum of the amounts of ledger rows.
LEMMA SumPosted ==
  ASSUME NEW w, NEW T, NEW d, IsFiniteSet(Rows(w, T, d)),
         NEW f, \A x \in Rows(w, T, d) : f[x] = x.amount
  PROVE  Posted(w, T, d) = Total(f, Rows(w, T, d))
<1> DEFINE S == Rows(w, T, d)
           P(h) == h = [s \in SUBSET S |-> IF s = {} THEN 0 ELSE Some(s).amount + h[s \ {Some(s)}]]
<1>1. \A h : IsTable(h, f, S) <=> P(h)
  BY SomeIn DEF IsTable
<1>2. Posted(w, T, d) = (CHOOSE h : P(h))[S]
  BY DEF Posted, Sum, MapThenSumSet, MapThenFoldSet, Some, Rows
<1>3. \E h : P(h)
  BY <1>1, TableExists
<1>4. PICK h : P(h) /\ Posted(w, T, d) = h[S]
  BY <1>2, <1>3
<1>5. IsTable(h, f, S)
  BY <1>1, <1>4
<1> QED
  BY <1>4, <1>5, TotalIs

\* What each order holds of wallet w.
HeldBy(w) == [o \in Orders |-> IF ReservationWallet(o) = w THEN Held(o) ELSE 0]

\* ReservedBacked, with a sum over all orders.
Backed == \A w \in Wallets : resvd[w] = Total(HeldBy(w), Orders)

\* What an order holds is an amount.
LEMMA HeldNat ==
  ASSUME TypeOK
  PROVE  \A o \in Orders : Held(o) \in Nat
  BY DEF TypeOK, Held, Reservation

\* The sum over all orders is the sum over the wallet's own.
LEMMA BackedIsReserved ==
  ASSUME TypeOK, Backed
  PROVE  ReservedBacked
<1> SUFFICES ASSUME NEW w \in Wallets
             PROVE  resvd[w] = Sum(Held, {o \in Orders : ReservationWallet(o) = w})
  BY DEF ReservedBacked
<1> DEFINE S == {o \in Orders : ReservationWallet(o) = w}
           f == HeldBy(w)
<1>1. S \subseteq Orders /\ IsFiniteSet(Orders) /\ IsFiniteSet(S)
  BY FiniteAssumption, FS_Subset
<1>2. \A o \in Orders : f[o] \in Int
  BY HeldNat DEF HeldBy
<1>3. (\A o \in S : f[o] = Held(o)) /\ (\A o \in Orders \ S : f[o] = 0)
  BY DEF HeldBy
<1> HIDE DEF S, f
<1>4. Total(f, Orders) = Total(f, S)
  BY <1>1, <1>2, <1>3, TotalZeros
<1>5. Sum(Held, S) = Total(f, S)
  BY <1>1, <1>3, SumHeld
<1> QED
  BY <1>4, <1>5 DEF Backed, f, S

\* An order that holds something keeps its wallet.
LEMMA OwnerStays ==
  ASSUME IInv, Next, NEW o \in Orders
  PROVE  OwnedNext(o, ReservationWallet(o)) \/ Held(o) = 0
<1>T. res \in [Orders -> Reservation]
  BY DEF IInv, TypeOK
<1>1. ASSUME NEW c \in reserving, ReserveCommit(c) PROVE OwnedNext(o, ReservationWallet(o)) \/ Held(o) = 0
  <2>1. c.req.order \in Orders /\ res[c.req.order].status = "NONE"
    BY <1>1, RequestAssumption DEF ReserveCommit, IInv, TypeOK, ReserveReq
  <2>2. o # c.req.order => res'[o] = res[o]
    BY <1>1, <1>T, <2>1 DEF ReserveCommit
  <2> QED
    BY <2>1, <2>2 DEF OwnedNext, ReservationWallet, Held, Live
<1>2. ASSUME NEW p \in Orders, ReleaseFunds(p) PROVE OwnedNext(o, ReservationWallet(o))
  <2>1. res'[o].user = res[o].user /\ res'[o].asset = res[o].asset
    BY <1>2, <1>T DEF ReleaseFunds, Reservation
  <2> QED
    BY <2>1 DEF OwnedNext, ReservationWallet
<1>3. ASSUME NEW r \in SettleReqs, SettleTrade(r) PROVE OwnedNext(o, ReservationWallet(o))
  <2>1. \E n : res'[o] \in {ConsumeRemaining(o, n), res[o]}
    BY <1>3 DEF SettleTrade, SettleLegs
  <2>2. res[o] \in Reservation
    BY <1>T
  <2>3. res'[o].user = res[o].user /\ res'[o].asset = res[o].asset
    BY <2>1, <2>2 DEF ConsumeRemaining, Reservation
  <2> QED
    BY <2>3 DEF OwnedNext, ReservationWallet
<1>4. CASE UNCHANGED res
  BY <1>4 DEF OwnedNext, ReservationWallet
<1> QED
  BY <1>1, <1>2, <1>3, <1>4
     DEF Next, InitializeWallet, ReserveBegin, ReserveRefuse, DepositBegin,
         DepositCommit, DepositRefuse, FreezeWallet

\* A step moves the sum of what the orders hold by what it moves.
LEMMA BackedStep ==
  ASSUME IInv, IInv', Next, Backed
  PROVE  Backed'
<1> SUFFICES ASSUME NEW w \in Wallets
             PROVE  resvd'[w] = Total(HeldBy(w)', Orders)
  BY DEF Backed
<1> DEFINE f == HeldBy(w)
           g == HeldBy(w)'
<1>1. \A o \in Orders : HeldNext(o) \in Nat /\ Held(o) \in Nat
  BY DEF IInv, TypeOK, HeldNext, Held, Reservation
<1>2. \A o \in Orders : f[o] = IF ReservationWallet(o) = w THEN Held(o) ELSE 0
  BY DEF HeldBy
<1>3. \A o \in Orders : g[o] = IF OwnedNext(o, w) THEN HeldNext(o) ELSE 0
  BY DEF HeldBy, OwnedNext, ReservationWallet, HeldNext, Held
<1>4. \A o \in Orders : f[o] \in Int /\ g[o] \in Int
  BY <1>1, <1>2, <1>3
<1>5. resvd[w] = Total(f, Orders) /\ resvd[w] \in Nat /\ resvd'[w] \in Nat
  BY DEF Backed, IInv, TypeOK
<1> HIDE DEF f, g
<1>6. ASSUME NEW o \in Orders, OwnedNext(o, w) => HeldNext(o) = Held(o)
      PROVE  f[o] = g[o]
  <2>1. OwnedNext(o, ReservationWallet(o)) \/ Held(o) = 0
    BY OwnerStays
  <2>2. CASE OwnedNext(o, w)
    <3>1. Held(o) = 0 \/ ReservationWallet(o) = w
      BY <2>1, <2>2 DEF OwnedNext
    <3> QED
      BY <1>2, <1>3, <1>6, <2>2, <3>1
  <2>3. CASE ~OwnedNext(o, w)
    BY <1>2, <1>3, <2>1, <2>3
  <2> QED
    BY <2>2, <2>3
<1>7. CASE /\ resvd'[w] = resvd[w]
           /\ \A o \in Orders : OwnedNext(o, w) => HeldNext(o) = Held(o)
  <2>1. \A o \in Orders : f[o] = g[o]
    BY <1>6, <1>7
  <2>2. Total(f, Orders) = Total(g, Orders)
    BY <2>1, FiniteAssumption, TotalAgree
  <2> QED
    BY <1>5, <1>7, <2>2 DEF g
<1>8. ASSUME NEW o \in Orders, OwnedNext(o, w), resvd'[w] - resvd[w] = HeldNext(o) - Held(o),
             \A p \in Orders \ {o} : OwnedNext(p, w) => HeldNext(p) = Held(p)
      PROVE  resvd'[w] = Total(HeldBy(w)', Orders)
  <2>1. \A p \in Orders \ {o} : f[p] = g[p]
    BY <1>6, <1>8
  <2>2. Total(g, Orders) = Total(f, Orders) + (g[o] - f[o])
    BY <1>4, <2>1, FiniteAssumption, TotalChange
  <2>3. g[o] = HeldNext(o) /\ f[o] = Held(o)
    <3>1. OwnedNext(o, ReservationWallet(o)) \/ Held(o) = 0
      BY OwnerStays
    <3>2. Held(o) = 0 \/ ReservationWallet(o) = w
      BY <1>8, <3>1 DEF OwnedNext
    <3> QED
      BY <1>2, <1>3, <1>8, <3>2
  <2> QED
    BY <1>1, <1>5, <1>8, <2>2, <2>3 DEF g
<1> QED
  BY <1>7, <1>8, ReservedStep DEF WalletMovesWithOrder

\* Nothing is reserved at the start.
LEMMA BackedInit ==
  ASSUME Init, IInv
  PROVE  Backed
<1> SUFFICES ASSUME NEW w \in Wallets PROVE resvd[w] = Total(HeldBy(w), Orders)
  BY DEF Backed
<1> DEFINE f == HeldBy(w)
<1>1. \A o \in Orders : f[o] = 0
  BY DEF Init, HeldBy, Held, NoReservation, Live
<1>2. resvd[w] = 0
  BY DEF Init
<1> HIDE DEF f
<1>3. Total(f, Orders) = 0
  <2>1. {} \in SUBSET Orders /\ (\A o \in Orders : f[o] \in Int) /\ \A o \in Orders \ {} : f[o] = 0
    BY <1>1
  <2>2. Total(f, Orders) = Total(f, {})
    BY <2>1, FiniteAssumption, TotalZeros
  <2> QED
    BY <2>2, TotalEmpty
<1> QED
  BY <1>2, <1>3 DEF f

-----------------------------------------------------------------------------
(***************************************************************************)
(* What a ledger row says of its wallet's balances and of its funding.     *)
(***************************************************************************)
AvailEffect(v) ==
  [x \in LedgerRow |->
     IF x.wallet # v THEN 0
     ELSE IF x.dir = "CREDIT" THEN x.amount
     ELSE IF x.type = "RESERVATION" \/ (x.type = "SETTLEMENT" /\ v[1] = MM) THEN -x.amount
     ELSE 0]

ResvdEffect(v) ==
  [x \in LedgerRow |->
     IF x.wallet # v THEN 0
     ELSE IF x.dir = "DEBIT" /\ x.type = "RESERVATION" THEN x.amount
     ELSE IF \/ x.dir = "CREDIT" /\ x.type = "RELEASE"
             \/ x.dir = "DEBIT" /\ x.type = "SETTLEMENT" /\ v[1] # MM
     THEN -x.amount
     ELSE 0]

FundEffect(v) ==
  [x \in LedgerRow |->
     IF x.wallet = v /\ x.dir = "CREDIT" /\ x.type \in {"INITIAL_ALLOCATION", "TOPUP"}
     THEN x.amount ELSE 0]

\* A row that moves money only between the balances of its wallet, or funds it.
Proper(x) ==
  \/ x.type \in {"INITIAL_ALLOCATION", "RELEASE", "TOPUP"} /\ x.dir = "CREDIT"
  \/ x.type = "RESERVATION" /\ x.dir = "DEBIT"

\* An effect is an integer, and none on the wallet of another row.
LEMMA EffectType ==
  ASSUME NEW v, NEW e \in {AvailEffect(v), ResvdEffect(v), FundEffect(v)}, NEW x \in LedgerRow
  PROVE  /\ e[x] \in Int
         /\ x.wallet # v => e[x] = 0
<1>0. x.amount \in Int
  BY DEF LedgerRow
<1>1. AvailEffect(v)[x] \in Int /\ (x.wallet # v => AvailEffect(v)[x] = 0)
  BY <1>0 DEF AvailEffect
<1>2. ResvdEffect(v)[x] \in Int /\ (x.wallet # v => ResvdEffect(v)[x] = 0)
  BY <1>0 DEF ResvdEffect
<1>3. FundEffect(v)[x] \in Int /\ (x.wallet # v => FundEffect(v)[x] = 0)
  BY <1>0 DEF FundEffect
<1> QED
  BY <1>1, <1>2, <1>3

\* A proper row changes the money of its wallet by what it funds.
LEMMA ProperBalances ==
  ASSUME NEW v, NEW x \in LedgerRow, x.wallet = v, Proper(x)
  PROVE  AvailEffect(v)[x] + ResvdEffect(v)[x] = FundEffect(v)[x]
  BY DEF AvailEffect, ResvdEffect, FundEffect, LedgerRow, Proper

RowsOf(v) == {x \in ledger : x.wallet = v}

\* A step leaves wallet v and its rows alone.
Untouched(v) ==
  /\ avail'[v] = avail[v]
  /\ resvd'[v] = resvd[v]
  /\ RowsOf(v)' = RowsOf(v)

\* A step writes the new row x of wallet v and changes its balances as x says.
PostedTo(v, x) ==
  /\ x \in LedgerRow \ ledger
  /\ x.wallet = v
  /\ avail'[v] = avail[v] + AvailEffect(v)[x]
  /\ resvd'[v] = resvd[v] + ResvdEffect(v)[x]
  /\ RowsOf(v)' = RowsOf(v) \cup {x}

\* A sum of the effects on one wallet is a sum over its rows.
LEMMA OwnRows ==
  ASSUME NEW L \in SUBSET LedgerRow, IsFiniteSet(L), NEW v,
         NEW e \in {AvailEffect(v), ResvdEffect(v), FundEffect(v)}
  PROVE  Total(e, L) = Total(e, {x \in L : x.wallet = v})
<1> DEFINE T == {x \in L : x.wallet = v}
<1>1. T \in SUBSET L
  OBVIOUS
<1>2. (\A x \in L : e[x] \in Int) /\ (\A x \in L \ T : e[x] = 0)
  BY EffectType
<1> HIDE DEF T
<1>3. Total(e, L) = Total(e, T)
  BY <1>1, <1>2, TotalZeros
<1> QED
  BY <1>3 DEF T

\* The effects on an untouched wallet add up to the same.
LEMMA UntouchedTotal ==
  ASSUME ledger \subseteq LedgerRow, IsFiniteSet(ledger),
         ledger' \subseteq LedgerRow, IsFiniteSet(ledger'),
         NEW v, Untouched(v),
         NEW e \in {AvailEffect(v), ResvdEffect(v), FundEffect(v)}
  PROVE  Total(e, ledger') = Total(e, ledger)
<1>1. Total(e, ledger) = Total(e, RowsOf(v))
  BY OwnRows DEF RowsOf
<1>2. Total(e, ledger') = Total(e, {x \in ledger' : x.wallet = v})
  BY OwnRows
<1>3. {x \in ledger' : x.wallet = v} = RowsOf(v)
  BY DEF Untouched, RowsOf
<1> QED
  BY <1>1, <1>2, <1>3

\* A posted row adds its effect.
LEMMA PostedTotal ==
  ASSUME ledger \subseteq LedgerRow, IsFiniteSet(ledger),
         ledger' \subseteq LedgerRow, IsFiniteSet(ledger'),
         NEW v, NEW x, PostedTo(v, x),
         NEW e \in {AvailEffect(v), ResvdEffect(v), FundEffect(v)}
  PROVE  Total(e, ledger') = Total(e, ledger) + e[x]
<1>1. Total(e, ledger) = Total(e, RowsOf(v))
  BY OwnRows DEF RowsOf
<1>2. Total(e, ledger') = Total(e, {y \in ledger' : y.wallet = v})
  BY OwnRows
<1>3. {y \in ledger' : y.wallet = v} = RowsOf(v) \cup {x}
  BY DEF PostedTo, RowsOf
<1>4. x \notin RowsOf(v) /\ x \in LedgerRow /\ RowsOf(v) \subseteq LedgerRow
  BY DEF PostedTo, RowsOf
<1>5. IsFiniteSet(RowsOf(v))
  BY FS_Subset DEF RowsOf
<1>6. \A y \in RowsOf(v) \cup {x} : e[y] \in Int
  BY <1>4, EffectType
<1>7. Total(e, RowsOf(v) \cup {x}) = Total(e, RowsOf(v)) + e[x]
  BY <1>4, <1>5, <1>6, TotalAdd
<1> QED
  BY <1>1, <1>2, <1>3, <1>7

\* Effects add up to an integer.
LEMMA EffectsInt ==
  ASSUME NEW L \in SUBSET LedgerRow, IsFiniteSet(L), NEW v,
         NEW e \in {AvailEffect(v), ResvdEffect(v), FundEffect(v)}
  PROVE  Total(e, L) \in Int
  BY EffectType, TotalInt

-----------------------------------------------------------------------------
(***************************************************************************)
(* The inductive invariant of conservation.                                *)
(***************************************************************************)

\* The ledger has rows of wallets that exist, of reservations that were made
\* and of releases that have happened.
LedgerKnown ==
  /\ IsFiniteSet(ledger)
  /\ \A x \in ledger :
       /\ x.wallet \in opened
       /\ x.type = "RESERVATION" => x.ref \in Orders /\ res[x.ref].status # "NONE"
       /\ x.type = "RELEASE" => x.ref \in Orders /\ res[x.ref].status = "RELEASED"

\* A call in progress has found its wallet.
CallsOpened ==
  /\ \A c \in reserving : <<c.req.user, c.req.asset>> \in opened
  /\ \A c \in depositing : <<c.req.user, c.req.asset>> \in opened

Explained ==
  \A v \in Wallets : /\ avail[v] = Total(AvailEffect(v), ledger)
                     /\ resvd[v] = Total(ResvdEffect(v), ledger)

\* What a wallet has beyond its funding: trades won it, or lost it.
Excess == [v \in Wallets |-> avail[v] + resvd[v] - Total(FundEffect(v), ledger)]

Supplied == \A a \in Assets : Total(Excess, Users \X {a}) = 0

MoneyInv == LedgerKnown /\ CallsOpened /\ Backed /\ Explained /\ Supplied

\* A step that only touches wallets or posts to them keeps the ledger's explanation.
LEMMA ExplainedStep ==
  ASSUME IInv, IInv', Explained, IsFiniteSet(ledger), IsFiniteSet(ledger'),
         \A v \in Wallets : Untouched(v) \/ \E x : PostedTo(v, x)
  PROVE  Explained'
<1> SUFFICES ASSUME NEW v \in Wallets
             PROVE  /\ avail'[v] = Total(AvailEffect(v), ledger')
                    /\ resvd'[v] = Total(ResvdEffect(v), ledger')
  BY DEF Explained, AvailEffect, ResvdEffect
<1>1. ledger \subseteq LedgerRow /\ ledger' \subseteq LedgerRow
  BY DEF IInv, TypeOK
<1>2. avail[v] = Total(AvailEffect(v), ledger) /\ resvd[v] = Total(ResvdEffect(v), ledger)
  BY DEF Explained
<1>3. CASE Untouched(v)
  <2>1. /\ Total(AvailEffect(v), ledger') = Total(AvailEffect(v), ledger)
        /\ Total(ResvdEffect(v), ledger') = Total(ResvdEffect(v), ledger)
    BY <1>1, <1>3, UntouchedTotal
  <2> QED
    BY <1>2, <1>3, <2>1 DEF Untouched
<1>4. ASSUME NEW x, PostedTo(v, x)
      PROVE  /\ avail'[v] = Total(AvailEffect(v), ledger')
             /\ resvd'[v] = Total(ResvdEffect(v), ledger')
  <2>1. /\ Total(AvailEffect(v), ledger') = Total(AvailEffect(v), ledger) + AvailEffect(v)[x]
        /\ Total(ResvdEffect(v), ledger') = Total(ResvdEffect(v), ledger) + ResvdEffect(v)[x]
    BY <1>1, <1>4, PostedTotal
  <2> QED
    BY <1>2, <1>4, <2>1 DEF PostedTo
<1> QED
  BY <1>3, <1>4

\* The excess of a wallet that is untouched or whose row is a proper one.
LEMMA ExcessStays ==
  ASSUME IInv, IInv', IsFiniteSet(ledger), IsFiniteSet(ledger'), NEW v \in Wallets,
         Untouched(v) \/ \E x : PostedTo(v, x) /\ Proper(x)
  PROVE  Excess'[v] = Excess[v]
<1>1. ledger \subseteq LedgerRow /\ ledger' \subseteq LedgerRow /\ avail[v] \in Nat /\ resvd[v] \in Nat
  BY DEF IInv, TypeOK
<1>2. /\ Excess[v] = avail[v] + resvd[v] - Total(FundEffect(v), ledger)
      /\ Excess'[v] = avail'[v] + resvd'[v] - Total(FundEffect(v), ledger')
  BY DEF Excess, FundEffect
<1>3. CASE Untouched(v)
  <2>1. Total(FundEffect(v), ledger') = Total(FundEffect(v), ledger)
    BY <1>1, <1>3, UntouchedTotal
  <2> QED
    BY <1>2, <1>3, <2>1 DEF Untouched
<1>4. ASSUME NEW x, PostedTo(v, x), Proper(x) PROVE Excess'[v] = Excess[v]
  <2>1. Total(FundEffect(v), ledger') = Total(FundEffect(v), ledger) + FundEffect(v)[x]
    BY <1>1, <1>4, PostedTotal
  <2>2. x \in LedgerRow /\ x.wallet = v
    BY <1>4 DEF PostedTo
  <2>3. AvailEffect(v)[x] + ResvdEffect(v)[x] = FundEffect(v)[x]
    BY <1>4, <2>2, ProperBalances
  <2>4. AvailEffect(v)[x] \in Int /\ ResvdEffect(v)[x] \in Int /\ FundEffect(v)[x] \in Int
    BY <2>2, EffectType
  <2>5. Total(FundEffect(v), ledger) \in Int
    BY <1>1, EffectsInt
  <2>6. /\ avail'[v] = avail[v] + AvailEffect(v)[x]
        /\ resvd'[v] = resvd[v] + ResvdEffect(v)[x]
    BY <1>4 DEF PostedTo
  <2> QED
    BY <1>1, <1>2, <2>1, <2>3, <2>4, <2>5, <2>6
<1> QED
  BY <1>3, <1>4

-----------------------------------------------------------------------------
(***************************************************************************)
(* What each step does to the ledger and to the wallets.                   *)
(***************************************************************************)
Quietly == UNCHANGED <<avail, resvd, ledger>>

\* A step that changes no balance and writes no row touches no wallet.
LEMMA QuietSteps ==
  ASSUME Quietly
  PROVE  \A v \in Wallets : Untouched(v)
  BY DEF Quietly, Untouched, RowsOf

\* A step that writes one new row.
LEMMA OneRowPosted ==
  ASSUME NEW w, NEW x \in LedgerRow, x.wallet = w, x \notin ledger,
         ledger' = ledger \cup {x},
         avail'[w] = avail[w] + AvailEffect(w)[x],
         resvd'[w] = resvd[w] + ResvdEffect(w)[x],
         \A v \in Wallets \ {w} : avail'[v] = avail[v] /\ resvd'[v] = resvd[v]
  PROVE  \A v \in Wallets : Untouched(v) \/ PostedTo(v, x)
<1>1. ASSUME NEW v \in Wallets, v # w PROVE Untouched(v)
  BY <1>1 DEF Untouched, RowsOf
<1>2. PostedTo(w, x)
  BY DEF PostedTo, RowsOf
<1> QED
  BY <1>1, <1>2

\* The balances a row says: one lemma for each kind of row.
LEMMA RowEffects ==
  ASSUME NEW w \in Wallets, NEW ref \in Users \cup Orders \cup TradeIds \cup DepositIds,
         NEW n \in Nat \ {0}
  PROVE  /\ Row(w, ref, "RESERVATION", "DEBIT", n) \in LedgerRow
         /\ AvailEffect(w)[Row(w, ref, "RESERVATION", "DEBIT", n)] = -n
         /\ ResvdEffect(w)[Row(w, ref, "RESERVATION", "DEBIT", n)] = n
         /\ Row(w, ref, "RELEASE", "CREDIT", n) \in LedgerRow
         /\ AvailEffect(w)[Row(w, ref, "RELEASE", "CREDIT", n)] = n
         /\ ResvdEffect(w)[Row(w, ref, "RELEASE", "CREDIT", n)] = -n
         /\ Row(w, ref, "TOPUP", "CREDIT", n) \in LedgerRow
         /\ AvailEffect(w)[Row(w, ref, "TOPUP", "CREDIT", n)] = n
         /\ ResvdEffect(w)[Row(w, ref, "TOPUP", "CREDIT", n)] = 0
         /\ Row(w, ref, "INITIAL_ALLOCATION", "CREDIT", n) \in LedgerRow
         /\ AvailEffect(w)[Row(w, ref, "INITIAL_ALLOCATION", "CREDIT", n)] = n
         /\ ResvdEffect(w)[Row(w, ref, "INITIAL_ALLOCATION", "CREDIT", n)] = 0
<1>1. /\ Row(w, ref, "RESERVATION", "DEBIT", n) \in LedgerRow
      /\ Row(w, ref, "RELEASE", "CREDIT", n) \in LedgerRow
      /\ Row(w, ref, "TOPUP", "CREDIT", n) \in LedgerRow
      /\ Row(w, ref, "INITIAL_ALLOCATION", "CREDIT", n) \in LedgerRow
  BY DEF Row, LedgerRow, RefTypes
<1>2. /\ AvailEffect(w)[Row(w, ref, "RESERVATION", "DEBIT", n)] = -n
      /\ ResvdEffect(w)[Row(w, ref, "RESERVATION", "DEBIT", n)] = n
  BY <1>1 DEF Row, AvailEffect, ResvdEffect
<1>3. /\ AvailEffect(w)[Row(w, ref, "RELEASE", "CREDIT", n)] = n
      /\ ResvdEffect(w)[Row(w, ref, "RELEASE", "CREDIT", n)] = -n
  BY <1>1 DEF Row, AvailEffect, ResvdEffect
<1>4. /\ AvailEffect(w)[Row(w, ref, "TOPUP", "CREDIT", n)] = n
      /\ ResvdEffect(w)[Row(w, ref, "TOPUP", "CREDIT", n)] = 0
  BY <1>1 DEF Row, AvailEffect, ResvdEffect
<1>5. /\ AvailEffect(w)[Row(w, ref, "INITIAL_ALLOCATION", "CREDIT", n)] = n
      /\ ResvdEffect(w)[Row(w, ref, "INITIAL_ALLOCATION", "CREDIT", n)] = 0
  BY <1>1 DEF Row, AvailEffect, ResvdEffect
<1> QED
  BY <1>1, <1>2, <1>3, <1>4, <1>5

\* The invariant's part about the ledger after a row of another kind.
LEMMA KnownWithRow ==
  ASSUME LedgerKnown, NEW x, x.wallet \in opened, ledger' = ledger \cup {x},
         UNCHANGED opened,
         \A o \in Orders : res[o].status # "NONE" => res'[o].status # "NONE",
         \A o \in Orders : res[o].status = "RELEASED" => res'[o].status = "RELEASED",
         x.type = "RESERVATION" => x.ref \in Orders /\ res'[x.ref].status # "NONE",
         x.type = "RELEASE" => x.ref \in Orders /\ res'[x.ref].status = "RELEASED"
  PROVE  LedgerKnown'
<1>1. IsFiniteSet(ledger')
  BY FS_AddElement DEF LedgerKnown
<1> QED
  BY <1>1 DEF LedgerKnown

\* ReserveFunds moves what its RESERVATION row says, for an order that had no row.
LEMMA ReserveMoney ==
  ASSUME IInv, MoneyInv, NEW c \in reserving, ReserveCommit(c)
  PROVE  /\ LedgerKnown'
         /\ \A v \in Wallets : Untouched(v) \/ \E x : PostedTo(v, x) /\ Proper(x)
<1> DEFINE q == c.req
           w == <<q.user, q.asset>>
           x == Row(w, q.order, "RESERVATION", "DEBIT", q.amount)
<1>T. avail \in [Wallets -> Nat] /\ resvd \in [Wallets -> Nat] /\ res \in [Orders -> Reservation]
  BY DEF IInv, TypeOK
<1>1. q.order \in Orders /\ q.amount \in Nat \ {0} /\ w \in Wallets /\ w \in opened
  BY RequestAssumption DEF IInv, TypeOK, ReserveReq, Wallets, MoneyInv, CallsOpened
<1>2. /\ avail[w] >= q.amount
      /\ avail' = Minus(avail, w, q.amount) /\ resvd' = Plus(resvd, w, q.amount)
      /\ res[q.order].status = "NONE" /\ ledger' = ledger \cup {x} /\ opened' = opened
  BY DEF ReserveCommit, MoveToReserved
<1>3. /\ res'[q.order].status = "ACTIVE"
      /\ \A o \in Orders \ {q.order} : res'[o] = res[o]
  BY <1>1, <1>T DEF ReserveCommit
<1>4. /\ x \in LedgerRow /\ AvailEffect(w)[x] = -q.amount /\ ResvdEffect(w)[x] = q.amount
  BY <1>1, RowEffects
<1>5. x.wallet = w /\ x.type = "RESERVATION" /\ x.dir = "DEBIT" /\ x.ref = q.order
  BY DEF Row
<1>6. x \notin ledger
  BY <1>2, <1>5 DEF MoneyInv, LedgerKnown
<1> HIDE DEF q, w, x
<1>7. /\ \A v \in Wallets : avail'[v] = IF v = w THEN avail[v] - q.amount ELSE avail[v]
      /\ \A v \in Wallets : resvd'[v] = IF v = w THEN resvd[v] + q.amount ELSE resvd[v]
  <2>1. q.amount \in Nat
    BY <1>1
  <2>2. \A v \in Wallets : avail'[v] = IF v = w THEN avail[v] - q.amount ELSE avail[v]
    BY <2>1, <1>1, <1>2, <1>T, MinusType
  <2>3. \A v \in Wallets : resvd'[v] = IF v = w THEN resvd[v] + q.amount ELSE resvd[v]
    BY <2>1, <1>1, <1>2, <1>T DEF Plus
  <2> QED
    BY <2>2, <2>3
<1>8. \A v \in Wallets : Untouched(v) \/ PostedTo(v, x)
  <2>1. avail'[w] = avail[w] + AvailEffect(w)[x] /\ resvd'[w] = resvd[w] + ResvdEffect(w)[x]
    BY <1>1, <1>4, <1>7, <1>T
  <2> QED
    BY <1>2, <1>4, <1>5, <1>6, <1>7, <2>1, OneRowPosted
<1>9. LedgerKnown'
  BY <1>1, <1>2, <1>3, <1>5, KnownWithRow DEF MoneyInv
<1> QED
  BY <1>5, <1>8, <1>9 DEF Proper

\* ReleaseFunds moves what its RELEASE row says, or nothing when nothing remains.
LEMMA ReleaseMoney ==
  ASSUME IInv, MoneyInv, NEW o \in Orders, ReleaseFunds(o)
  PROVE  /\ LedgerKnown'
         /\ \A v \in Wallets : Untouched(v) \/ \E x : PostedTo(v, x) /\ Proper(x)
<1> DEFINE w == ReservationWallet(o)
           n == res[o].remaining
           x == Row(w, o, "RELEASE", "CREDIT", n)
<1>T. avail \in [Wallets -> Nat] /\ resvd \in [Wallets -> Nat] /\ res \in [Orders -> Reservation]
  BY DEF IInv, TypeOK
<1>1. n \in Nat /\ w \in Wallets
  BY <1>T DEF Reservation, ReservationWallet, Wallets
<1>2. /\ res'[o].status = "RELEASED" /\ res[o].status \in Live
      /\ \A p \in Orders \ {o} : res'[p] = res[p]
      /\ opened' = opened
  BY <1>T DEF ReleaseFunds, Reservation
<1>3. CASE n <= 0
  <2>1. Quietly
    BY <1>1, <1>3 DEF ReleaseFunds, balances, Quietly
  <2>2. LedgerKnown'
    BY <1>2, <2>1 DEF LedgerKnown, MoneyInv, Quietly, Live
  <2> QED
    BY <2>1, <2>2, QuietSteps
<1>4. CASE n > 0
  <2>1. w \in opened /\ MoveFromReserved(w, n) /\ ledger' = ledger \cup {x}
    BY <1>1, <1>4 DEF ReleaseFunds
  <2>2. /\ x \in LedgerRow /\ AvailEffect(w)[x] = n /\ ResvdEffect(w)[x] = -n
    BY <1>1, <1>4, RowEffects
  <2>3. x.wallet = w /\ x.type = "RELEASE" /\ x.dir = "CREDIT" /\ x.ref = o
    BY DEF Row
  <2>4. x \notin ledger
    BY <1>2, <2>3 DEF MoneyInv, LedgerKnown, Live
  <2> HIDE DEF w, n, x
  <2>5. /\ \A v \in Wallets : resvd'[v] = IF v = w THEN resvd[v] - n ELSE resvd[v]
        /\ \A v \in Wallets : avail'[v] = IF v = w THEN avail[v] + n ELSE avail[v]
    <3>1. avail' = Plus(avail, w, n) /\ resvd' = Minus(resvd, w, n) /\ resvd[w] >= n
      BY <2>1 DEF MoveFromReserved
    <3>2. \A v \in Wallets : resvd'[v] = IF v = w THEN resvd[v] - n ELSE resvd[v]
      BY <3>1, <1>1, <1>T, MinusType
    <3>3. \A v \in Wallets : avail'[v] = IF v = w THEN avail[v] + n ELSE avail[v]
      BY <3>1, <1>1, <1>T, PlusType
    <3> QED
      BY <3>2, <3>3
  <2>6. \A v \in Wallets : Untouched(v) \/ PostedTo(v, x)
    <3>1. avail'[w] = avail[w] + AvailEffect(w)[x] /\ resvd'[w] = resvd[w] + ResvdEffect(w)[x]
      BY <1>1, <1>T, <2>2, <2>5
    <3> QED
      BY <2>1, <2>2, <2>3, <2>4, <2>5, <3>1, OneRowPosted
  <2>7. LedgerKnown'
    <3>1. \A p \in Orders : res[p].status # "NONE" => res'[p].status # "NONE"
      BY <1>2
    <3>2. \A p \in Orders : res[p].status = "RELEASED" => res'[p].status = "RELEASED"
      BY <1>2
    <3> QED
      BY <1>2, <2>1, <2>3, <3>1, <3>2, KnownWithRow DEF MoneyInv
  <2> QED
    BY <2>3, <2>6, <2>7 DEF Proper
<1> QED
  BY <1>1, <1>3, <1>4

\* DepositFunds credits what its TOPUP row says, for a reference that had no row.
LEMMA DepositMoney ==
  ASSUME IInv, MoneyInv, NEW c \in depositing, DepositCommit(c)
  PROVE  /\ LedgerKnown'
         /\ \A v \in Wallets : Untouched(v) \/ \E x : PostedTo(v, x) /\ Proper(x)
<1> DEFINE q == c.req
           w == <<q.user, q.asset>>
           x == Row(w, q.ref, "TOPUP", "CREDIT", q.amount)
<1>T. avail \in [Wallets -> Nat] /\ resvd \in [Wallets -> Nat]
  BY DEF IInv, TypeOK
<1>1. q.ref \in DepositIds /\ q.amount \in Nat \ {0} /\ w \in Wallets /\ w \in opened
  BY RequestAssumption DEF IInv, TypeOK, DepositReq, Wallets, MoneyInv, CallsOpened
<1>2. /\ avail' = Plus(avail, w, q.amount) /\ resvd' = resvd /\ ledger' = ledger \cup {x}
      /\ opened' = opened /\ res' = res /\ ~HasRow(w, q.ref, "TOPUP")
  BY DEF DepositCommit, DepositRecheck
<1>3. /\ x \in LedgerRow /\ AvailEffect(w)[x] = q.amount /\ ResvdEffect(w)[x] = 0
  BY <1>1, RowEffects
<1>4. x.wallet = w /\ x.type = "TOPUP" /\ x.dir = "CREDIT" /\ x.ref = q.ref
  BY DEF Row
<1>5. x \notin ledger
  BY <1>2, <1>4 DEF HasRow
<1> HIDE DEF q, w, x
<1>6. \A v \in Wallets : avail'[v] = IF v = w THEN avail[v] + q.amount ELSE avail[v]
  <2>1. q.amount \in Nat
    BY <1>1
  <2> QED
    BY <2>1, <1>1, <1>2, <1>T DEF Plus
<1>7. \A v \in Wallets : Untouched(v) \/ PostedTo(v, x)
  <2>1. avail'[w] = avail[w] + AvailEffect(w)[x] /\ resvd'[w] = resvd[w] + ResvdEffect(w)[x]
    BY <1>1, <1>2, <1>3, <1>6, <1>T
  <2>2. \A v \in Wallets \ {w} : avail'[v] = avail[v] /\ resvd'[v] = resvd[v]
    BY <1>2, <1>6
  <2> QED
    BY <1>2, <1>3, <1>4, <1>5, <2>1, <2>2, OneRowPosted
<1>8. LedgerKnown'
  BY <1>1, <1>2, <1>4, KnownWithRow DEF MoneyInv
<1> QED
  BY <1>4, <1>7, <1>8 DEF Proper

\* A wallet that does not exist yet has no money.
LEMMA UnopenedEmpty ==
  ASSUME IInv, MoneyInv, NEW v \in Wallets, v \notin opened
  PROVE  RowsOf(v) = {} /\ avail[v] = 0
<1>1. RowsOf(v) = {}
  BY DEF RowsOf, MoneyInv, LedgerKnown
<1>2. ledger \subseteq LedgerRow /\ IsFiniteSet(ledger)
  BY DEF IInv, TypeOK, MoneyInv, LedgerKnown
<1>3. Total(AvailEffect(v), ledger) = Total(AvailEffect(v), RowsOf(v))
  BY <1>2, OwnRows DEF RowsOf
<1>4. Total(AvailEffect(v), {}) = 0
  BY TotalEmpty
<1> QED
  BY <1>1, <1>3, <1>4 DEF MoneyInv, Explained

\* InitializeWallet opens wallets that had no row with the balance it records.
LEMMA InitializeMoney ==
  ASSUME IInv, MoneyInv, NEW u \in Users, InitializeWallet(u)
  PROVE  /\ LedgerKnown'
         /\ \A v \in Wallets : Untouched(v) \/ \E x : PostedTo(v, x) /\ Proper(x)
<1> DEFINE new == {w \in {u} \X Assets : w \notin opened}
           paid == {w \in new : Seed[w[2]] # 0}
           row == [w \in paid |-> Row(w, u, "INITIAL_ALLOCATION", "CREDIT", Seed[w[2]])]
           rows == {row[w] : w \in paid}
<1>1. /\ new \subseteq Wallets /\ paid \subseteq new
      /\ \A w \in new : w \notin opened
      /\ \A w \in Wallets : w[2] \in Assets
  BY DEF Wallets
<1>2. /\ opened' = opened \cup new
      /\ avail' = [w \in Wallets |-> IF w \in new THEN Seed[w[2]] ELSE avail[w]]
      /\ ledger' = ledger \cup rows /\ resvd' = resvd /\ res' = res
  BY DEF InitializeWallet
<1>3. ASSUME NEW w \in paid
      PROVE  /\ row[w] \in LedgerRow /\ row[w].wallet = w
             /\ AvailEffect(w)[row[w]] = Seed[w[2]] /\ ResvdEffect(w)[row[w]] = 0
             /\ row[w].type = "INITIAL_ALLOCATION" /\ row[w].dir = "CREDIT"
  <2>1. w \in Wallets /\ Seed[w[2]] \in Nat \ {0}
    BY <1>1, AmountAssumption
  <2>2. row[w] = Row(w, u, "INITIAL_ALLOCATION", "CREDIT", Seed[w[2]])
    OBVIOUS
  <2> HIDE DEF row, paid
  <2>3. /\ row[w] \in LedgerRow
        /\ AvailEffect(w)[row[w]] = Seed[w[2]] /\ ResvdEffect(w)[row[w]] = 0
    BY <2>1, <2>2, RowEffects
  <2> QED
    BY <2>2, <2>3 DEF Row
<1>4. IsFiniteSet(rows)
  <2>1. IsFiniteSet(Assets)
    <3>1. IsFiniteSet({Base})
      BY FS_Singleton
    <3>2. IsFiniteSet({Base} \cup {Quote})
      BY <3>1, FS_AddElement
    <3>3. {Base} \cup {Quote} = Assets
      BY DEF Assets
    <3> QED
      BY <3>2, <3>3
  <2>2. IsFiniteSet({u})
    BY FS_Singleton
  <2>3. IsFiniteSet({u} \X Assets)
    BY <2>1, <2>2, FS_Product
  <2>4. IsFiniteSet(paid)
    <3>1. paid \subseteq {u} \X Assets
      OBVIOUS
    <3> QED
      BY <2>3, <3>1, FS_Subset
  <2>5. row \in Surjection(paid, rows)
    BY DEF Surjection
  <2> HIDE DEF paid, row, rows
  <2> QED
    BY <2>4, <2>5, FS_Surjection
<1> HIDE DEF new, paid, row
<1>5. LedgerKnown'
  <2>1. IsFiniteSet(ledger')
    BY <1>2, <1>4, FS_Union DEF MoneyInv, LedgerKnown
  <2>2. \A x \in rows : x.wallet \in opened' /\ x.type = "INITIAL_ALLOCATION"
    BY <1>1, <1>2, <1>3
  <2> HIDE DEF rows
  <2> QED
    BY <1>2, <2>1, <2>2 DEF MoneyInv, LedgerKnown
<1>6. ASSUME NEW v \in Wallets PROVE Untouched(v) \/ \E x : PostedTo(v, x) /\ Proper(x)
  <2>1. \A x \in rows : x.wallet = v => v \in paid /\ x = row[v]
    BY <1>3
  <2>2. RowsOf(v)' = RowsOf(v) \cup {x \in rows : x.wallet = v}
    BY <1>2 DEF RowsOf
  <2>3. CASE v \in paid
    <3>1. RowsOf(v)' = RowsOf(v) \cup {row[v]}
      BY <1>3, <2>1, <2>2, <2>3
    <3>2. RowsOf(v) = {} /\ avail[v] = 0 /\ v \in new
      BY <1>1, <2>3, UnopenedEmpty
    <3>3. row[v] \notin ledger
      BY <1>3, <2>3, <3>2 DEF RowsOf
    <3>4. Seed[v[2]] \in Nat /\ resvd[v] \in Nat
      BY <1>1, AmountAssumption DEF IInv, TypeOK
    <3>5. avail'[v] = avail[v] + AvailEffect(v)[row[v]] /\ resvd'[v] = resvd[v] + ResvdEffect(v)[row[v]]
      BY <1>2, <1>3, <2>3, <3>2, <3>4
    <3>6. PostedTo(v, row[v])
      BY <1>3, <2>3, <3>1, <3>3, <3>5 DEF PostedTo
    <3> QED
      BY <1>3, <2>3, <3>6 DEF Proper
  <2>4. CASE v \notin paid
    <3>1. RowsOf(v)' = RowsOf(v)
      BY <2>1, <2>2, <2>4
    <3>2. v \in new => avail[v] = 0 /\ Seed[v[2]] = 0
      BY <1>1, <2>4, UnopenedEmpty DEF paid
    <3>3. avail'[v] = avail[v]
      BY <1>2, <3>2
    <3> QED
      BY <1>2, <3>1, <3>3 DEF Untouched
  <2> QED
    BY <2>3, <2>4
<1> QED
  BY <1>5, <1>6

-----------------------------------------------------------------------------
(***************************************************************************)
(* A settlement: four rows, one for each wallet, that cancel by asset.     *)
(***************************************************************************)
LEMMA SettlementEffects ==
  ASSUME NEW w \in Wallets, NEW t \in TradeIds, NEW n \in Nat \ {0}
  PROVE  /\ Row(w, t, "SETTLEMENT", "CREDIT", n) \in LedgerRow
         /\ AvailEffect(w)[Row(w, t, "SETTLEMENT", "CREDIT", n)] = n
         /\ ResvdEffect(w)[Row(w, t, "SETTLEMENT", "CREDIT", n)] = 0
         /\ FundEffect(w)[Row(w, t, "SETTLEMENT", "CREDIT", n)] = 0
         /\ Row(w, t, "SETTLEMENT", "DEBIT", n) \in LedgerRow
         /\ AvailEffect(w)[Row(w, t, "SETTLEMENT", "DEBIT", n)] = IF w[1] = MM THEN -n ELSE 0
         /\ ResvdEffect(w)[Row(w, t, "SETTLEMENT", "DEBIT", n)] = IF w[1] = MM THEN 0 ELSE -n
         /\ FundEffect(w)[Row(w, t, "SETTLEMENT", "DEBIT", n)] = 0
<1>1. /\ Row(w, t, "SETTLEMENT", "CREDIT", n) \in LedgerRow
      /\ Row(w, t, "SETTLEMENT", "DEBIT", n) \in LedgerRow
  BY DEF Row, LedgerRow, RefTypes
<1>2. /\ AvailEffect(w)[Row(w, t, "SETTLEMENT", "CREDIT", n)] = n
      /\ ResvdEffect(w)[Row(w, t, "SETTLEMENT", "CREDIT", n)] = 0
      /\ FundEffect(w)[Row(w, t, "SETTLEMENT", "CREDIT", n)] = 0
  BY <1>1 DEF Row, AvailEffect, ResvdEffect, FundEffect
<1>3. /\ AvailEffect(w)[Row(w, t, "SETTLEMENT", "DEBIT", n)] = IF w[1] = MM THEN -n ELSE 0
      /\ ResvdEffect(w)[Row(w, t, "SETTLEMENT", "DEBIT", n)] = IF w[1] = MM THEN 0 ELSE -n
      /\ FundEffect(w)[Row(w, t, "SETTLEMENT", "DEBIT", n)] = 0
  BY <1>1 DEF Row, AvailEffect, ResvdEffect, FundEffect
<1> QED
  BY <1>1, <1>2, <1>3

\* The available balances after a settlement.
LEMMA SettleAvail ==
  ASSUME IInv, NEW r \in SettleReqs, SettleTrade(r), NEW w \in Wallets
  PROVE  avail'[w] = avail[w]
                + (IF w = BuyerBase(r) THEN r.qty ELSE 0)
                + (IF w = SellerQuote(r) THEN QuoteAmount(r) ELSE 0)
                - (IF w = SellerBase(r) /\ r.seller = MM THEN r.qty ELSE 0)
                - (IF w = BuyerQuote(r) /\ r.buyer = MM THEN QuoteAmount(r) ELSE 0)
<1> DEFINE q == QuoteAmount(r)
           once == Plus(avail, BuyerBase(r), r.qty)
           credited == Plus(once, SellerQuote(r), q)
<1>1. q \in Nat /\ r.qty \in Nat
  BY QuoteAmountNat DEF SettleReq
<1>2. ~InvalidSettlement(r)
  BY DEF SettleTrade, SettleReaches
<1>3. avail \in [Wallets -> Nat]
  BY DEF IInv, TypeOK
<1>4. /\ SellerBase(r) \in Wallets /\ BuyerBase(r) \in Wallets
      /\ BuyerQuote(r) \in Wallets /\ SellerQuote(r) \in Wallets
      /\ SellerBase(r) # BuyerBase(r) /\ SellerBase(r) # BuyerQuote(r)
      /\ SellerBase(r) # SellerQuote(r) /\ BuyerBase(r) # BuyerQuote(r)
      /\ BuyerBase(r) # SellerQuote(r) /\ BuyerQuote(r) # SellerQuote(r)
  BY <1>2, FourDistinct
<1>5. r.seller = MM => r.buyer # MM
  BY <1>2 DEF InvalidSettlement
<1>6. avail' = IF r.seller = MM THEN Minus(credited, SellerBase(r), r.qty)
               ELSE IF r.buyer = MM THEN Minus(credited, BuyerQuote(r), q)
               ELSE credited
  BY DEF SettleTrade, SettleLegs
<1> HIDE DEF q
<1>7. once \in [Wallets -> Nat] /\ \A v \in Wallets : once[v] = IF v = BuyerBase(r) THEN avail[v] + r.qty ELSE avail[v]
  BY <1>1, <1>3, <1>4 DEF Plus
<1> HIDE DEF once
<1>8. /\ credited \in [Wallets -> Nat]
      /\ \A v \in Wallets : credited[v] = IF v = SellerQuote(r) THEN once[v] + q ELSE once[v]
  BY <1>1, <1>4, <1>7 DEF Plus
<1> HIDE DEF credited
<1>9. credited[w] = avail[w] + (IF w = BuyerBase(r) THEN r.qty ELSE 0) + (IF w = SellerQuote(r) THEN q ELSE 0)
  BY <1>1, <1>3, <1>4, <1>7, <1>8
<1>10. credited[w] \in Nat
  BY <1>8
<1>11. CASE r.seller = MM
  <2>1. avail'[w] = IF w = SellerBase(r) THEN credited[w] - r.qty ELSE credited[w]
    BY <1>4, <1>6, <1>8, <1>11 DEF Minus
  <2> QED
    BY <1>1, <1>3, <1>5, <1>9, <1>10, <1>11, <2>1 DEF q
<1>12. CASE r.seller # MM /\ r.buyer = MM
  <2>1. avail'[w] = IF w = BuyerQuote(r) THEN credited[w] - q ELSE credited[w]
    BY <1>4, <1>6, <1>8, <1>12 DEF Minus
  <2> QED
    BY <1>1, <1>3, <1>9, <1>10, <1>12, <2>1 DEF q
<1>13. CASE r.seller # MM /\ r.buyer # MM
  <2>1. avail'[w] = credited[w]
    BY <1>6, <1>13
  <2> QED
    BY <1>1, <1>3, <1>9, <1>10, <1>13, <2>1 DEF q
<1> QED
  BY <1>11, <1>12, <1>13

\* SettleTrade writes one row for each of four wallets and moves what the rows say.
LEMMA SettlePosts ==
  ASSUME IInv, MoneyInv, NEW r \in SettleReqs, SettleTrade(r)
  PROVE  /\ PostedTo(SellerBase(r), Row(SellerBase(r), r.id, "SETTLEMENT", "DEBIT", r.qty))
         /\ PostedTo(BuyerBase(r), Row(BuyerBase(r), r.id, "SETTLEMENT", "CREDIT", r.qty))
         /\ PostedTo(BuyerQuote(r), Row(BuyerQuote(r), r.id, "SETTLEMENT", "DEBIT", QuoteAmount(r)))
         /\ PostedTo(SellerQuote(r), Row(SellerQuote(r), r.id, "SETTLEMENT", "CREDIT", QuoteAmount(r)))
         /\ \A v \in Wallets \ FourWallets(r) : Untouched(v)
<1> DEFINE sb == SellerBase(r) bb == BuyerBase(r) bq == BuyerQuote(r) sq == SellerQuote(r)
           q == QuoteAmount(r)
           x1 == Row(sb, r.id, "SETTLEMENT", "DEBIT", r.qty)
           x2 == Row(bb, r.id, "SETTLEMENT", "CREDIT", r.qty)
           x3 == Row(bq, r.id, "SETTLEMENT", "DEBIT", q)
           x4 == Row(sq, r.id, "SETTLEMENT", "CREDIT", q)
<1>1. /\ r.id \in TradeIds /\ r.qty \in Nat \ {0} /\ q \in Nat \ {0}
      /\ ~InvalidSettlement(r) /\ settledSeq[r.id] = 0
      /\ ledger' = ledger \cup {x1, x2, x3, x4}
  BY QuoteAmountNat DEF SettleReq, SettleTrade, SettleReaches, SettlementRows
<1>2. /\ sb \in Wallets /\ bb \in Wallets /\ bq \in Wallets /\ sq \in Wallets
      /\ sb # bb /\ sb # bq /\ sb # sq /\ bb # bq /\ bb # sq /\ bq # sq
  BY <1>1, FourDistinct
<1>3. /\ sb[1] = r.seller /\ bb[1] = r.buyer /\ bq[1] = r.buyer /\ sq[1] = r.seller
      /\ FourWallets(r) = {sb, bb, bq, sq}
  BY DEF SellerBase, BuyerBase, BuyerQuote, SellerQuote, FourWallets
<1>4. \A v \in Wallets : /\ avail[v] \in Nat /\ resvd[v] \in Nat
  BY DEF IInv, TypeOK
<1>5. \A v \in Wallets :
        /\ avail'[v] = avail[v]
                + (IF v = bb THEN r.qty ELSE 0) + (IF v = sq THEN q ELSE 0)
                - (IF v = sb /\ r.seller = MM THEN r.qty ELSE 0)
                - (IF v = bq /\ r.buyer = MM THEN q ELSE 0)
        /\ resvd'[v] = resvd[v]
                - (IF v = sb /\ r.seller # MM THEN r.qty ELSE 0)
                - (IF v = bq /\ r.buyer # MM THEN q ELSE 0)
  BY SettleAvail, SettleBalances
<1>6. /\ x1 \in LedgerRow /\ x2 \in LedgerRow /\ x3 \in LedgerRow /\ x4 \in LedgerRow
      /\ AvailEffect(sb)[x1] = (IF r.seller = MM THEN -r.qty ELSE 0)
      /\ ResvdEffect(sb)[x1] = (IF r.seller = MM THEN 0 ELSE -r.qty)
      /\ AvailEffect(bb)[x2] = r.qty /\ ResvdEffect(bb)[x2] = 0
      /\ AvailEffect(bq)[x3] = (IF r.buyer = MM THEN -q ELSE 0)
      /\ ResvdEffect(bq)[x3] = (IF r.buyer = MM THEN 0 ELSE -q)
      /\ AvailEffect(sq)[x4] = q /\ ResvdEffect(sq)[x4] = 0
  <2> HIDE DEF sb, bb, bq, sq, q
  <2>1. /\ x1 \in LedgerRow /\ AvailEffect(sb)[x1] = (IF r.seller = MM THEN -r.qty ELSE 0)
        /\ ResvdEffect(sb)[x1] = (IF r.seller = MM THEN 0 ELSE -r.qty)
    BY <1>1, <1>2, <1>3, SettlementEffects
  <2>2. x2 \in LedgerRow /\ AvailEffect(bb)[x2] = r.qty /\ ResvdEffect(bb)[x2] = 0
    BY <1>1, <1>2, SettlementEffects
  <2>3. /\ x3 \in LedgerRow /\ AvailEffect(bq)[x3] = (IF r.buyer = MM THEN -q ELSE 0)
        /\ ResvdEffect(bq)[x3] = (IF r.buyer = MM THEN 0 ELSE -q)
    BY <1>1, <1>2, <1>3, SettlementEffects
  <2>4. x4 \in LedgerRow /\ AvailEffect(sq)[x4] = q /\ ResvdEffect(sq)[x4] = 0
    BY <1>1, <1>2, SettlementEffects
  <2> QED
    BY <2>1, <2>2, <2>3, <2>4
<1>7. /\ x1.wallet = sb /\ x2.wallet = bb /\ x3.wallet = bq /\ x4.wallet = sq
      /\ \A x \in {x1, x2, x3, x4} : x.type = "SETTLEMENT" /\ x.ref = r.id
  BY DEF Row
<1>8. x1 \notin ledger /\ x2 \notin ledger /\ x3 \notin ledger /\ x4 \notin ledger
  BY <1>1, <1>7 DEF IInv, SettlementRegistered
<1> HIDE DEF sb, bb, bq, sq, q, x1, x2, x3, x4
<1>9. /\ RowsOf(sb)' = RowsOf(sb) \cup {x1}
      /\ RowsOf(bb)' = RowsOf(bb) \cup {x2}
      /\ RowsOf(bq)' = RowsOf(bq) \cup {x3}
      /\ RowsOf(sq)' = RowsOf(sq) \cup {x4}
      /\ \A v \in Wallets \ {sb, bb, bq, sq} : RowsOf(v)' = RowsOf(v)
  <2> DEFINE R(v) == {x \in ledger : x.wallet = v}
             N(v) == {x \in ledger' : x.wallet = v}
  <2>1. N(sb) = R(sb) \cup {x1} /\ N(bb) = R(bb) \cup {x2}
    BY <1>1, <1>2, <1>7
  <2>2. N(bq) = R(bq) \cup {x3} /\ N(sq) = R(sq) \cup {x4}
    BY <1>1, <1>2, <1>7
  <2>3. \A v \in Wallets \ {sb, bb, bq, sq} : N(v) = R(v)
    BY <1>1, <1>7
  <2> QED
    BY <2>1, <2>2, <2>3 DEF RowsOf, sb, bb, bq, sq
<1>10. PostedTo(sb, x1)
  BY <1>1, <1>2, <1>4, <1>5, <1>6, <1>7, <1>8, <1>9 DEF PostedTo
<1>11. PostedTo(bb, x2)
  BY <1>1, <1>2, <1>4, <1>5, <1>6, <1>7, <1>8, <1>9 DEF PostedTo
<1>12. PostedTo(bq, x3)
  BY <1>1, <1>2, <1>4, <1>5, <1>6, <1>7, <1>8, <1>9 DEF PostedTo
<1>13. PostedTo(sq, x4)
  BY <1>1, <1>2, <1>4, <1>5, <1>6, <1>7, <1>8, <1>9 DEF PostedTo
<1>14. \A v \in Wallets \ {sb, bb, bq, sq} : Untouched(v)
  BY <1>4, <1>5, <1>9 DEF Untouched
<1> QED
  BY <1>3, <1>10, <1>11, <1>12, <1>13, <1>14 DEF sb, bb, bq, sq, q, x1, x2, x3, x4

\* SettleTrade writes rows of wallets that exist and releases no reservation.
LEMMA SettleKnown ==
  ASSUME IInv, MoneyInv, NEW r \in SettleReqs, SettleTrade(r)
  PROVE  LedgerKnown'
<1>1. IsFiniteSet(SettlementRows(r))
  <2> DEFINE x1 == Row(SellerBase(r), r.id, "SETTLEMENT", "DEBIT", r.qty)
             x2 == Row(BuyerBase(r), r.id, "SETTLEMENT", "CREDIT", r.qty)
             x3 == Row(BuyerQuote(r), r.id, "SETTLEMENT", "DEBIT", QuoteAmount(r))
             x4 == Row(SellerQuote(r), r.id, "SETTLEMENT", "CREDIT", QuoteAmount(r))
  <2>1. SettlementRows(r) = ((({} \cup {x1}) \cup {x2}) \cup {x3}) \cup {x4}
    BY DEF SettlementRows
  <2> HIDE DEF x1, x2, x3, x4
  <2>2. IsFiniteSet({} \cup {x1})
    BY FS_EmptySet, FS_AddElement
  <2>3. IsFiniteSet(({} \cup {x1}) \cup {x2})
    BY <2>2, FS_AddElement
  <2>4. IsFiniteSet((({} \cup {x1}) \cup {x2}) \cup {x3})
    BY <2>3, FS_AddElement
  <2> QED
    BY <2>1, <2>4, FS_AddElement
<1>2. ledger' = ledger \cup SettlementRows(r) /\ opened' = opened /\ FourWallets(r) \subseteq opened
  BY DEF SettleTrade, SettleReaches
<1>3. IsFiniteSet(ledger')
  BY <1>1, <1>2, FS_Union DEF MoneyInv, LedgerKnown
<1>4. \A x \in SettlementRows(r) : x.wallet \in opened /\ x.type = "SETTLEMENT"
  BY <1>2 DEF SettlementRows, Row, FourWallets
<1>5. \A o \in Orders : /\ res[o].status # "NONE" => res'[o].status # "NONE"
                        /\ res[o].status = "RELEASED" => res'[o] = res[o]
  <2>1. \A o \in Orders : \/ res'[o] = res[o]
                          \/ \E n : res'[o] = ConsumeRemaining(o, n)
    BY DEF SettleTrade, SettleLegs
  <2>2. \A o \in Orders : res[o] \in Reservation
    BY DEF IInv, TypeOK
  <2>3. \A o \in Orders : \A n : ConsumeRemaining(o, n).status # "NONE"
    BY <2>2 DEF ConsumeRemaining, Reservation
  <2> QED
    BY <2>1, <2>3, SettleRows DEF Terminal
<1> QED
  BY <1>2, <1>3, <1>4, <1>5 DEF MoneyInv, LedgerKnown

\* Trades move excess from one wallet to another of the same asset.
LEMMA SettleSupplied ==
  ASSUME IInv, IInv', MoneyInv, LedgerKnown', NEW r \in SettleReqs, SettleTrade(r)
  PROVE  Supplied'
<1> DEFINE sb == SellerBase(r) bb == BuyerBase(r) bq == BuyerQuote(r) sq == SellerQuote(r)
           q == QuoteAmount(r)
<1>1. /\ r.id \in TradeIds /\ r.qty \in Nat \ {0} /\ q \in Nat \ {0}
      /\ ~InvalidSettlement(r) /\ r.buyer \in Users /\ r.seller \in Users
  BY QuoteAmountNat DEF SettleReq, SettleTrade, SettleReaches
<1>2. /\ sb \in Wallets /\ bb \in Wallets /\ bq \in Wallets /\ sq \in Wallets
      /\ sb # bb /\ bq # sq
  BY <1>1, FourDistinct
<1>3. /\ IsFiniteSet(ledger) /\ IsFiniteSet(ledger')
      /\ ledger \subseteq LedgerRow /\ ledger' \subseteq LedgerRow
  BY DEF MoneyInv, LedgerKnown, IInv, TypeOK
<1>4. ASSUME NEW v \in Wallets, NEW x, PostedTo(v, x), NEW d \in Int,
             FundEffect(v)[x] = 0, AvailEffect(v)[x] + ResvdEffect(v)[x] = d
      PROVE  Excess'[v] = Excess[v] + d
  <2>1. Total(FundEffect(v), ledger') = Total(FundEffect(v), ledger) + FundEffect(v)[x]
    BY <1>3, <1>4, PostedTotal
  <2>2. /\ x \in LedgerRow
        /\ avail'[v] = avail[v] + AvailEffect(v)[x]
        /\ resvd'[v] = resvd[v] + ResvdEffect(v)[x]
    BY <1>4 DEF PostedTo
  <2>3. AvailEffect(v)[x] \in Int /\ ResvdEffect(v)[x] \in Int
    BY <2>2, EffectType
  <2>4. Total(FundEffect(v), ledger) \in Int
    BY <1>3, EffectsInt
  <2>5. /\ Excess[v] = avail[v] + resvd[v] - Total(FundEffect(v), ledger)
        /\ Excess'[v] = avail'[v] + resvd'[v] - Total(FundEffect(v), ledger')
    BY DEF Excess, FundEffect
  <2>6. avail[v] \in Nat /\ resvd[v] \in Nat
    BY DEF IInv, TypeOK
  <2> QED
    BY <1>4, <2>1, <2>2, <2>3, <2>4, <2>5, <2>6
<1>5. sb[1] = r.seller /\ bq[1] = r.buyer
  BY DEF SellerBase, BuyerQuote
<1>6. Excess'[sb] = Excess[sb] - r.qty
  <2> DEFINE x == Row(sb, r.id, "SETTLEMENT", "DEBIT", r.qty)
  <2>1. PostedTo(sb, x)
    BY SettlePosts
  <2> HIDE DEF sb
  <2>2. FundEffect(sb)[x] = 0 /\ AvailEffect(sb)[x] + ResvdEffect(sb)[x] = -r.qty
    BY <1>1, <1>2, SettlementEffects
  <2>3. Excess'[sb] = Excess[sb] + (-r.qty)
    BY <1>1, <1>2, <1>4, <2>1, <2>2
  <2>4. Excess[sb] \in Int
    BY <1>2, <1>3, EffectsInt DEF Excess, IInv, TypeOK
  <2> QED
    BY <1>1, <2>3, <2>4
<1>7. Excess'[bb] = Excess[bb] + r.qty
  <2> DEFINE x == Row(bb, r.id, "SETTLEMENT", "CREDIT", r.qty)
  <2>1. PostedTo(bb, x)
    BY SettlePosts
  <2> HIDE DEF bb
  <2>2. FundEffect(bb)[x] = 0 /\ AvailEffect(bb)[x] + ResvdEffect(bb)[x] = r.qty
    BY <1>1, <1>2, SettlementEffects
  <2> QED
    BY <1>1, <1>2, <1>4, <2>1, <2>2
<1>8. Excess'[bq] = Excess[bq] - q
  <2> DEFINE x == Row(bq, r.id, "SETTLEMENT", "DEBIT", q)
  <2>1. PostedTo(bq, x)
    BY SettlePosts
  <2> HIDE DEF bq, q
  <2>2. FundEffect(bq)[x] = 0 /\ AvailEffect(bq)[x] + ResvdEffect(bq)[x] = -q
    BY <1>1, <1>2, SettlementEffects
  <2>3. Excess'[bq] = Excess[bq] + (-q)
    BY <1>1, <1>2, <1>4, <2>1, <2>2
  <2>4. Excess[bq] \in Int
    BY <1>2, <1>3, EffectsInt DEF Excess, IInv, TypeOK
  <2> QED
    BY <1>1, <2>3, <2>4
<1>9. Excess'[sq] = Excess[sq] + q
  <2> DEFINE x == Row(sq, r.id, "SETTLEMENT", "CREDIT", q)
  <2>1. PostedTo(sq, x)
    BY SettlePosts
  <2> HIDE DEF sq, q
  <2>2. FundEffect(sq)[x] = 0 /\ AvailEffect(sq)[x] + ResvdEffect(sq)[x] = q
    BY <1>1, <1>2, SettlementEffects
  <2> QED
    BY <1>1, <1>2, <1>4, <2>1, <2>2
<1>10. \A v \in Wallets \ {sb, bb, bq, sq} : Excess'[v] = Excess[v]
  <2>1. \A v \in Wallets \ {sb, bb, bq, sq} : Untouched(v)
    BY SettlePosts DEF FourWallets
  <2> QED
    BY <1>3, <2>1, ExcessStays
<1>11. \A v \in Wallets : Excess[v] \in Int /\ Excess'[v] \in Int
  BY <1>3, EffectsInt DEF Excess, IInv, TypeOK
<1>12. /\ sb \in Users \X {Base} /\ bb \in Users \X {Base}
       /\ bq \in Users \X {Quote} /\ sq \in Users \X {Quote}
       /\ Base # Quote
  BY <1>1, AccountAssumption DEF SellerBase, BuyerBase, BuyerQuote, SellerQuote
<1>13. \A a \in Assets : IsFiniteSet(Users \X {a}) /\ Users \X {a} \subseteq Wallets
  BY FiniteAssumption, FS_Singleton, FS_Product DEF Wallets
<1> HIDE DEF sb, bb, bq, sq, q
<1>14. Total(Excess', Users \X {Base}) = Total(Excess, Users \X {Base})
  <2> DEFINE S == Users \X {Base}
             f == Excess
             g == Excess'
  <2>1. IsFiniteSet(S) /\ S \subseteq Wallets /\ sb \in S /\ bb \in S /\ bq \notin S /\ sq \notin S
    BY <1>12, <1>13 DEF Assets
  <2>2. \A v \in S : f[v] \in Int /\ g[v] \in Int
    BY <1>11, <2>1
  <2>3. \A v \in S \ {sb, bb} : f[v] = g[v]
    BY <1>10, <2>1
  <2>4. f[sb] + f[bb] = g[sb] + g[bb]
    BY <1>1, <1>2, <1>6, <1>7, <1>11
  <2> HIDE DEF S, f, g
  <2>5. Total(f, S) = Total(g, S)
    BY <1>2, <2>1, <2>2, <2>3, <2>4, TotalTransfer
  <2> QED
    BY <2>5 DEF S, f, g
<1>15. Total(Excess', Users \X {Quote}) = Total(Excess, Users \X {Quote})
  <2> DEFINE S == Users \X {Quote}
             f == Excess
             g == Excess'
  <2>1. IsFiniteSet(S) /\ S \subseteq Wallets /\ bq \in S /\ sq \in S /\ bb \notin S /\ sb \notin S
    BY <1>12, <1>13 DEF Assets
  <2>2. \A v \in S : f[v] \in Int /\ g[v] \in Int
    BY <1>11, <2>1
  <2>3. \A v \in S \ {bq, sq} : f[v] = g[v]
    BY <1>10, <2>1
  <2>4. f[bq] + f[sq] = g[bq] + g[sq]
    BY <1>1, <1>2, <1>8, <1>9, <1>11
  <2> HIDE DEF S, f, g
  <2>5. Total(f, S) = Total(g, S)
    BY <1>2, <2>1, <2>2, <2>3, <2>4, TotalTransfer
  <2> QED
    BY <2>5 DEF S, f, g
<1>16. \A a \in Assets : Total(Excess, Users \X {a}) = 0
  BY DEF MoneyInv, Supplied
<1>17. \A a \in Assets : Total(Excess', Users \X {a}) = 0
  BY <1>14, <1>15, <1>16 DEF Assets
<1> QED
  BY <1>17 DEF Supplied

\* The seeded wallets of the market maker satisfy the invariant.
LEMMA MoneyInit ==
  ASSUME Init, IInv
  PROVE  MoneyInv
<1> DEFINE paid == {w \in {MM} \X Assets : MMSeed[w[2]] # 0}
           row == [w \in paid |-> Row(w, MM, "INITIAL_ALLOCATION", "CREDIT", MMSeed[w[2]])]
<1>1. /\ paid \subseteq Wallets /\ paid \subseteq opened /\ MM \in Users
      /\ \A w \in Wallets : w[1] \in Users /\ w[2] \in Assets
  BY AccountAssumption DEF Init, Wallets
<1>2. /\ avail = [w \in Wallets |-> IF w[1] = MM THEN MMSeed[w[2]] ELSE 0]
      /\ resvd = [w \in Wallets |-> 0]
      /\ ledger = {row[w] : w \in paid}
  BY DEF Init
<1>3. ASSUME NEW w \in paid
      PROVE  /\ row[w] \in LedgerRow /\ row[w].wallet = w
             /\ AvailEffect(w)[row[w]] = MMSeed[w[2]] /\ ResvdEffect(w)[row[w]] = 0
             /\ row[w].type = "INITIAL_ALLOCATION" /\ Proper(row[w])
  <2>1. w \in Wallets /\ MMSeed[w[2]] \in Nat \ {0}
    BY <1>1, AmountAssumption
  <2>2. row[w] = Row(w, MM, "INITIAL_ALLOCATION", "CREDIT", MMSeed[w[2]])
    OBVIOUS
  <2> HIDE DEF row, paid
  <2>3. /\ row[w] \in LedgerRow
        /\ AvailEffect(w)[row[w]] = MMSeed[w[2]] /\ ResvdEffect(w)[row[w]] = 0
    BY <1>1, <2>1, <2>2, RowEffects
  <2> QED
    BY <2>2, <2>3 DEF Row, Proper
<1>4. IsFiniteSet(ledger)
  <2>1. IsFiniteSet(Assets)
    <3>1. IsFiniteSet({Base} \cup {Quote})
      BY FS_Singleton, FS_AddElement
    <3>2. {Base} \cup {Quote} = Assets
      BY DEF Assets
    <3> QED
      BY <3>1, <3>2
  <2>2. IsFiniteSet({MM} \X Assets)
    BY <2>1, FS_Singleton, FS_Product
  <2>3. paid \subseteq {MM} \X Assets
    OBVIOUS
  <2>4. IsFiniteSet(paid)
    BY <2>2, <2>3, FS_Subset
  <2>5. row \in Surjection(paid, ledger)
    BY <1>2 DEF Surjection
  <2> HIDE DEF paid, row
  <2> QED
    BY <2>4, <2>5, FS_Surjection
<1>5. LedgerKnown
  <2> HIDE DEF row
  <2> QED
    BY <1>1, <1>2, <1>3, <1>4 DEF LedgerKnown
<1>6. CallsOpened
  BY DEF Init, CallsOpened
<1>7. ledger \subseteq LedgerRow
  BY DEF IInv, TypeOK
<1>8. ASSUME NEW v \in Wallets
      PROVE  /\ avail[v] = Total(AvailEffect(v), ledger)
             /\ resvd[v] = Total(ResvdEffect(v), ledger)
             /\ Excess[v] = 0
  <2> DEFINE a == AvailEffect(v) b == ResvdEffect(v) c == FundEffect(v)
  <2>1. /\ Total(a, ledger) = Total(a, RowsOf(v))
        /\ Total(b, ledger) = Total(b, RowsOf(v))
        /\ Total(c, ledger) = Total(c, RowsOf(v))
    BY <1>4, <1>7, OwnRows DEF RowsOf
  <2>2. Total(a, {}) = 0 /\ Total(b, {}) = 0 /\ Total(c, {}) = 0
    BY TotalEmpty
  <2>3. Excess[v] = avail[v] + resvd[v] - Total(c, ledger)
    BY DEF Excess
  <2>4. CASE v \in paid
    <3> HIDE DEF row
    <3>1. RowsOf(v) = {row[v]}
      BY <1>2, <1>3, <2>4 DEF RowsOf
    <3>2. row[v] \in LedgerRow /\ row[v].wallet = v /\ Proper(row[v])
      BY <1>3, <2>4
    <3>3. a[row[v]] = MMSeed[v[2]] /\ b[row[v]] = 0
      BY <1>3, <2>4
    <3>4. a[row[v]] + b[row[v]] = c[row[v]]
      BY <3>2, ProperBalances
    <3>5. c[row[v]] = MMSeed[v[2]] /\ MMSeed[v[2]] \in Nat
      BY <1>1, <2>4, <3>3, <3>4, AmountAssumption
    <3> HIDE DEF a, b, c
    <3>6. Total(a, {row[v]}) = a[row[v]] /\ Total(b, {row[v]}) = b[row[v]] /\ Total(c, {row[v]}) = c[row[v]]
      BY <3>3, <3>5, TotalOne
    <3>7. avail[v] = MMSeed[v[2]] /\ resvd[v] = 0
      BY <1>1, <1>2, <2>4
    <3> QED
      BY <2>1, <2>3, <3>1, <3>3, <3>5, <3>6, <3>7 DEF a, b, c
  <2>5. CASE v \notin paid
    <3> HIDE DEF row
    <3>1. RowsOf(v) = {}
      BY <1>2, <1>3, <2>5 DEF RowsOf
    <3>2. avail[v] = 0 /\ resvd[v] = 0
      BY <1>1, <1>2, <2>5 DEF Wallets
    <3> QED
      BY <2>1, <2>2, <2>3, <3>1, <3>2
  <2> QED
    BY <2>4, <2>5
<1>9. Supplied
  <2> SUFFICES ASSUME NEW a \in Assets PROVE Total(Excess, Users \X {a}) = 0
    BY DEF Supplied
  <2> DEFINE S == Users \X {a}
  <2>1. IsFiniteSet(S) /\ S \subseteq Wallets
    BY FiniteAssumption, FS_Singleton, FS_Product DEF Wallets
  <2>2. {} \in SUBSET S /\ (\A y \in S : Excess[y] \in Int) /\ \A y \in S \ {} : Excess[y] = 0
    BY <1>8, <2>1
  <2> HIDE DEF S
  <2>3. Total(Excess, S) = Total(Excess, {})
    BY <2>1, <2>2, TotalZeros
  <2>4. Total(Excess, {}) = 0
    BY TotalEmpty
  <2> QED
    BY <2>3, <2>4 DEF S
<1> QED
  BY <1>5, <1>6, <1>8, <1>9, BackedInit DEF MoneyInv, Explained

\* Steps that post only proper rows, or none, keep the invariant.
LEMMA ProperStep ==
  ASSUME IInv, IInv', MoneyInv, Next, LedgerKnown', CallsOpened',
         \A v \in Wallets : Untouched(v) \/ \E x : PostedTo(v, x) /\ Proper(x)
  PROVE  MoneyInv'
<1>1. IsFiniteSet(ledger) /\ IsFiniteSet(ledger')
  BY DEF MoneyInv, LedgerKnown
<1>2. Explained'
  BY <1>1, ExplainedStep DEF MoneyInv
<1>3. \A v \in Wallets : Excess'[v] = Excess[v]
  BY <1>1, ExcessStays
<1>4. Supplied'
  <2> SUFFICES ASSUME NEW a \in Assets PROVE Total(Excess', Users \X {a}) = 0
    BY DEF Supplied
  <2>1. IsFiniteSet(Users \X {a}) /\ Users \X {a} \subseteq Wallets
    BY FiniteAssumption, FS_Singleton, FS_Product DEF Wallets
  <2>2. \A y \in Users \X {a} : Excess[y] = Excess'[y]
    BY <1>3, <2>1
  <2>3. Total(Excess, Users \X {a}) = Total(Excess', Users \X {a})
    BY <2>1, <2>2, TotalAgree
  <2> QED
    BY <2>3 DEF MoneyInv, Supplied
<1> QED
  BY <1>2, <1>4, BackedStep DEF MoneyInv

\* Wallets are never closed, so a call keeps the wallet it has found.
LEMMA CallsStep ==
  ASSUME IInv, MoneyInv, Next
  PROVE  CallsOpened'
<1>0. CallsOpened
  BY DEF MoneyInv
<1>1. ASSUME NEW u \in Users, InitializeWallet(u) PROVE CallsOpened'
  BY <1>0, <1>1 DEF InitializeWallet, CallsOpened, calls
<1>2. ASSUME NEW c \in ReserveReqs, ReserveBegin(c) PROVE CallsOpened'
  <2>1. \A d \in reserving' : d \in reserving \/ d.req = c
    BY <1>2 DEF ReserveBegin
  <2> QED
    BY <1>0, <1>2, <2>1 DEF ReserveBegin, CallsOpened
<1>3. ASSUME NEW c \in reserving, ReserveCommit(c) \/ ReserveRefuse(c) PROVE CallsOpened'
  BY <1>0, <1>3 DEF ReserveCommit, ReserveRefuse, CallsOpened
<1>4. ASSUME NEW o \in Orders, ReleaseFunds(o) PROVE CallsOpened'
  BY <1>0, <1>4 DEF ReleaseFunds, CallsOpened, calls
<1>5. ASSUME NEW r \in SettleReqs, SettleTrade(r) PROVE CallsOpened'
  BY <1>0, <1>5 DEF SettleTrade, CallsOpened, calls
<1>6. ASSUME NEW c \in DepositReqs, DepositBegin(c) PROVE CallsOpened'
  <2>1. \A d \in depositing' : d \in depositing \/ d.req = c
    BY <1>6 DEF DepositBegin
  <2> QED
    BY <1>0, <1>6, <2>1 DEF DepositBegin, CallsOpened
<1>7. ASSUME NEW c \in depositing, DepositCommit(c) \/ DepositRefuse(c) PROVE CallsOpened'
  BY <1>0, <1>7 DEF DepositCommit, DepositRefuse, CallsOpened
<1>8. ASSUME NEW w \in FreezeReqs, FreezeWallet(w) PROVE CallsOpened'
  BY <1>0, <1>8 DEF FreezeWallet, CallsOpened, calls
<1> QED
  BY <1>1, <1>2, <1>3, <1>4, <1>5, <1>6, <1>7, <1>8 DEF Next

\* Every step preserves the invariant.
LEMMA MoneyStep == IInv /\ MoneyInv /\ [Next]_vars => MoneyInv'
<1> SUFFICES ASSUME IInv, MoneyInv, [Next]_vars PROVE MoneyInv'
  OBVIOUS
<1>1. IInv'
  BY StepInv
<1>2. CASE UNCHANGED vars
  BY <1>2 DEF vars, MoneyInv, LedgerKnown, CallsOpened, Backed, HeldBy, Held, ReservationWallet,
              Explained, Supplied, Excess
<1>3. CASE Next
  <2>1. CallsOpened'
    BY <1>3, CallsStep
  <2>2. ASSUME Quietly, UNCHANGED <<opened, res>> PROVE MoneyInv'
    <3>1. LedgerKnown'
      BY <2>2 DEF MoneyInv, LedgerKnown, Quietly
    <3> QED
      BY <1>1, <1>3, <2>1, <2>2, <3>1, QuietSteps, ProperStep
  <2>3. ASSUME NEW u \in Users, InitializeWallet(u) PROVE MoneyInv'
    BY <1>1, <1>3, <2>1, <2>3, InitializeMoney, ProperStep
  <2>4. ASSUME NEW c \in reserving, ReserveCommit(c) PROVE MoneyInv'
    BY <1>1, <1>3, <2>1, <2>4, ReserveMoney, ProperStep
  <2>5. ASSUME NEW o \in Orders, ReleaseFunds(o) PROVE MoneyInv'
    BY <1>1, <1>3, <2>1, <2>5, ReleaseMoney, ProperStep
  <2>6. ASSUME NEW r \in SettleReqs, SettleTrade(r) PROVE MoneyInv'
    <3>1. LedgerKnown'
      BY <2>6, SettleKnown
    <3>2. \A v \in Wallets : Untouched(v) \/ \E x : PostedTo(v, x)
      BY <2>6, SettlePosts DEF FourWallets
    <3>3. IsFiniteSet(ledger) /\ IsFiniteSet(ledger')
      BY <3>1 DEF MoneyInv, LedgerKnown
    <3>4. Explained'
      BY <1>1, <3>2, <3>3, ExplainedStep DEF MoneyInv
    <3>5. Supplied'
      BY <1>1, <2>6, <3>1, SettleSupplied
    <3> QED
      BY <1>1, <1>3, <2>1, <3>1, <3>4, <3>5, BackedStep DEF MoneyInv
  <2>7. ASSUME NEW c \in depositing, DepositCommit(c) PROVE MoneyInv'
    BY <1>1, <1>3, <2>1, <2>7, DepositMoney, ProperStep
  <2> QED
    BY <1>3, <2>2, <2>3, <2>4, <2>5, <2>6, <2>7
       DEF Next, ReserveBegin, ReserveRefuse, DepositBegin, DepositRefuse, FreezeWallet,
           Quietly, balances
<1> QED
  BY <1>2, <1>3

-----------------------------------------------------------------------------
(***************************************************************************)
(* From the invariant to the sums of Conserved.                            *)
(***************************************************************************)

\* The amounts of the rows of wallet w with a type in T and direction d.
Amounts(w, T, d) ==
  [x \in LedgerRow |-> IF x.wallet = w /\ x.type \in T /\ x.dir = d THEN x.amount ELSE 0]

\* The sum of posted amounts is a sum over the whole ledger.
LEMMA PostedIsTotal ==
  ASSUME IInv, LedgerKnown, NEW w, NEW T, NEW d
  PROVE  Posted(w, T, d) = Total(Amounts(w, T, d), ledger)
<1> DEFINE f == Amounts(w, T, d)
           R == Rows(w, T, d)
<1>1. ledger \subseteq LedgerRow /\ IsFiniteSet(ledger)
  BY DEF IInv, TypeOK, LedgerKnown
<1>2. R \in SUBSET ledger /\ IsFiniteSet(R)
  BY <1>1, FS_Subset DEF Rows
<1>3. \A x \in ledger : f[x] \in Int
  BY <1>1 DEF Amounts, LedgerRow
<1>4. (\A x \in ledger \ R : f[x] = 0) /\ \A x \in R : f[x] = x.amount
  BY <1>1 DEF Amounts, Rows
<1> HIDE DEF f
<1>5. Total(f, ledger) = Total(f, R)
  BY <1>1, <1>2, <1>3, <1>4, TotalZeros
<1>6. Posted(w, T, d) = Total(f, R)
  BY <1>2, <1>4, SumPosted
<1> QED
  BY <1>5, <1>6 DEF f

\* The effects of the rows are the columns of the reconciliation.
LEMMA MoneyReconciles ==
  ASSUME IInv, MoneyInv
  PROVE  LedgerReconciles
<1> SUFFICES ASSUME NEW w \in Wallets
             PROVE  /\ avail[w] = Posted(w, RefTypes, "CREDIT") - Posted(w, {"RESERVATION"}, "DEBIT")
                                 - (IF w[1] = MM THEN Posted(w, {"SETTLEMENT"}, "DEBIT") ELSE 0)
                    /\ resvd[w] = Posted(w, {"RESERVATION"}, "DEBIT") - Posted(w, {"RELEASE"}, "CREDIT")
                                 - (IF w[1] = MM THEN 0 ELSE Posted(w, {"SETTLEMENT"}, "DEBIT"))
  BY DEF LedgerReconciles
<1> DEFINE credit  == Amounts(w, RefTypes, "CREDIT")
           locked  == Amounts(w, {"RESERVATION"}, "DEBIT")
           settled == Amounts(w, {"SETTLEMENT"}, "DEBIT")
           freed   == Amounts(w, {"RELEASE"}, "CREDIT")
           a       == AvailEffect(w)
           b       == ResvdEffect(w)
           sa      == [x \in LedgerRow |-> IF w[1] = MM THEN settled[x] ELSE 0]
           sb      == [x \in LedgerRow |-> IF w[1] = MM THEN 0 ELSE settled[x]]
           la      == [x \in LedgerRow |-> locked[x] + sa[x]]
           fb      == [x \in LedgerRow |-> freed[x] + sb[x]]
<1>1. /\ Posted(w, RefTypes, "CREDIT") = Total(credit, ledger)
      /\ Posted(w, {"RESERVATION"}, "DEBIT") = Total(locked, ledger)
      /\ Posted(w, {"SETTLEMENT"}, "DEBIT") = Total(settled, ledger)
      /\ Posted(w, {"RELEASE"}, "CREDIT") = Total(freed, ledger)
  BY PostedIsTotal DEF MoneyInv
<1>2. ledger \subseteq LedgerRow /\ IsFiniteSet(ledger)
  BY DEF IInv, TypeOK, MoneyInv, LedgerKnown
<1>3. avail[w] = Total(a, ledger) /\ resvd[w] = Total(b, ledger)
  BY DEF MoneyInv, Explained
<1>4. \A x \in LedgerRow : /\ credit[x] \in Int /\ locked[x] \in Int /\ settled[x] \in Int
                           /\ freed[x] \in Int /\ a[x] \in Int /\ b[x] \in Int
  BY EffectType DEF Amounts, LedgerRow
<1>5. ASSUME NEW x \in LedgerRow
      PROVE  credit[x] = a[x] + la[x] /\ locked[x] = b[x] + fb[x]
  <2>1. x.amount \in Int /\ x.type \in RefTypes /\ x.dir \in {"CREDIT", "DEBIT"}
    BY DEF LedgerRow
  <2>2. a[x] = (IF x.wallet # w THEN 0 ELSE IF x.dir = "CREDIT" THEN x.amount
                ELSE IF x.type = "RESERVATION" \/ (x.type = "SETTLEMENT" /\ w[1] = MM) THEN -x.amount
                ELSE 0)
    BY DEF AvailEffect
  <2>3. b[x] = (IF x.wallet # w THEN 0
                ELSE IF x.dir = "DEBIT" /\ x.type = "RESERVATION" THEN x.amount
                ELSE IF \/ x.dir = "CREDIT" /\ x.type = "RELEASE"
                        \/ x.dir = "DEBIT" /\ x.type = "SETTLEMENT" /\ w[1] # MM
                THEN -x.amount ELSE 0)
    BY DEF ResvdEffect
  <2>4. /\ credit[x] = (IF x.wallet = w /\ x.dir = "CREDIT" THEN x.amount ELSE 0)
        /\ locked[x] = (IF x.wallet = w /\ x.type = "RESERVATION" /\ x.dir = "DEBIT" THEN x.amount ELSE 0)
        /\ settled[x] = (IF x.wallet = w /\ x.type = "SETTLEMENT" /\ x.dir = "DEBIT" THEN x.amount ELSE 0)
        /\ freed[x] = (IF x.wallet = w /\ x.type = "RELEASE" /\ x.dir = "CREDIT" THEN x.amount ELSE 0)
    BY <2>1 DEF Amounts
  <2>5. /\ la[x] = locked[x] + (IF w[1] = MM THEN settled[x] ELSE 0)
        /\ fb[x] = freed[x] + (IF w[1] = MM THEN 0 ELSE settled[x])
    OBVIOUS
  <2> HIDE DEF a, b, credit, locked, settled, freed, la, fb
  <2>6. credit[x] = a[x] + la[x]
    BY <2>1, <2>2, <2>4, <2>5
  <2>7. locked[x] = b[x] + fb[x]
    BY <2>1, <2>3, <2>4, <2>5
  <2> QED
    BY <2>6, <2>7
<1>6. /\ \A x \in LedgerRow : la[x] = locked[x] + sa[x] /\ fb[x] = freed[x] + sb[x]
      /\ \A x \in LedgerRow : sa[x] \in Int /\ sb[x] \in Int
      /\ \A x \in LedgerRow : sa[x] = IF w[1] = MM THEN settled[x] ELSE 0
      /\ \A x \in LedgerRow : sb[x] = IF w[1] = MM THEN 0 ELSE settled[x]
  BY <1>4
<1>7. \A x \in LedgerRow : la[x] \in Int /\ fb[x] \in Int
  BY <1>4, <1>6
<1> HIDE DEF a, b, credit, locked, settled, freed, la, fb, sa, sb
<1>8. Total(credit, ledger) = Total(a, ledger) + Total(la, ledger)
  <2>1. \A x \in ledger : a[x] \in Int /\ la[x] \in Int /\ credit[x] = a[x] + la[x]
    BY <1>2, <1>4, <1>5, <1>7
  <2> QED
    BY <1>2, <2>1, TotalPlus
<1>9. Total(la, ledger) = Total(locked, ledger) + Total(sa, ledger)
  <2>1. \A x \in ledger : locked[x] \in Int /\ sa[x] \in Int /\ la[x] = locked[x] + sa[x]
    BY <1>2, <1>4, <1>6
  <2> QED
    BY <1>2, <2>1, TotalPlus
<1>10. Total(locked, ledger) = Total(b, ledger) + Total(fb, ledger)
  <2>1. \A x \in ledger : b[x] \in Int /\ fb[x] \in Int /\ locked[x] = b[x] + fb[x]
    BY <1>2, <1>4, <1>5, <1>7
  <2> QED
    BY <1>2, <2>1, TotalPlus
<1>11. Total(fb, ledger) = Total(freed, ledger) + Total(sb, ledger)
  <2>1. \A x \in ledger : freed[x] \in Int /\ sb[x] \in Int /\ fb[x] = freed[x] + sb[x]
    BY <1>2, <1>4, <1>6
  <2> QED
    BY <1>2, <2>1, TotalPlus
<1>12. /\ Total(a, ledger) \in Int /\ Total(b, ledger) \in Int
       /\ Total(locked, ledger) \in Int /\ Total(freed, ledger) \in Int
       /\ Total(sa, ledger) \in Int /\ Total(sb, ledger) \in Int
  <2>1. /\ \A x \in ledger : a[x] \in Int
        /\ \A x \in ledger : b[x] \in Int
        /\ \A x \in ledger : locked[x] \in Int
        /\ \A x \in ledger : freed[x] \in Int
        /\ \A x \in ledger : sa[x] \in Int
        /\ \A x \in ledger : sb[x] \in Int
    BY <1>2, <1>4, <1>6
  <2> QED
    BY <1>2, <2>1, TotalInt
<1>13. w[1] = MM => Total(sa, ledger) = Total(settled, ledger) /\ Total(sb, ledger) = 0
  <2> SUFFICES ASSUME w[1] = MM PROVE Total(sa, ledger) = Total(settled, ledger) /\ Total(sb, ledger) = 0
    OBVIOUS
  <2>1. (\A x \in ledger : sa[x] = settled[x]) /\ \A x \in ledger : sb[x] = 0
    BY <1>2, <1>6
  <2> QED
    BY <1>2, <2>1, TotalAgree, TotalNothing
<1>14. w[1] # MM => Total(sb, ledger) = Total(settled, ledger) /\ Total(sa, ledger) = 0
  <2> SUFFICES ASSUME w[1] # MM PROVE Total(sb, ledger) = Total(settled, ledger) /\ Total(sa, ledger) = 0
    OBVIOUS
  <2>1. (\A x \in ledger : sb[x] = settled[x]) /\ \A x \in ledger : sa[x] = 0
    BY <1>2, <1>6
  <2> QED
    BY <1>2, <2>1, TotalAgree, TotalNothing
<1>15. /\ Total(a, ledger) = Total(credit, ledger) - Total(locked, ledger) - Total(sa, ledger)
       /\ Total(b, ledger) = Total(locked, ledger) - Total(freed, ledger) - Total(sb, ledger)
  BY <1>8, <1>9, <1>10, <1>11, <1>12
<1> QED
  BY <1>1, <1>3, <1>13, <1>14, <1>15

\* The money in a wallet, and the money it was given.
Balance(w) == avail[w] + resvd[w]
Funding(w) == Posted(w, {"INITIAL_ALLOCATION", "TOPUP"}, "CREDIT")

\* The sum of the money of some wallets.
LEMMA SumBalance ==
  ASSUME NEW S, IsFiniteSet(S), NEW f, \A w \in S : f[w] = Balance(w)
  PROVE  Sum(Balance, S) = Total(f, S)
<1> DEFINE P(h) == h = [s \in SUBSET S |-> IF s = {} THEN 0 ELSE Balance(Some(s)) + h[s \ {Some(s)}]]
<1>1. \A h : IsTable(h, f, S) <=> P(h)
  BY SomeIn DEF IsTable
<1>2. Sum(Balance, S) = (CHOOSE h : P(h))[S]
  BY DEF Sum, MapThenSumSet, MapThenFoldSet, Some
<1>3. \E h : P(h)
  BY <1>1, TableExists
<1>4. PICK h : P(h) /\ Sum(Balance, S) = h[S]
  BY <1>2, <1>3
<1>5. IsTable(h, f, S)
  BY <1>1, <1>4
<1> QED
  BY <1>4, <1>5, TotalIs

\* The sum of the funding of some wallets.
LEMMA SumFunding ==
  ASSUME NEW S, IsFiniteSet(S), NEW f, \A w \in S : f[w] = Funding(w)
  PROVE  Sum(Funding, S) = Total(f, S)
<1> DEFINE P(h) == h = [s \in SUBSET S |-> IF s = {} THEN 0 ELSE Funding(Some(s)) + h[s \ {Some(s)}]]
<1>1. \A h : IsTable(h, f, S) <=> P(h)
  BY SomeIn DEF IsTable
<1>2. Sum(Funding, S) = (CHOOSE h : P(h))[S]
  BY DEF Sum, MapThenSumSet, MapThenFoldSet, Some
<1>3. \E h : P(h)
  BY <1>1, TableExists
<1>4. PICK h : P(h) /\ Sum(Funding, S) = h[S]
  BY <1>2, <1>3
<1>5. IsTable(h, f, S)
  BY <1>1, <1>4
<1> QED
  BY <1>4, <1>5, TotalIs

\* Without excess the balances add up to the funding.
LEMMA MoneySupply ==
  ASSUME IInv, MoneyInv
  PROVE  SupplyConserved
<1> SUFFICES ASSUME NEW a \in Assets
             PROVE  Sum(Balance, Users \X {a}) = Sum(Funding, Users \X {a})
  BY DEF SupplyConserved, Balance, Funding
<1> DEFINE S == Users \X {a}
           f == [w \in S |-> Balance(w)]
           g == [w \in S |-> Funding(w)]
<1>1. IsFiniteSet(S) /\ S \subseteq Wallets
  BY FiniteAssumption, FS_Singleton, FS_Product DEF Wallets
<1>2. ledger \subseteq LedgerRow /\ IsFiniteSet(ledger)
  BY DEF IInv, TypeOK, MoneyInv, LedgerKnown
<1>3. ASSUME NEW w \in S
      PROVE  Funding(w) = Total(FundEffect(w), ledger) /\ Funding(w) \in Int
  <2> DEFINE e == Amounts(w, {"INITIAL_ALLOCATION", "TOPUP"}, "CREDIT")
  <2>1. Funding(w) = Total(e, ledger)
    BY PostedIsTotal DEF MoneyInv, Funding
  <2>2. \A x \in ledger : e[x] = FundEffect(w)[x]
    BY <1>2 DEF Amounts, FundEffect
  <2> HIDE DEF e
  <2>3. Total(e, ledger) = Total(FundEffect(w), ledger)
    BY <1>2, <2>2, TotalAgree
  <2> QED
    BY <1>2, <2>1, <2>3, EffectsInt
<1>4. \A w \in S : f[w] = Balance(w) /\ g[w] = Funding(w)
  OBVIOUS
<1>5. ASSUME NEW w \in S
      PROVE  Excess[w] \in Int /\ g[w] \in Int /\ f[w] = Excess[w] + g[w]
  <2>1. avail[w] \in Nat /\ resvd[w] \in Nat /\ w \in Wallets
    BY <1>1 DEF IInv, TypeOK
  <2>2. Excess[w] = avail[w] + resvd[w] - Funding(w)
    BY <1>3, <2>1 DEF Excess
  <2> HIDE DEF f, g, S
  <2> QED
    BY <1>3, <1>4, <2>1, <2>2 DEF Balance
<1> HIDE DEF S, f, g
<1>6. Total(f, S) = Total(Excess, S) + Total(g, S)
  BY <1>1, <1>5, TotalPlus
<1>7. Total(Excess, S) = 0
  BY DEF MoneyInv, Supplied, S
<1>8. Total(g, S) \in Int
  BY <1>1, <1>5, TotalInt
<1>9. Sum(Balance, S) = Total(f, S)
  BY <1>1, <1>4, SumBalance
<1>10. Sum(Funding, S) = Total(g, S)
  BY <1>1, <1>4, SumFunding
<1> QED
  BY <1>6, <1>7, <1>8, <1>9, <1>10 DEF S

\* However deposits, reservations, releases and settlements of any number of
\* users interleave, are refused or repeated, reserved balances are backed by
\* live reservations, the ledger explains every balance and each asset is
\* conserved.
THEOREM MoneyConserved == Spec => []Conserved
<1>1. Init => IInv /\ MoneyInv
  BY InitInv, MoneyInit
<1>2. (IInv /\ MoneyInv) /\ [Next]_vars => (IInv /\ MoneyInv)'
  BY StepInv, MoneyStep
<1>3. IInv /\ MoneyInv => Conserved
  <2> SUFFICES ASSUME IInv, MoneyInv PROVE Conserved
    OBVIOUS
  <2>1. ReservedBacked
    BY BackedIsReserved DEF IInv, MoneyInv
  <2> QED
    BY <2>1, MoneyReconciles, MoneySupply DEF Conserved
<1> QED
  BY <1>1, <1>2, <1>3, PTL DEF Spec
=============================================================================

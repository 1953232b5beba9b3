------------------------------- MODULE Wallet -------------------------------
(***************************************************************************)
(* The wallet service: balances, order reservations, the ledger and the    *)
(* settlement of matched trades (services/wallet/internal/service and      *)
(* .../repository/postgres).                                               *)
(*                                                                         *)
(* An action is one committed PostgreSQL transaction.  ReserveFunds and    *)
(* DepositFunds read the wallet row without a lock before they lock it, so *)
(* each is two steps and anything may commit in between; the other         *)
(* operations read what they decide on under row locks.  A call that is    *)
(* refused changes nothing and is a stuttering step.                       *)
(*                                                                         *)
(* Balances are counted in the smallest unit of the asset.  The quote of a *)
(* trade is price x quantity, a finer number: QuoteScale of its units make *)
(* one unit of the quote asset (e.g. 96411.43 x 0.1 USDT = 9641.143).      *)
(* One market, Base-Quote.  Amounts that fail parsing or per-asset         *)
(* precision and assets that are disabled are refused before any change    *)
(* and are left out of the request sets.                                   *)
(***************************************************************************)
EXTENDS Integers, FiniteSets, FiniteSetsExt

CONSTANTS
  Users,          \* accounts, MM included
  MM,             \* the market-maker account: it holds no reservations
  Base, Quote,    \* the assets of the market
  Orders,         \* order ids
  TradeIds,       \* trade ids
  DepositIds,     \* reference ids of top-ups
  Seed,           \* [Assets -> Nat]: supported_assets.seed_amount
  MMSeed,         \* [Assets -> Nat]: the market maker's seeded balances
  QuoteScale,     \* units of price x quantity per unit of Quote
  ReserveReqs,    \* ReserveFunds calls clients may make
  DepositReqs,    \* DepositFunds calls clients may make
  SettleReqs,     \* SettleTrade calls the settlement service may make
  FreezeReqs      \* wallets an administrator may freeze and unfreeze

Assets  == {Base, Quote}
Wallets == Users \X Assets

ReserveReq == [user : Users, order : Orders, asset : Assets, amount : Nat \ {0}]
DepositReq == [user : Users, asset : Assets, ref : DepositIds, amount : Nat \ {0}]
SettleReq  == [id : TradeIds, buyer : Users, seller : Users,
               buyOrder : Orders, sellOrder : Orders,
               price : Nat \ {0}, qty : Nat \ {0}, seq : Nat]

ASSUME AccountAssumption == MM \in Users /\ Base # Quote
ASSUME AmountAssumption  == /\ QuoteScale \in Nat \ {0}
                            /\ Seed \in [Assets -> Nat]
                            /\ MMSeed \in [Assets -> Nat]
ASSUME RequestAssumption == /\ ReserveReqs \subseteq ReserveReq
                            /\ DepositReqs \subseteq DepositReq
                            /\ SettleReqs \subseteq SettleReq
                            /\ FreezeReqs \subseteq Wallets
\* Accounts and orders are named by UUIDs.
ASSUME FiniteAssumption == IsFiniteSet(Users) /\ IsFiniteSet(Orders)

VARIABLES
  avail,       \* wallets.available_balance
  resvd,       \* wallets.reserved_balance
  opened,      \* the wallet rows that exist
  frozen,      \* the wallets with is_frozen
  res,         \* wallet_reservations, by order id
  settledSeq,  \* settled_trades: sequence by trade id, 0 when there is no row
  ledger,      \* wallet_transactions
  outbox,      \* outbox rows <<trade id, event>> written by settlements
  reserving,   \* ReserveFunds calls that have read the wallet, not locked it
  depositing,  \* DepositFunds calls that have read the wallet, not locked it
  reply        \* the wallet and the NewBalance of the last deposit response

balances == <<avail, resvd>>
calls    == <<reserving, depositing, reply>>
vars     == <<avail, resvd, opened, frozen, res, settledSeq, ledger, outbox,
              reserving, depositing, reply>>

(***************************************************************************)
(* Rows.                                                                   *)
(***************************************************************************)
Terminal    == {"RELEASED", "CONSUMED"}
Live        == {"ACTIVE", "PARTIALLY_CONSUMED"}
Reservation == [status : Terminal \cup Live \cup {"NONE"}, user : Users,
                asset : Assets, amount : Nat, consumed : Nat, remaining : Nat]

\* No row for the order.
NoReservation == [status |-> "NONE", user |-> MM, asset |-> Base,
                  amount |-> 0, consumed |-> 0, remaining |-> 0]

RefTypes  == {"INITIAL_ALLOCATION", "RESERVATION", "RELEASE", "SETTLEMENT", "TOPUP"}
LedgerRow == [wallet : Wallets, ref : Users \cup Orders \cup TradeIds \cup DepositIds,
              type : RefTypes, dir : {"CREDIT", "DEBIT"}, amount : Nat \ {0}]
Row(w, ref, type, dir, n) ==
  [wallet |-> w, ref |-> ref, type |-> type, dir |-> dir, amount |-> n]

\* UNIQUE (wallet_id, reference_id, reference_type): the row is already there.
HasRow(w, ref, type) ==
  \E x \in ledger : x.wallet = w /\ x.ref = ref /\ x.type = type

Events == {"TradeSettled", "PortfolioBuy", "PortfolioSell"}

ReservationWallet(o) == <<res[o].user, res[o].asset>>

(***************************************************************************)
(* The balance updates of the repository, as functions of the column they  *)
(* change.  Their WHERE guards are conjuncts of the actions.               *)
(***************************************************************************)
Plus(f, w, n)  == [f EXCEPT ![w] = @ + n]
Minus(f, w, n) == [f EXCEPT ![w] = @ - n]

MoveToReserved(w, n) ==
  /\ avail[w] >= n
  /\ avail' = Minus(avail, w, n)
  /\ resvd' = Plus(resvd, w, n)

MoveFromReserved(w, n) ==
  /\ resvd[w] >= n
  /\ resvd' = Minus(resvd, w, n)
  /\ avail' = Plus(avail, w, n)

\* ConsumeRemaining: the row of o after n is taken from what remains.
ConsumeRemaining(o, n) ==
  [res[o] EXCEPT !.consumed = @ + n, !.remaining = @ - n,
                 !.status = IF res[o].remaining - n <= 0
                            THEN "CONSUMED" ELSE "PARTIALLY_CONSUMED"]

(***************************************************************************)
(* InitializeWallet: a row for each asset the user has none for yet.       *)
(***************************************************************************)
InitializeWallet(u) ==
  LET new == {w \in {u} \X Assets : w \notin opened}
  IN /\ new # {}
     /\ opened' = opened \cup new
     /\ avail' = [w \in Wallets |-> IF w \in new THEN Seed[w[2]] ELSE avail[w]]
     /\ ledger' = ledger \cup
          {Row(w, u, "INITIAL_ALLOCATION", "CREDIT", Seed[w[2]]) :
             w \in {x \in new : Seed[x[2]] # 0}}
     /\ UNCHANGED <<resvd, frozen, res, settledSeq, outbox, calls>>

(***************************************************************************)
(* ReserveFunds.  Begin: steps 1-4, no reservation yet and the wallet row  *)
(* read without a lock; its frozen flag is the one step 8 tests.           *)
(***************************************************************************)
ReserveBegin(c) ==
  LET w == <<c.user, c.asset>>
  IN /\ res[c.order].status = "NONE"
     /\ w \in opened
     /\ reserving' = reserving \cup {[req |-> c, frozen |-> w \in frozen]}
     /\ UNCHANGED <<balances, opened, frozen, res, settledSeq, ledger, outbox,
                    depositing, reply>>

\* Steps 5-12 under the wallet's row lock: the reservation is looked up again,
\* the funds are moved, the reservation and its ledger row are inserted.
ReserveCommit_NoRecheck(c) ==
  LET q == c.req  w == <<q.user, q.asset>>
  IN /\ c \in reserving
     /\ ~c.frozen
     /\ MoveToReserved(w, q.amount)
     /\ res' = [res EXCEPT ![q.order] =
          [status |-> "ACTIVE", user |-> q.user, asset |-> q.asset,
           amount |-> q.amount, consumed |-> 0, remaining |-> q.amount]]
     /\ ledger' = ledger \cup {Row(w, q.order, "RESERVATION", "DEBIT", q.amount)}
     /\ reserving' = reserving \ {c}
     /\ UNCHANGED <<opened, frozen, settledSeq, outbox, depositing, reply>>

ReserveCommit(c) ==
  LET q == c.req  w == <<q.user, q.asset>>
  IN /\ c \in reserving
     /\ res[q.order].status = "NONE"
     /\ ~c.frozen
     /\ MoveToReserved(w, q.amount)
     /\ res' = [res EXCEPT ![q.order] =
          [status |-> "ACTIVE", user |-> q.user, asset |-> q.asset,
           amount |-> q.amount, consumed |-> 0, remaining |-> q.amount]]
     /\ ledger' = ledger \cup {Row(w, q.order, "RESERVATION", "DEBIT", q.amount)}
     /\ reserving' = reserving \ {c}
     /\ UNCHANGED <<opened, frozen, settledSeq, outbox, depositing, reply>>

\* The call ends with an error or with the reservation another call made.
ReserveRefuse(c) ==
  LET q == c.req
  IN /\ c \in reserving
     /\ \/ res[q.order].status # "NONE"
        \/ c.frozen
        \/ avail[<<q.user, q.asset>>] < q.amount
     /\ reserving' = reserving \ {c}
     /\ UNCHANGED <<balances, opened, frozen, res, settledSeq, ledger, outbox,
                    depositing, reply>>

(***************************************************************************)
(* ReleaseFunds: what remains of a live reservation returns to available.  *)
(* The row keeps its remaining amount.  A terminal reservation answers     *)
(* success without a change.                                               *)
(***************************************************************************)
ReleaseFunds(o) ==
  LET w == ReservationWallet(o)  n == res[o].remaining
  IN /\ res[o].status \in Live
     /\ res' = [res EXCEPT ![o].status = "RELEASED"]
     /\ \/ /\ n <= 0
           /\ UNCHANGED <<balances, ledger>>
        \/ /\ n > 0
           /\ w \in opened
           /\ MoveFromReserved(w, n)
           /\ ledger' = ledger \cup {Row(w, o, "RELEASE", "CREDIT", n)}
     /\ UNCHANGED <<opened, frozen, settledSeq, outbox, calls>>

(***************************************************************************)
(* SettleTrade.                                                            *)
(***************************************************************************)
\* roundToAssetPrecision: price x quantity floored to the quote asset.
QuoteAmount(r) == (r.price * r.qty) \div QuoteScale

SellerBase(r)  == <<r.seller, Base>>
BuyerBase(r)   == <<r.buyer, Base>>
BuyerQuote(r)  == <<r.buyer, Quote>>
SellerQuote(r) == <<r.seller, Quote>>
FourWallets(r) == {SellerBase(r), BuyerBase(r), BuyerQuote(r), SellerQuote(r)}

\* Step 0.
InvalidSettlement(r) ==
  r.buyer = r.seller \/ r.buyOrder = r.sellOrder \/ r.seq = 0

\* Step 2, RegisterSettlement: the trade has a row with this sequence, or it
\* has one with another, or another trade has the market's sequence number.
AlreadySettled(r)     == settledSeq[r.id] = r.seq
SettlementConflict(r) ==
  \/ settledSeq[r.id] \notin {0, r.seq}
  \/ \E t \in TradeIds \ {r.id} : settledSeq[t] = r.seq

\* Steps 3-4b for the side that is not the market maker.
SideUsable_AnyStatus(o, u, a) ==
  res[o].status # "NONE" /\ res[o].asset = a /\ res[o].user = u

SideUsable(o, u, a) ==
  /\ res[o].status \notin {"NONE", "RELEASED"}
  /\ res[o].asset = a
  /\ res[o].user = u

ReservationsUsable(r) ==
  /\ r.seller # MM => SideUsable(r.sellOrder, r.seller, Base)
  /\ r.buyer # MM => /\ SideUsable(r.buyOrder, r.buyer, Quote)
                     /\ r.price * r.qty <= res[r.buyOrder].remaining * QuoteScale

\* The WHERE guards of DebitAvailable, DebitReserved and ConsumeRemaining.
LegsCovered(r) ==
  /\ IF r.seller = MM THEN avail[SellerBase(r)] >= r.qty
     ELSE resvd[SellerBase(r)] >= r.qty /\ res[r.sellOrder].remaining >= r.qty
  /\ IF r.buyer = MM THEN avail[BuyerQuote(r)] >= QuoteAmount(r)
     ELSE /\ resvd[BuyerQuote(r)] >= QuoteAmount(r)
          /\ res[r.buyOrder].remaining >= QuoteAmount(r)

\* Step 9 meets a ledger row of this trade: SettleTrade then answers success
\* and its transaction, the settled_trades row included, is rolled back.
LedgerDuplicate(r) == \E w \in FourWallets(r) : HasRow(w, r.id, "SETTLEMENT")

\* Steps 0-11 pass up to the ledger insert; its CHECK (amount > 0) refuses a
\* quote that was floored to zero.
SettleReaches(r) ==
  /\ ~InvalidSettlement(r)
  /\ settledSeq[r.id] = 0
  /\ ~SettlementConflict(r)
  /\ ReservationsUsable(r)
  /\ FourWallets(r) \subseteq opened
  /\ LegsCovered(r)

SettlementRows(r) ==
  {Row(SellerBase(r), r.id, "SETTLEMENT", "DEBIT", r.qty),
   Row(BuyerBase(r), r.id, "SETTLEMENT", "CREDIT", r.qty),
   Row(BuyerQuote(r), r.id, "SETTLEMENT", "DEBIT", QuoteAmount(r)),
   Row(SellerQuote(r), r.id, "SETTLEMENT", "CREDIT", QuoteAmount(r))}

\* The two legs: each side's funds leave its reservation (the market maker's
\* leave its available balance) and are credited to the other side.
SettleLegs(r) ==
  LET q == QuoteAmount(r)
      credited == Plus(Plus(avail, BuyerBase(r), r.qty), SellerQuote(r), q)
  IN /\ avail' = IF r.seller = MM THEN Minus(credited, SellerBase(r), r.qty)
                 ELSE IF r.buyer = MM THEN Minus(credited, BuyerQuote(r), q)
                 ELSE credited
     /\ resvd' = IF r.seller = MM THEN Minus(resvd, BuyerQuote(r), q)
                 ELSE IF r.buyer = MM THEN Minus(resvd, SellerBase(r), r.qty)
                 ELSE Minus(Minus(resvd, SellerBase(r), r.qty), BuyerQuote(r), q)
     /\ res' = [o \in Orders |->
                  IF o = r.sellOrder /\ r.seller # MM THEN ConsumeRemaining(o, r.qty)
                  ELSE IF o = r.buyOrder /\ r.buyer # MM THEN ConsumeRemaining(o, q)
                  ELSE res[o]]

SettleTrade_Unregistered(r) ==
  /\ SettleReaches(r)
  /\ QuoteAmount(r) > 0
  /\ ~LedgerDuplicate(r)
  /\ SettleLegs(r)
  /\ ledger' = ledger \cup SettlementRows(r)
  /\ outbox' = outbox \cup ({r.id} \X Events)
  /\ UNCHANGED <<opened, frozen, settledSeq, calls>>

SettleTrade(r) ==
  /\ SettleReaches(r)
  /\ QuoteAmount(r) > 0
  /\ ~LedgerDuplicate(r)
  /\ settledSeq' = [settledSeq EXCEPT ![r.id] = r.seq]
  /\ SettleLegs(r)
  /\ ledger' = ledger \cup SettlementRows(r)
  /\ outbox' = outbox \cup ({r.id} \X Events)
  /\ UNCHANGED <<opened, frozen, calls>>

\* The call answers success to the settlement service.
SettleAnswersSuccess(r) ==
  \/ ~InvalidSettlement(r) /\ AlreadySettled(r)
  \/ SettleReaches(r) /\ (LedgerDuplicate(r) \/ QuoteAmount(r) > 0)

(***************************************************************************)
(* DepositFunds.  Begin: the wallet is read, it is not frozen and the      *)
(* reference is new; the balance seen here is the one the response adds to.*)
(***************************************************************************)
DepositBegin(c) ==
  LET w == <<c.user, c.asset>>
  IN /\ w \in opened \ frozen
     /\ ~HasRow(w, c.ref, "TOPUP")
     /\ depositing' = depositing \cup {[req |-> c, seen |-> avail[w]]}
     /\ UNCHANGED <<balances, opened, frozen, res, settledSeq, ledger, outbox,
                    reserving, reply>>

\* Under the row lock the frozen flag and the reference are tested again.
DepositRecheck(c) ==
  LET w == <<c.req.user, c.req.asset>>
  IN w \notin frozen /\ ~HasRow(w, c.req.ref, "TOPUP")

DepositCommit(c) ==
  LET q == c.req  w == <<q.user, q.asset>>
  IN /\ c \in depositing
     /\ DepositRecheck(c)
     /\ avail' = Plus(avail, w, q.amount)
     /\ ledger' = ledger \cup {Row(w, q.ref, "TOPUP", "CREDIT", q.amount)}
     /\ depositing' = depositing \ {c}
     /\ reply' = [wallet |-> w, balance |-> c.seen + q.amount]
     /\ UNCHANGED <<resvd, opened, frozen, res, settledSeq, outbox, reserving>>

\* The reference was credited by another call: success, with the balance read
\* again.  A frozen wallet: ErrWalletFrozen.
DepositRefuse(c) ==
  LET q == c.req  w == <<q.user, q.asset>>
  IN /\ c \in depositing
     /\ \/ w \in frozen /\ reply' = reply
        \/ /\ w \notin frozen
           /\ HasRow(w, q.ref, "TOPUP")
           /\ reply' = [wallet |-> w, balance |-> avail[w]]
     /\ depositing' = depositing \ {c}
     /\ UNCHANGED <<balances, opened, frozen, res, settledSeq, ledger, outbox,
                    reserving>>

(***************************************************************************)
(* FreezeWallet, both ways.                                                *)
(***************************************************************************)
FreezeWallet(w) ==
  /\ w \in opened
  /\ frozen' = IF w \in frozen THEN frozen \ {w} ELSE frozen \cup {w}
  /\ UNCHANGED <<balances, opened, res, settledSeq, ledger, outbox, calls>>

-----------------------------------------------------------------------------
\* The migrations seed the market maker's wallets; every other account gets
\* its wallets from InitializeWallet.
Init ==
  /\ opened = {MM} \X Assets
  /\ avail = [w \in Wallets |-> IF w[1] = MM THEN MMSeed[w[2]] ELSE 0]
  /\ resvd = [w \in Wallets |-> 0]
  /\ frozen = {}
  /\ res = [o \in Orders |-> NoReservation]
  /\ settledSeq = [t \in TradeIds |-> 0]
  /\ ledger = {Row(w, MM, "INITIAL_ALLOCATION", "CREDIT", MMSeed[w[2]]) :
                 w \in {x \in {MM} \X Assets : MMSeed[x[2]] # 0}}
  /\ outbox = {}
  /\ reserving = {}
  /\ depositing = {}
  /\ reply = [wallet |-> <<MM, Base>>, balance |-> 0]

Next ==
  \/ \E u \in Users : InitializeWallet(u)
  \/ \E c \in ReserveReqs : ReserveBegin(c)
  \/ \E c \in reserving : ReserveCommit(c) \/ ReserveRefuse(c)
  \/ \E o \in Orders : ReleaseFunds(o)
  \/ \E r \in SettleReqs : SettleTrade(r)
  \/ \E c \in DepositReqs : DepositBegin(c)
  \/ \E c \in depositing : DepositCommit(c) \/ DepositRefuse(c)
  \/ \E w \in FreezeReqs : FreezeWallet(w)

Spec == Init /\ [][Next]_vars

-----------------------------------------------------------------------------
(***************************************************************************)
(* Properties.                                                             *)
(***************************************************************************)

\* The columns hold what the schema says: no balance, remaining or consumed
\* amount is ever negative, no ledger row is for nothing.
TypeOK ==
  /\ avail \in [Wallets -> Nat]
  /\ resvd \in [Wallets -> Nat]
  /\ opened \subseteq Wallets
  /\ frozen \subseteq opened
  /\ res \in [Orders -> Reservation]
  /\ settledSeq \in [TradeIds -> Nat]
  /\ ledger \subseteq LedgerRow
  /\ outbox \subseteq TradeIds \X Events
  /\ reserving \subseteq [req : ReserveReqs, frozen : BOOLEAN]
  /\ depositing \subseteq [req : DepositReqs, seen : Nat]
  /\ reply \in [wallet : Wallets, balance : Nat]

Sum(f(_), S) == MapThenSumSet(f, S)

\* What order o still holds of its wallet's reserved balance.
Held(o) == IF res[o].status \in Live THEN res[o].remaining ELSE 0

\* The reserved balance of a wallet is exactly what its live reservations
\* still hold: ReleaseFunds and SettleTrade can always pay out of it, and no
\* reserved money is orphaned by a release, a consumption or a retry.
ReservedBacked ==
  \A w \in Wallets :
    resvd[w] = Sum(Held, {o \in Orders : ReservationWallet(o) = w})

\* The rows of wallet w with a type in T and direction d, added up.
Posted(w, T, d) ==
  LET amount(x) == x.amount
  IN Sum(amount, {x \in ledger : x.wallet = w /\ x.type \in T /\ x.dir = d})

\* The immutable ledger alone explains both balances of every wallet: the
\* retries, refusals and the floor of the quote leave no unposted change.
LedgerReconciles ==
  \A w \in Wallets :
    LET settled == Posted(w, {"SETTLEMENT"}, "DEBIT")
        locked  == Posted(w, {"RESERVATION"}, "DEBIT")
    IN /\ avail[w] = Posted(w, RefTypes, "CREDIT") - locked
                     - (IF w[1] = MM THEN settled ELSE 0)
       /\ resvd[w] = locked - Posted(w, {"RELEASE"}, "CREDIT")
                     - (IF w[1] = MM THEN 0 ELSE settled)

\* Trading creates and destroys nothing: per asset, all balances add up to
\* what was seeded and topped up.
SupplyConserved ==
  \A a \in Assets :
    LET total(w)   == avail[w] + resvd[w]
        funding(w) == Posted(w, {"INITIAL_ALLOCATION", "TOPUP"}, "CREDIT")
    IN Sum(total, Users \X {a}) = Sum(funding, Users \X {a})

\* However the steps of deposits, reservations, releases and settlements interleave, are
\* refused or repeated: no money is orphaned, unexplained, created or destroyed.
Conserved == ReservedBacked /\ LedgerReconciles /\ SupplyConserved

\* SettleTrade's ErrDuplicate branch answers success and rolls back; it is
\* never reached, so a success always means that the money has moved.
SuccessMeansSettled ==
  \A r \in SettleReqs : ~(SettleReaches(r) /\ LedgerDuplicate(r))

\* A released or fully consumed reservation never changes again, although
\* SettleTrade tests only for RELEASED and a released row keeps its remaining
\* amount.
TerminalIsFinal ==
  [][\A o \in Orders : res[o].status \in Terminal => res'[o] = res[o]]_vars

\* ReservedBacked step by step, without a sum: a step that changes a wallet's
\* reserved balance changes what one order of that wallet holds by the same
\* amount, and what no other order of that wallet holds.
HeldNext(o) == IF res'[o].status \in Live THEN res'[o].remaining ELSE 0
OwnedNext(o, w) == <<res'[o].user, res'[o].asset>> = w

WalletMovesWithOrder(w) ==
  \/ /\ resvd'[w] = resvd[w]
     /\ \A o \in Orders : OwnedNext(o, w) => HeldNext(o) = Held(o)
  \/ \E o \in Orders :
       /\ OwnedNext(o, w)
       /\ resvd'[w] - resvd[w] = HeldNext(o) - Held(o)
       /\ \A p \in Orders \ {o} : OwnedNext(p, w) => HeldNext(p) = Held(p)

ReservedMovesWithOrders == [][\A w \in Wallets : WalletMovesWithOrder(w)]_vars

\* What an order holds stays when it has ended, and until then is what the wallet's
\* reserved balance moves with.
FundsFollowOrders == TerminalIsFinal /\ ReservedMovesWithOrders

\* "Outgoing debits are blocked by ReserveFunds" for frozen wallets.
FrozenBlocksReserve ==
  [][\A w \in frozen : ~(avail'[w] < avail[w] /\ resvd'[w] > resvd[w])]_vars

\* "Frozen wallets permit incoming credits/deposits/refunds (Policy B)": a
\* deposit that ends has been credited.
FrozenAcceptsDeposit ==
  [][\A c \in depositing \ depositing' :
       \E x \in ledger' : x.ref = c.req.ref /\ x.type = "TOPUP"]_vars

\* new_balance is the "User's updated available balance".
DepositReportsBalance ==
  [][reply' # reply => reply'.balance = avail'[reply'.wallet]]_vars
=============================================================================

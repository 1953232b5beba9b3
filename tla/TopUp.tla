-------------------------------- MODULE TopUp --------------------------------
(***************************************************************************)
(* The top-up service (services/wallet-topup): a user buys test funds with *)
(* a payment of a few rupees, under a daily limit.                         *)
(*                                                                         *)
(* CreateTopUp reserves quota before it calls the payment provider.  A     *)
(* captured payment is reported three times over: by the provider's        *)
(* webhook, by the client's checkout and by the reconciler's own look at   *)
(* the provider.  The expiry worker gives unpaid orders up; reconcilers    *)
(* claim the paid ones under a lease and credit the wallet.                *)
(*                                                                         *)
(* Users share nothing, so the orders here are those of one user.  The     *)
(* clock counts half days: a day in India begins while the date of UTC is  *)
(* still the day before.  An order may expire at any time.                 *)
(*                                                                         *)
(* A fault is a failed call of the database, the provider or the wallet    *)
(* (done or not), a lease that ends before its holder is done, or a crash. *)
(***************************************************************************)
EXTENDS Naturals, FiniteSets, FiniteSetsExt

CONSTANTS
  Orders,     \* attempts of CreateTopUp, each with its own order id
  Key,        \* idempotency key by order
  Amount,     \* INRAmount by order
  Limit,      \* dailyLimitINR
  Workers,    \* processes running a reconciler
  LastTime,   \* bound on the clock, in half days
  MaxFaults,  \* bound on faults and crashes
  None

ASSUME TopUpAssumption ==
  /\ Amount \in [Orders -> Nat \ {0}] /\ Limit \in Nat \ {0}
  /\ DOMAIN Key = Orders
  /\ LastTime \in Nat /\ MaxFaults \in Nat
  /\ None \notin Workers \cup Nat

Times   == 0 .. LastTime
DateIST(t) == t \div 2 + 1
DateUTC(t) == (t + 1) \div 2
Days    == 0 .. DateIST(LastTime)

Sources   == {"webhook", "checkout", "sync"}
Crediting == {"CREDIT_PENDING", "CREDIT_PROCESSING", "COMPLETED"}
Unpaid    == {"INITIATED", "PAYMENT_PENDING"}

VARIABLES
  call,       \* how far CreateTopUp is: "idle", "provider", "activate", "cancel", "done"
  status,     \* topup_orders.status, "NONE" without a row
  date,       \* topup_orders.reservation_date
  linked,     \* orders whose provider_order_id is stored (and known to the client)
  captured,   \* when the provider captured the payment of an order
  reserved,   \* daily_topup_limits.reserved_inr by day
  consumed,   \* daily_topup_limits.consumed_inr by day
  charged,    \* the day whose quota an order has consumed (history)
  events,     \* webhook_events that are PROCESSED: <<source, order>>
  stuck,      \* unconfirmed orders a reconciler has read and not yet looked up
  claim,      \* topup_orders.claim_token
  working,    \* orders a reconciler is crediting
  deposited,  \* claimed orders whose deposit has succeeded
  wallet,     \* orders credited in the wallet, by reference id
  now, faults

quota   == <<reserved, consumed, charged>>
workers == <<claim, working, deposited, wallet>>
vars    == <<call, status, date, linked, captured, reserved, consumed, charged, events,
             stuck, claim, working, deposited, wallet, now, faults>>

Fault   == faults < MaxFaults /\ faults' = faults + 1
NoFault == faults' = faults

MoveTo(o, s) == status' = [status EXCEPT ![o] = s]
Room(day, o) == reserved[day] + consumed[day] + Amount[o] <= Limit

\* UPDATE daily_topup_limits ... WHERE reserved_inr >= amount.
Held(o)    == reserved[date[o]] >= Amount[o]
Release(o) == reserved' = [reserved EXCEPT ![date[o]] = @ - Amount[o]]

-----------------------------------------------------------------------------
(***************************************************************************)
(* CreateTopUp.                                                            *)
(***************************************************************************)
InitiateTopUpTx_NoQuotaCheck(o) ==
  /\ call[o] = "idle"
  /\ MoveTo(o, "INITIATED")
  /\ date' = [date EXCEPT ![o] = DateIST(now)]
  /\ reserved' = [reserved EXCEPT ![DateIST(now)] = @ + Amount[o]]
  /\ call' = [call EXCEPT ![o] = "provider"]
  /\ UNCHANGED <<linked, captured, consumed, charged, events, stuck, workers, now, faults>>

\* Key check, reservation of the quota and insert, in one transaction.  A key
\* in use answers its order or a conflict.
InitiateTopUpTx(o) ==
  /\ call[o] = "idle"
  /\ IF Room(DateIST(now), o) /\ \A p \in Orders : Key[p] = Key[o] => status[p] = "NONE"
     THEN /\ MoveTo(o, "INITIATED")
          /\ date' = [date EXCEPT ![o] = DateIST(now)]
          /\ reserved' = [reserved EXCEPT ![DateIST(now)] = @ + Amount[o]]
          /\ call' = [call EXCEPT ![o] = "provider"]
     ELSE call' = [call EXCEPT ![o] = "done"] /\ UNCHANGED <<status, date, reserved>>
  /\ UNCHANGED <<linked, captured, consumed, charged, events, stuck, workers, now, faults>>

ProviderCreatesOrder(o) ==
  /\ call[o] = "provider"
  /\ \/ call' = [call EXCEPT ![o] = "activate"] /\ NoFault
     \/ call' = [call EXCEPT ![o] = "cancel"] /\ Fault
  /\ UNCHANGED <<status, date, linked, captured, quota, events, stuck, workers, now>>

\* WHERE status = 'INITIATED': nothing to activate once the order has expired.
ActivatePaymentPending(o) ==
  /\ call[o] = "activate"
  /\ call' = [call EXCEPT ![o] = "done"]
  /\ \/ /\ status[o] = "INITIATED"
        /\ MoveTo(o, "PAYMENT_PENDING") /\ linked' = linked \cup {o} /\ NoFault
     \/ status[o] # "INITIATED" /\ UNCHANGED <<status, linked>> /\ NoFault
     \/ UNCHANGED <<status, linked>> /\ Fault
  /\ UNCHANGED <<date, captured, quota, events, stuck, workers, now>>

CancelInitiatedOrderTx(o) ==
  /\ call[o] = "cancel"
  /\ call' = [call EXCEPT ![o] = "done"]
  /\ \/ status[o] = "INITIATED" /\ Held(o) /\ MoveTo(o, "FAILED") /\ Release(o) /\ NoFault
     \/ ~(status[o] = "INITIATED" /\ Held(o)) /\ UNCHANGED <<status, reserved>> /\ NoFault
     \/ UNCHANGED <<status, reserved>> /\ Fault
  /\ UNCHANGED <<date, linked, captured, consumed, charged, events, stuck, workers, now>>

-----------------------------------------------------------------------------
(***************************************************************************)
(* The payment, and the transaction that confirms it.                      *)
(***************************************************************************)
\* The client pays, also after the order has expired.
Capture(o) ==
  /\ o \in linked /\ captured[o] = None
  /\ captured' = [captured EXCEPT ![o] = now]
  /\ UNCHANGED <<call, status, date, linked, quota, events, stuck, workers, now, faults>>

Consume(o, day) ==
  /\ MoveTo(o, "CREDIT_PENDING")
  /\ charged' = [charged EXCEPT ![o] = day]

SameDay(o) ==
  /\ Held(o) /\ Consume(o, date[o]) /\ Release(o)
  /\ consumed' = [consumed EXCEPT ![date[o]] = @ + Amount[o]]

\* The quota of the day of reservation is freed and the day of payment charged.
OtherDay(o, day) ==
  /\ Held(o) /\ Release(o)
  /\ IF Room(day, o)
     THEN Consume(o, day) /\ consumed' = [consumed EXCEPT ![day] = @ + Amount[o]]
     ELSE MoveTo(o, "REFUND_REQUIRED") /\ UNCHANGED <<consumed, charged>>

ProcessPaymentConfirmationTx_ExpiredIgnored(o, source, day) ==
  \/ /\ status[o] \in Crediting \cup {"EXPIRED"}
     /\ events' = events \cup {<<source, o>>}
     /\ UNCHANGED <<status, quota>>
  \/ /\ status[o] = "PAYMENT_PENDING"
     /\ IF day = date[o] THEN SameDay(o) ELSE OtherDay(o, day)
     /\ events' = events \cup {<<source, o>>}

\* Every other status is an error that rolls the event back too.
ProcessPaymentConfirmationTx(o, source, day) ==
  \/ /\ <<source, o>> \in events \/ status[o] \notin Crediting \cup {"EXPIRED", "PAYMENT_PENDING"}
     /\ UNCHANGED <<status, quota, events>>
  \/ /\ <<source, o>> \notin events
     /\ events' = events \cup {<<source, o>>}
     /\ \/ status[o] \in Crediting /\ UNCHANGED <<status, quota>>
        \/ status[o] = "EXPIRED" /\ MoveTo(o, "REFUND_REQUIRED") /\ UNCHANGED quota
        \/ /\ status[o] = "PAYMENT_PENDING"
           /\ IF day = date[o] THEN SameDay(o) ELSE OtherDay(o, day)

\* The provider repeats the webhook until it is accepted.
ProcessWebhook(o) ==
  /\ captured[o] # None
  /\ ProcessPaymentConfirmationTx(o, "webhook", DateIST(captured[o]))
  /\ UNCHANGED <<call, date, linked, captured, stuck, workers, now, faults>>

\* The client shows the payment; the signature and the provider's answer agree.
\* The order is read before the provider is asked, so the early answers for a
\* credited or closed order do not bind the transaction.
VerifyCheckoutPayment(o) ==
  /\ captured[o] # None
  /\ ProcessPaymentConfirmationTx(o, "checkout", DateIST(captured[o]))
  /\ UNCHANGED <<call, date, linked, captured, stuck, workers, now, faults>>

\* reconcileStuckPayments: the orders it reads may have changed when it has the
\* provider's answer.
GetPendingUnconfirmed ==
  /\ stuck = {}
  /\ stuck' = {o \in linked : status[o] = "PAYMENT_PENDING"}
  /\ stuck' # {}
  /\ UNCHANGED <<call, status, date, linked, captured, quota, events, workers, now, faults>>

\* The date is formatted without the conversion to India's time.
ReconcileStuckPayment(o) ==
  /\ o \in stuck
  /\ stuck' = stuck \ {o}
  /\ \/ /\ captured[o] # None
        /\ ProcessPaymentConfirmationTx(o, "sync", DateUTC(captured[o]))
        /\ NoFault
     \/ captured[o] = None /\ UNCHANGED <<status, quota, events>> /\ NoFault
     \/ UNCHANGED <<status, quota, events>> /\ Fault
  /\ UNCHANGED <<call, date, linked, captured, workers, now>>

\* The expiry worker: an order without a payment, or without a provider order.
ExpireOrderAndReleaseQuotaTx(o) ==
  /\ status[o] \in Unpaid
  /\ Held(o) /\ MoveTo(o, "EXPIRED") /\ Release(o)
  /\ UNCHANGED <<call, date, linked, captured, consumed, charged, events, stuck, workers,
                 now, faults>>

-----------------------------------------------------------------------------
(***************************************************************************)
(* The reconcilers that credit the wallet.                                 *)
(***************************************************************************)

\* The lease outlives the calls made under it, unless they are very slow.
LeaseEnded(o) ==
  /\ status[o] = "CREDIT_PROCESSING"
  /\ \A w \in Workers : o \notin working[w]

ClaimBatchForCredit(w) ==
  /\ working[w] = {}
  /\ \E slow \in {{}} \cup {{o} : o \in Orders} :
       /\ \A o \in slow : status[o] = "CREDIT_PROCESSING" /\ ~LeaseEnded(o)
       /\ LET batch == slow \cup {o \in Orders : status[o] = "CREDIT_PENDING" \/ LeaseEnded(o)}
          IN /\ batch # {}
             /\ status' = [o \in Orders |-> IF o \in batch THEN "CREDIT_PROCESSING" ELSE status[o]]
             /\ claim' = [o \in Orders |-> IF o \in batch THEN w ELSE claim[o]]
             /\ working' = [working EXCEPT ![w] = batch]
       /\ IF slow = {} THEN NoFault ELSE Fault
  /\ deposited' = [deposited EXCEPT ![w] = {}]
  /\ UNCHANGED <<call, date, linked, captured, quota, events, stuck, wallet, now>>

DepositFunds_FailureCounts(w, o) ==
  /\ o \in working[w] \ deposited[w]
  /\ \/ wallet' = wallet \cup {o} /\ NoFault
     \/ wallet' \in {wallet, wallet \cup {o}} /\ Fault
  /\ deposited' = [deposited EXCEPT ![w] = @ \cup {o}]
  /\ UNCHANGED <<call, status, date, linked, captured, quota, events, stuck, claim, working, now>>

\* The wallet ignores a reference it has seen.  A failure or a timeout only sets
\* the time of the next attempt.
DepositFunds(w, o) ==
  /\ o \in working[w] \ deposited[w]
  /\ \/ /\ wallet' = wallet \cup {o}
        /\ deposited' = [deposited EXCEPT ![w] = @ \cup {o}]
        /\ working' = working /\ NoFault
     \/ /\ wallet' \in {wallet, wallet \cup {o}}
        /\ working' = [working EXCEPT ![w] = @ \ {o}]
        /\ deposited' = deposited /\ Fault
  /\ UNCHANGED <<call, status, date, linked, captured, quota, events, stuck, claim, now>>

\* WHERE status = 'CREDIT_PROCESSING' AND claim_token = token.
CompleteOrder(w, o) ==
  /\ o \in working[w] \cap deposited[w]
  /\ \/ /\ status[o] = "CREDIT_PROCESSING" /\ claim[o] = w
        /\ MoveTo(o, "COMPLETED") /\ NoFault
     \/ /\ ~(status[o] = "CREDIT_PROCESSING" /\ claim[o] = w)
        /\ status' = status /\ NoFault
     \/ status' = status /\ Fault
  /\ working' = [working EXCEPT ![w] = @ \ {o}]
  /\ UNCHANGED <<call, date, linked, captured, quota, events, stuck, claim, deposited, wallet,
                 now>>

-----------------------------------------------------------------------------
\* All processes stop and start again; requests in progress are gone.
Crash ==
  /\ Fault
  /\ call' = [o \in Orders |-> IF call[o] = "idle" THEN "idle" ELSE "done"]
  /\ stuck' = {}
  /\ working' = [w \in Workers |-> {}]
  /\ deposited' = [w \in Workers |-> {}]
  /\ UNCHANGED <<status, date, linked, captured, quota, events, claim, wallet, now>>

Tick ==
  /\ now < LastTime /\ now' = now + 1
  /\ UNCHANGED <<call, status, date, linked, captured, quota, events, stuck, workers, faults>>

Init ==
  /\ call = [o \in Orders |-> "idle"]
  /\ status = [o \in Orders |-> "NONE"]
  /\ date = [o \in Orders |-> 0]
  /\ linked = {}
  /\ captured = [o \in Orders |-> None]
  /\ reserved = [d \in Days |-> 0]
  /\ consumed = [d \in Days |-> 0]
  /\ charged = [o \in Orders |-> None]
  /\ events = {}
  /\ stuck = {}
  /\ claim = [o \in Orders |-> None]
  /\ working = [w \in Workers |-> {}]
  /\ deposited = [w \in Workers |-> {}]
  /\ wallet = {}
  /\ now = 0
  /\ faults = 0

CreateTopUp(o) ==
  \/ InitiateTopUpTx(o) \/ ProviderCreatesOrder(o)
  \/ ActivatePaymentPending(o) \/ CancelInitiatedOrderTx(o)

ReconcilerStep(w) ==
  \/ ClaimBatchForCredit(w)
  \/ \E o \in Orders : DepositFunds(w, o) \/ CompleteOrder(w, o)

Next ==
  \/ \E o \in Orders : \/ CreateTopUp(o) \/ Capture(o) \/ ProcessWebhook(o)
                       \/ VerifyCheckoutPayment(o) \/ ReconcileStuckPayment(o)
                       \/ ExpireOrderAndReleaseQuotaTx(o)
  \/ GetPendingUnconfirmed
  \/ \E w \in Workers : ReconcilerStep(w)
  \/ Crash
  \/ Tick

Spec == Init /\ [][Next]_vars

(***************************************************************************)
(* The tickers of the workers fire and the provider repeats its webhook;   *)
(* neither clients nor the look at the provider are relied on.             *)
(***************************************************************************)
Fairness ==
  /\ \A o \in Orders : /\ WF_vars(ProcessWebhook(o))
                       /\ WF_vars(ExpireOrderAndReleaseQuotaTx(o))
  /\ WF_vars(\E w \in Workers : ReconcilerStep(w))

FairSpec == Spec /\ Fairness

-----------------------------------------------------------------------------
\* Every variable keeps its type; the quota columns never become negative
\* (the CHECKs of daily_topup_limits).
TypeOK ==
  /\ call \in [Orders -> {"idle", "provider", "activate", "cancel", "done"}]
  /\ status \in [Orders -> {"NONE", "EXPIRED", "FAILED", "REFUND_REQUIRED"}
                             \cup Unpaid \cup Crediting]
  /\ date \in [Orders -> Days]
  /\ linked \subseteq Orders
  /\ captured \in [Orders -> Times \cup {None}]
  /\ reserved \in [Days -> Nat] /\ consumed \in [Days -> Nat]
  /\ charged \in [Orders -> Days \cup {None}]
  /\ events \subseteq Sources \X Orders
  /\ stuck \subseteq Orders
  /\ claim \in [Orders -> Workers \cup {None}]
  /\ working \in [Workers -> SUBSET Orders] /\ deposited \in [Workers -> SUBSET Orders]
  /\ wallet \subseteq Orders
  /\ now \in Times /\ faults \in 0 .. MaxFaults

Amounts(S) == MapThenSumSet(LAMBDA o : Amount[o], S)

\* The quota of every day is exactly what its unpaid orders hold and its paid
\* orders have used, within the limit: no order of events traps or frees quota
\* twice, and the "invariant violation" errors are never returned.
QuotaBacked ==
  \A d \in Days :
    /\ reserved[d] = Amounts({o \in Orders : status[o] \in Unpaid /\ date[o] = d})
    /\ consumed[d] = Amounts({o \in Orders : charged[o] = d})
    /\ reserved[d] + consumed[d] <= Limit

\* Money is credited for a captured payment that has used quota, and never to
\* an order that is given up or to be refunded; COMPLETED is said only of what
\* the wallet has, whatever leases end and answers are lost.
CreditedOrRefunded ==
  \A o \in Orders :
    /\ o \in wallet => captured[o] # None /\ charged[o] # None /\ status[o] \in Crediting
    /\ status[o] = "COMPLETED" => o \in wallet
    /\ status[o] \in Crediting <=> charged[o] # None

\* What a step may never do: a completed, failed or refundable order changes, or
\* an expired one does anything but ask for the refund of a late payment.
EndsStay ==
  [][\A o \in Orders :
       /\ status[o] \in {"COMPLETED", "FAILED", "REFUND_REQUIRED"} => status'[o] = status[o]
       /\ status[o] = "EXPIRED" => status'[o] \in {"EXPIRED", "REFUND_REQUIRED"}
       /\ status[o] \in Crediting => status'[o] \in Crediting]_vars

\* Reserved quota does not stay reserved: an order is paid, cancelled or expired,
\* also when CreateTopUp died half way.
QuotaFreed == <>[](\A o \in Orders : status[o] \notin Unpaid)

\* A captured payment ends as a credit or as a refund to be made, however late it
\* is reported ("the bank took the user's real money").
PaidIsResolved ==
  <>[](\A o \in Orders : captured[o] # None => status[o] \in {"COMPLETED", "REFUND_REQUIRED"})

\* No order keeps quota or a payment for ever, and what has ended stays so.
TopUpsResolve == EndsStay /\ QuotaFreed /\ PaidIsResolved

\* "Handles cross-midnight daily limit accounting without exceeding caps": what
\* was captured on one day and is credited stays within the limit.
DailyCap ==
  \A d \in Days :
    Amounts({o \in Orders : /\ status[o] \in Crediting
                            /\ captured[o] # None /\ DateIST(captured[o]) = d}) <= Limit
=============================================================================

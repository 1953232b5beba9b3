----------------------------- MODULE TopUpProofs -----------------------------
(***************************************************************************)
(* Theorems about TopUp for any orders, amounts, limit, number of          *)
(* reconcilers and number of faults.                                       *)
(***************************************************************************)
EXTENDS TopUp, Sums, TLAPS

Calls    == {"idle", "provider", "activate", "cancel", "done"}
Statuses == {"NONE", "EXPIRED", "FAILED", "REFUND_REQUIRED"} \cup Unpaid \cup Crediting

\* The part of TypeOK that the arguments below need.
Types ==
  /\ call \in [Orders -> Calls]
  /\ status \in [Orders -> Statuses]
  /\ date \in [Orders -> Nat]
  /\ captured \in [Orders -> Nat \cup {None}]
  /\ charged \in [Orders -> Nat \cup {None}]
  /\ working \in [Workers -> SUBSET Orders] /\ deposited \in [Workers -> SUBSET Orders]
  /\ now \in Nat

\* A request that has not begun has no order.
Fresh == \A o \in Orders : call[o] = "idle" => status[o] = "NONE"

\* Quota is used for captured payments only.
ChargedIsCaptured == \A o \in Orders : charged[o] # None => captured[o] # None

\* What a reconciler holds is being credited or done, also after its lease has
\* ended, and what it knows to be deposited is in the wallet.
WorkersSound ==
  \A w \in Workers : \A o \in Orders :
    /\ o \in working[w] => status[o] \in {"CREDIT_PROCESSING", "COMPLETED"}
    /\ o \in deposited[w] => o \in wallet

\* The inductive invariant.
IInv == Types /\ Fresh /\ ChargedIsCaptured /\ WorkersSound /\ CreditedOrRefunded

\* What EndsStay says of one step.
StatusStep ==
  \A o \in Orders :
    /\ status[o] \in {"COMPLETED", "FAILED", "REFUND_REQUIRED"} => status'[o] = status[o]
    /\ status[o] = "EXPIRED" => status'[o] \in {"EXPIRED", "REFUND_REQUIRED"}
    /\ status[o] \in Crediting => status'[o] \in Crediting

\* The variables the invariant speaks of.
core == <<call, status, date, captured, charged, working, deposited, wallet, now>>

-----------------------------------------------------------------------------
\* Steps on the quota rows or the clients alone leave them as they are.
LEMMA Quiet == IInv /\ UNCHANGED core => IInv' /\ StatusStep
  BY DEF IInv, Types, Fresh, ChargedIsCaptured, WorkersSound, CreditedOrRefunded,
         StatusStep, core

\* Dates are numbers.
LEMMA Dates == \A t \in Nat : DateIST(t) \in Nat /\ DateUTC(t) \in Nat
  BY DEF DateIST, DateUTC

\* An order that no quota is charged for moves to a state that needs none: the
\* inserts, activations, cancellations, expiries and refunds.
LEMMA UnchargedMove ==
  ASSUME IInv, NEW o \in Orders, NEW s \in Statuses \ Crediting,
         status[o] \in {"NONE", "EXPIRED"} \cup Unpaid,
         status[o] = "EXPIRED" => s = "REFUND_REQUIRED",
         MoveTo(o, s), call' \in [Orders -> Calls], call'[o] # "idle",
         \A p \in Orders : call'[p] = "idle" => call[p] = "idle",
         date' \in [Orders -> Nat],
         UNCHANGED <<captured, charged, working, deposited, wallet, now>>
  PROVE  IInv' /\ StatusStep
  <1> USE DEF IInv
  <1>1. status' = [status EXCEPT ![o] = s]
    BY DEF MoveTo
  <1>2. Types'
    BY <1>1 DEF Types
  <1>3. Fresh'
    BY <1>1 DEF Types, Fresh
  <1>4. ChargedIsCaptured'
    BY DEF ChargedIsCaptured
  <1>5. WorkersSound'
    BY <1>1 DEF Types, WorkersSound, Unpaid
  <1>6. status[o] \notin Crediting /\ s \notin Crediting
    BY DEF Crediting, Unpaid
  <1>7. CreditedOrRefunded'
    <2> SUFFICES ASSUME NEW p \in Orders
                 PROVE  /\ p \in wallet => captured[p] # None /\ charged[p] # None
                                           /\ status'[p] \in Crediting
                        /\ status'[p] = "COMPLETED" => p \in wallet
                        /\ status'[p] \in Crediting <=> charged[p] # None
      BY DEF CreditedOrRefunded
    <2>1. CASE p = o
      BY <1>1, <1>6, <2>1 DEF Types, CreditedOrRefunded, Crediting
    <2>2. CASE p # o
      BY <1>1, <2>2 DEF Types, CreditedOrRefunded
    <2> QED BY <2>1, <2>2
  <1>8. StatusStep
    BY <1>1, <1>6 DEF Types, StatusStep, Unpaid
  <1> QED BY <1>2, <1>3, <1>4, <1>5, <1>7, <1>8

\* An order that is paid becomes one to be credited, with its quota charged.
LEMMA PaidMove ==
  ASSUME IInv, NEW o \in Orders, NEW day \in Nat, captured[o] # None,
         status[o] = "PAYMENT_PENDING", Consume(o, day),
         UNCHANGED <<call, date, captured, working, deposited, wallet, now>>
  PROVE  IInv' /\ StatusStep
  <1> USE DEF IInv
  <1>1. /\ status' = [status EXCEPT ![o] = "CREDIT_PENDING"]
        /\ charged' = [charged EXCEPT ![o] = day]
    BY DEF Consume, MoveTo
  <1>2. Types'
    BY <1>1 DEF Types, Statuses, Crediting
  <1>3. Fresh'
    BY <1>1 DEF Types, Fresh
  <1>4. ChargedIsCaptured'
    BY <1>1 DEF Types, ChargedIsCaptured
  <1>5. WorkersSound'
    BY <1>1 DEF Types, WorkersSound
  <1>6. day # None
    BY TopUpAssumption
  <1>7. CreditedOrRefunded'
    <2> SUFFICES ASSUME NEW p \in Orders
                 PROVE  /\ p \in wallet => captured[p] # None /\ charged'[p] # None
                                           /\ status'[p] \in Crediting
                        /\ status'[p] = "COMPLETED" => p \in wallet
                        /\ status'[p] \in Crediting <=> charged'[p] # None
      BY DEF CreditedOrRefunded
    <2>1. CASE p = o
      BY <1>1, <1>6, <2>1 DEF Types, CreditedOrRefunded, Crediting
    <2>2. CASE p # o
      BY <1>1, <2>2 DEF Types, CreditedOrRefunded
    <2> QED BY <2>1, <2>2
  <1>8. StatusStep
    BY <1>1 DEF Types, StatusStep, Crediting
  <1> QED BY <1>2, <1>3, <1>4, <1>5, <1>7, <1>8

\* The transaction that confirms a payment, whoever reports it and for whatever day.
LEMMA Confirms ==
  ASSUME IInv, NEW o \in Orders, NEW source, NEW day \in Nat, captured[o] # None,
         ProcessPaymentConfirmationTx(o, source, day),
         UNCHANGED <<call, date, captured, working, deposited, wallet, now>>
  PROVE  IInv' /\ StatusStep
  <1>1. CASE UNCHANGED <<status, quota>>
    BY <1>1, Quiet DEF quota, core
  <1>2. CASE status[o] = "EXPIRED" /\ MoveTo(o, "REFUND_REQUIRED") /\ UNCHANGED quota
    <2>1. call[o] # "idle"
      BY <1>2 DEF IInv, Fresh
    <2> QED BY <1>2, <2>1, UnchargedMove DEF IInv, Types, Statuses, Crediting, quota
  <1>3. CASE status[o] = "PAYMENT_PENDING" /\ SameDay(o)
    BY <1>3, PaidMove DEF SameDay, IInv, Types
  <1>4. CASE status[o] = "PAYMENT_PENDING" /\ OtherDay(o, day)
    <2>1. CASE Room(day, o)
      BY <1>4, <2>1, PaidMove DEF OtherDay
    <2>2. CASE ~Room(day, o)
      <3>1. call[o] # "idle"
        BY <1>4 DEF IInv, Fresh
      <3> QED BY <1>4, <2>2, <3>1, UnchargedMove
              DEF OtherDay, IInv, Types, Statuses, Crediting, Unpaid
    <2> QED BY <2>1, <2>2
  <1> QED BY <1>1, <1>2, <1>3, <1>4 DEF ProcessPaymentConfirmationTx

-----------------------------------------------------------------------------
\* A request goes on without a change to its order.
LEMMA CallMoves ==
  ASSUME IInv, call' \in [Orders -> Calls], \A p \in Orders : call'[p] = "idle" => call[p] = "idle",
         UNCHANGED <<status, date, captured, charged, working, deposited, wallet, now>>
  PROVE  IInv' /\ StatusStep
  <1>1. Fresh' /\ Types'
    BY DEF IInv, Types, Fresh
  <1> QED BY <1>1 DEF IInv, ChargedIsCaptured, WorkersSound, CreditedOrRefunded, StatusStep

\* CreateTopUp, from the reservation of the quota to the answer.
LEMMA Creates ==
  ASSUME IInv, NEW o \in Orders, CreateTopUp(o)
  PROVE  IInv' /\ StatusStep
  <1>1. call \in [Orders -> Calls] /\ date \in [Orders -> Nat]
    BY DEF IInv, Types
  <1>2. CASE InitiateTopUpTx(o)
    <2>1. status[o] = "NONE"
      BY <1>2 DEF InitiateTopUpTx, IInv, Fresh
    <2>2. UNCHANGED <<captured, charged, working, deposited, wallet, now>>
      BY <1>2 DEF InitiateTopUpTx, workers
    <2>3. CASE UNCHANGED <<status, date>> /\ call' = [call EXCEPT ![o] = "done"]
      BY <1>1, <2>2, <2>3, CallMoves DEF Calls
    <2>4. CASE /\ MoveTo(o, "INITIATED") /\ call' = [call EXCEPT ![o] = "provider"]
               /\ date' = [date EXCEPT ![o] = DateIST(now)]
      <3>1. DateIST(now) \in Nat
        BY Dates DEF IInv, Types
      <3>2. call' \in [Orders -> Calls] /\ date' \in [Orders -> Nat] /\ call'[o] # "idle"
        BY <1>1, <2>4, <3>1 DEF Calls
      <3>3. \A p \in Orders : call'[p] = "idle" => call[p] = "idle"
        BY <1>1, <2>4
      <3>4. "INITIATED" \in Statuses \ Crediting
        BY DEF Statuses, Crediting, Unpaid
      <3> QED BY <2>1, <2>2, <2>4, <3>2, <3>3, <3>4, UnchargedMove
    <2> QED BY <1>2, <2>3, <2>4 DEF InitiateTopUpTx
  <1>3. CASE ProviderCreatesOrder(o)
    <2>1. /\ call' = [call EXCEPT ![o] = "activate"] \/ call' = [call EXCEPT ![o] = "cancel"]
          /\ UNCHANGED <<status, date, captured, charged, working, deposited, wallet, now>>
      BY <1>3 DEF ProviderCreatesOrder, quota, workers
    <2> QED BY <1>1, <2>1, CallMoves DEF Calls
  <1>4. ASSUME NEW s \in {"PAYMENT_PENDING", "FAILED"},
               call' = [call EXCEPT ![o] = "done"],
               \/ status' = status
               \/ status[o] = "INITIATED" /\ MoveTo(o, s),
               UNCHANGED <<date, captured, charged, working, deposited, wallet, now>>
        PROVE  IInv' /\ StatusStep
    <2>1. /\ call' \in [Orders -> Calls] /\ call'[o] # "idle" /\ date' \in [Orders -> Nat]
          /\ \A p \in Orders : call'[p] = "idle" => call[p] = "idle"
      BY <1>1, <1>4 DEF Calls
    <2>2. s \in Statuses \ Crediting /\ "INITIATED" \in Unpaid
      BY DEF Statuses, Crediting, Unpaid
    <2>3. CASE status' = status
      BY <1>4, <2>1, <2>3, CallMoves
    <2>4. CASE status[o] = "INITIATED" /\ MoveTo(o, s)
      BY <1>4, <2>1, <2>2, <2>4, UnchargedMove
    <2> QED BY <1>4, <2>3, <2>4
  <1>5. CASE ActivatePaymentPending(o)
    BY <1>4, <1>5 DEF ActivatePaymentPending, quota, workers
  <1>6. CASE CancelInitiatedOrderTx(o)
    BY <1>4, <1>6 DEF CancelInitiatedOrderTx, workers
  <1> QED BY <1>2, <1>3, <1>5, <1>6 DEF CreateTopUp

\* The provider captures a payment: only captured changes.
LEMMA Captures ==
  ASSUME IInv, NEW o \in Orders, Capture(o)
  PROVE  IInv' /\ StatusStep
  <1>1. /\ captured[o] = None /\ captured' = [captured EXCEPT ![o] = now]
        /\ UNCHANGED <<call, status, date, charged, working, deposited, wallet, now>>
    BY DEF Capture, quota, workers
  <1>2. now # None /\ now \in Nat
    BY TopUpAssumption DEF IInv, Types
  <1>3. \A p \in Orders : captured[p] # None => captured'[p] # None
    BY <1>1, <1>2 DEF IInv, Types
  <1>4. Types'
    BY <1>1, <1>2 DEF IInv, Types
  <1>5. Fresh' /\ WorkersSound' /\ StatusStep
    BY <1>1 DEF IInv, Fresh, WorkersSound, StatusStep
  <1>6. ChargedIsCaptured' /\ CreditedOrRefunded'
    BY <1>1, <1>3 DEF IInv, ChargedIsCaptured, CreditedOrRefunded
  <1> QED BY <1>4, <1>5, <1>6 DEF IInv

-----------------------------------------------------------------------------
\* A claim takes only orders that wait for their credit.
LEMMA Claims ==
  ASSUME IInv, NEW w \in Workers, ClaimBatchForCredit(w)
  PROVE  IInv' /\ StatusStep
  <1>1. PICK batch \in SUBSET Orders :
          /\ \A o \in batch : status[o] \in {"CREDIT_PENDING", "CREDIT_PROCESSING"}
          /\ status' = [o \in Orders |-> IF o \in batch THEN "CREDIT_PROCESSING" ELSE status[o]]
          /\ working' = [working EXCEPT ![w] = batch]
    <2>1. PICK slow \in {{}} \cup {{o} : o \in Orders} :
            /\ \A o \in slow : status[o] = "CREDIT_PROCESSING"
            /\ LET batch == slow \cup {o \in Orders : status[o] = "CREDIT_PENDING" \/ LeaseEnded(o)}
               IN /\ status' = [o \in Orders |-> IF o \in batch THEN "CREDIT_PROCESSING"
                                                 ELSE status[o]]
                  /\ working' = [working EXCEPT ![w] = batch]
      BY DEF ClaimBatchForCredit
    <2> DEFINE batch == slow \cup {o \in Orders : status[o] = "CREDIT_PENDING" \/ LeaseEnded(o)}
    <2>2. batch \in SUBSET Orders
      BY <2>1
    <2>3. \A o \in batch : status[o] \in {"CREDIT_PENDING", "CREDIT_PROCESSING"}
      BY <2>1 DEF LeaseEnded
    <2> QED BY <2>1, <2>2, <2>3
  <1>2. /\ deposited' = [deposited EXCEPT ![w] = {}]
        /\ UNCHANGED <<call, date, captured, charged, wallet, now>>
    BY DEF ClaimBatchForCredit, quota
  <1>3. \A o \in Orders : \/ status'[o] = status[o]
                          \/ /\ status[o] \in {"CREDIT_PENDING", "CREDIT_PROCESSING"}
                             /\ status'[o] = "CREDIT_PROCESSING"
    BY <1>1
  <1>4. Types'
    BY <1>1, <1>2 DEF IInv, Types, Statuses, Crediting
  <1>5. Fresh' /\ ChargedIsCaptured'
    BY <1>2, <1>3 DEF IInv, Fresh, ChargedIsCaptured
  <1>6. ASSUME NEW v \in Workers, NEW o \in Orders
        PROVE  /\ o \in working'[v] => status'[o] \in {"CREDIT_PROCESSING", "COMPLETED"}
               /\ o \in deposited'[v] => o \in wallet'
    <2>1. CASE v = w
      BY <1>1, <1>2, <2>1 DEF IInv, Types
    <2>2. CASE v # w
      BY <1>1, <1>2, <1>3, <2>2 DEF IInv, Types, WorkersSound
    <2> QED BY <2>1, <2>2
  <1>7. WorkersSound'
    BY <1>6 DEF WorkersSound
  <1>8. CreditedOrRefunded' /\ StatusStep
    BY <1>2, <1>3 DEF IInv, CreditedOrRefunded, StatusStep, Crediting
  <1> QED BY <1>4, <1>5, <1>7, <1>8 DEF IInv

\* The call to the wallet, whatever becomes of its answer.
LEMMA Deposits ==
  ASSUME IInv, NEW w \in Workers, NEW o \in Orders, DepositFunds(w, o)
  PROVE  IInv' /\ StatusStep
  <1>1. /\ o \in working[w]
        /\ \/ wallet' = wallet \cup {o} /\ working' = working
              /\ deposited' = [deposited EXCEPT ![w] = @ \cup {o}]
           \/ wallet' \in {wallet, wallet \cup {o}} /\ deposited' = deposited
              /\ working' = [working EXCEPT ![w] = @ \ {o}]
        /\ UNCHANGED <<call, status, date, captured, charged, now>>
    BY DEF DepositFunds, quota
  <1>2. status[o] \in Crediting
    BY <1>1 DEF IInv, WorkersSound, Crediting
  <1>3. captured[o] # None /\ charged[o] # None
    BY <1>2 DEF IInv, CreditedOrRefunded, ChargedIsCaptured
  <1>4. Types'
    BY <1>1 DEF IInv, Types
  <1>5. Fresh' /\ ChargedIsCaptured' /\ StatusStep
    BY <1>1 DEF IInv, Fresh, ChargedIsCaptured, StatusStep
  <1>6. /\ \A p \in wallet : p \in wallet'
        /\ \A p \in wallet' : p \in wallet \/ p = o
    BY <1>1
  <1>7. WorkersSound'
    <2> SUFFICES ASSUME NEW v \in Workers, NEW p \in Orders
                 PROVE  /\ p \in working'[v] => status'[p] \in {"CREDIT_PROCESSING", "COMPLETED"}
                        /\ p \in deposited'[v] => p \in wallet'
      BY DEF WorkersSound
    <2>1. p \in working'[v] => p \in working[v]
      BY <1>1 DEF IInv, Types
    <2>2. p \in deposited'[v] => p \in deposited[v] \/ (p = o /\ o \in wallet')
      BY <1>1 DEF IInv, Types
    <2> QED BY <1>1, <1>6, <2>1, <2>2 DEF IInv, WorkersSound
  <1>8. CreditedOrRefunded'
    BY <1>1, <1>2, <1>3, <1>6 DEF IInv, CreditedOrRefunded
  <1> QED BY <1>4, <1>5, <1>7, <1>8 DEF IInv

\* COMPLETED is written by a reconciler whose deposit has succeeded.
LEMMA Completes ==
  ASSUME IInv, NEW w \in Workers, NEW o \in Orders, CompleteOrder(w, o)
  PROVE  IInv' /\ StatusStep
  <1>1. /\ o \in deposited[w]
        /\ \/ status[o] = "CREDIT_PROCESSING" /\ status' = [status EXCEPT ![o] = "COMPLETED"]
           \/ status' = status
        /\ working' = [working EXCEPT ![w] = @ \ {o}]
        /\ UNCHANGED <<call, date, captured, charged, deposited, wallet, now>>
    BY DEF CompleteOrder, MoveTo, quota
  <1>2. o \in wallet
    BY <1>1 DEF IInv, WorkersSound
  <1>3. \A p \in Orders : \/ status'[p] = status[p]
                          \/ /\ p = o /\ status[p] = "CREDIT_PROCESSING"
                             /\ status'[p] = "COMPLETED"
    BY <1>1 DEF IInv, Types
  <1>4. Types'
    BY <1>1 DEF IInv, Types, Statuses, Crediting
  <1>5. Fresh' /\ ChargedIsCaptured'
    BY <1>1, <1>3 DEF IInv, Fresh, ChargedIsCaptured
  <1>6. \A v \in Workers : \A p \in Orders : p \in working'[v] => p \in working[v]
    BY <1>1 DEF IInv, Types
  <1>7. WorkersSound'
    BY <1>1, <1>3, <1>6 DEF IInv, WorkersSound
  <1>8. CreditedOrRefunded' /\ StatusStep
    BY <1>1, <1>2, <1>3 DEF IInv, CreditedOrRefunded, StatusStep, Crediting
  <1> QED BY <1>4, <1>5, <1>7, <1>8 DEF IInv

-----------------------------------------------------------------------------
\* Every step keeps the invariant and moves no order out of an end.
LEMMA StepInv == IInv /\ [Next]_vars => IInv' /\ StatusStep
  <1> SUFFICES ASSUME IInv, [Next]_vars PROVE IInv' /\ StatusStep
    OBVIOUS
  <1>1. CASE UNCHANGED vars
    BY <1>1, Quiet DEF vars, core
  <1>2. ASSUME NEW o \in Orders, NEW source, NEW day \in Nat, captured[o] # None,
               ProcessPaymentConfirmationTx(o, source, day),
               UNCHANGED <<call, date, captured, workers, now>>
        PROVE  IInv' /\ StatusStep
    BY <1>2, Confirms DEF workers
  <1>3. ASSUME NEW o \in Orders, captured[o] # None
        PROVE  DateIST(captured[o]) \in Nat /\ DateUTC(captured[o]) \in Nat
    BY <1>3, Dates DEF IInv, Types
  <1>4. ASSUME NEW o \in Orders, CreateTopUp(o) PROVE IInv' /\ StatusStep
    BY <1>4, Creates
  <1>5. ASSUME NEW o \in Orders, Capture(o) PROVE IInv' /\ StatusStep
    BY <1>5, Captures
  <1>6. ASSUME NEW o \in Orders, ProcessWebhook(o) PROVE IInv' /\ StatusStep
    BY <1>2, <1>3, <1>6 DEF ProcessWebhook
  <1>7. ASSUME NEW o \in Orders, VerifyCheckoutPayment(o) PROVE IInv' /\ StatusStep
    BY <1>2, <1>3, <1>7 DEF VerifyCheckoutPayment
  <1>8. ASSUME NEW o \in Orders, ReconcileStuckPayment(o) PROVE IInv' /\ StatusStep
    <2>1. UNCHANGED <<call, date, captured, workers, now>>
      BY <1>8 DEF ReconcileStuckPayment
    <2>2. CASE UNCHANGED <<status, quota>>
      BY <2>1, <2>2, Quiet DEF quota, workers, core
    <2>3. CASE captured[o] # None
               /\ ProcessPaymentConfirmationTx(o, "sync", DateUTC(captured[o]))
      BY <1>2, <1>3, <2>1, <2>3
    <2> QED BY <1>8, <2>2, <2>3 DEF ReconcileStuckPayment
  <1>9. ASSUME NEW o \in Orders, ExpireOrderAndReleaseQuotaTx(o) PROVE IInv' /\ StatusStep
    <2>1. /\ status[o] \in Unpaid /\ MoveTo(o, "EXPIRED")
          /\ UNCHANGED <<call, date, captured, charged, working, deposited, wallet, now>>
      BY <1>9 DEF ExpireOrderAndReleaseQuotaTx, workers
    <2>2. call[o] # "idle" /\ status[o] # "EXPIRED"
      BY <2>1 DEF IInv, Fresh, Unpaid
    <2>3. "EXPIRED" \in Statuses \ Crediting
      BY DEF Statuses, Crediting
    <2> QED BY <2>1, <2>2, <2>3, UnchargedMove DEF IInv, Types
  <1>10. CASE GetPendingUnconfirmed
    BY <1>10, Quiet DEF GetPendingUnconfirmed, quota, workers, core
  <1>11. ASSUME NEW w \in Workers, ReconcilerStep(w) PROVE IInv' /\ StatusStep
    BY <1>11, Claims, Deposits, Completes DEF ReconcilerStep
  <1>12. CASE Crash
    <2>1. /\ call' = [o \in Orders |-> IF call[o] = "idle" THEN "idle" ELSE "done"]
          /\ working' = [w \in Workers |-> {}] /\ deposited' = [w \in Workers |-> {}]
          /\ UNCHANGED <<status, date, captured, charged, wallet, now>>
      BY <1>12 DEF Crash, quota
    <2>2. Types' /\ Fresh'
      BY <2>1 DEF IInv, Types, Fresh, Calls
    <2> QED BY <2>1, <2>2 DEF IInv, ChargedIsCaptured, WorkersSound, CreditedOrRefunded, StatusStep
  <1>13. CASE Tick
    <2>1. now' \in Nat /\ UNCHANGED <<call, status, date, captured, charged, working, deposited, wallet>>
      BY <1>13 DEF Tick, quota, workers, IInv, Types
    <2> QED BY <2>1 DEF IInv, Types, Fresh, ChargedIsCaptured, WorkersSound,
                        CreditedOrRefunded, StatusStep
  <1> QED BY <1>1, <1>4, <1>5, <1>6, <1>7, <1>8, <1>9, <1>10, <1>11, <1>12, <1>13 DEF Next

\* The invariant holds at the start.
LEMMA InitInv == Init => IInv
  <1> SUFFICES ASSUME Init PROVE IInv
    OBVIOUS
  <1>1. Types
    BY DEF Init, Types, Calls, Statuses
  <1> QED BY <1>1 DEF Init, IInv, Fresh, ChargedIsCaptured, WorkersSound, CreditedOrRefunded,
                      Crediting

\* The inductive invariant holds in every state.
LEMMA Invariance == Spec => []IInv
  <1>1. IInv /\ [Next]_vars => IInv'
    BY StepInv
  <1> QED BY <1>1, InitInv, PTL DEF Spec

-----------------------------------------------------------------------------
\* However often a payment is reported, whichever leases end and whichever
\* answers of the wallet are lost, money is credited only for captured payments
\* that have used quota and COMPLETED is said only of credited orders
\* (ProcessPaymentConfirmationTx, processBatch, CompleteOrder).
THEOREM CreditsSound == Spec => []CreditedOrRefunded
  <1>1. IInv => CreditedOrRefunded
    BY DEF IInv
  <1> QED BY <1>1, Invariance, PTL

\* No interleaving of expiry worker, reconcilers and payment reports reopens an
\* order that has ended (the status guards of every UPDATE of topup_orders).
THEOREM EndsAreFinal == Spec => EndsStay
  <1>1. IInv /\ [Next]_vars => [StatusStep]_vars
    BY StepInv
  <1>2. Spec => [][StatusStep]_vars
    BY <1>1, Invariance, PTL DEF Spec
  <1> QED BY <1>2 DEF EndsStay, StatusStep

-----------------------------------------------------------------------------
(***************************************************************************)
(* Quota.  The columns of a day are the sums over the orders that hold or  *)
(* have used it; no more orders have one than have been asked for.         *)
(***************************************************************************)
Holding(st, dt, d) == {o \in Orders : st[o] \in Unpaid /\ dt[o] = d}
Charging(ch, d)    == {o \in Orders : ch[o] = d}

Begun == {o \in Orders : call[o] # "idle"}

\* The kinds of the variables that TypeOK gives and Types leaves out.
QuotaTypes ==
  /\ reserved \in [Days -> Nat] /\ consumed \in [Days -> Nat]
  /\ date \in [Orders -> Days] /\ charged \in [Orders -> Days \cup {None}]
  /\ captured \in [Orders -> Times \cup {None}] /\ now \in Times

QInv == IInv /\ QuotaTypes /\ IsFiniteSet(Begun) /\ QuotaBacked

\* What TopUp calls the amounts of some orders is their sum.
LEMMA AmountsAre ==
  ASSUME NEW S, IsFiniteSet(S)
  PROVE  Amounts(S) = Total(Amount, S)
<1> DEFINE P(h) == h = [s \in SUBSET S |-> IF s = {} THEN 0 ELSE Amount[Some(s)] + h[s \ {Some(s)}]]
<1>1. \A h : IsTable(h, Amount, S) <=> P(h)
  BY DEF IsTable
<1>2. Amounts(S) = (CHOOSE h : P(h))[S]
  BY DEF Amounts, MapThenSumSet, MapThenFoldSet, Some
<1>3. \E h : P(h)
  BY <1>1, TableExists
<1>4. PICK h : P(h) /\ Amounts(S) = h[S]
  BY <1>2, <1>3
<1>5. IsTable(h, Amount, S)
  BY <1>1, <1>4
<1> QED BY <1>4, <1>5, TotalIs

LEMMA AmountsAdd ==
  ASSUME NEW S \in SUBSET Orders, IsFiniteSet(S), NEW o \in Orders \ S
  PROVE  Amounts(S \cup {o}) = Amounts(S) + Amount[o]
<1>1. \A p \in S \cup {o} : Amount[p] \in Int
  BY TopUpAssumption
<1>2. IsFiniteSet(S \cup {o})
  BY FS_AddElement
<1>3. Total(Amount, S \cup {o}) = Total(Amount, S) + Amount[o]
  <2>1. o \notin S
    OBVIOUS
  <2> QED BY <1>1, <2>1, TotalAdd
<1>4. Amounts(S) = Total(Amount, S)
  BY AmountsAre
<1>5. Amounts(S \cup {o}) = Total(Amount, S \cup {o})
  BY <1>2, AmountsAre
<1> QED BY <1>3, <1>4, <1>5

LEMMA AmountsRemove ==
  ASSUME NEW S \in SUBSET Orders, IsFiniteSet(S), NEW o \in S
  PROVE  Amounts(S \ {o}) = Amounts(S) - Amount[o]
<1>1. IsFiniteSet(S \ {o}) /\ S \ {o} \in SUBSET Orders /\ o \in Orders \ (S \ {o})
  BY FS_RemoveElement
<1>2. (S \ {o}) \cup {o} = S
  OBVIOUS
<1>3. Amounts(S) = Amounts(S \ {o}) + Amount[o]
  BY <1>1, <1>2, AmountsAdd
<1>4. \A p \in S \ {o} : Amount[p] \in Int
  BY TopUpAssumption
<1>5. Amounts(S \ {o}) \in Int
  BY <1>1, <1>4, AmountsAre, TotalInt
<1>6. Amount[o] \in Int
  BY TopUpAssumption
<1> QED BY <1>3, <1>5, <1>6

\* Days and dates.
LEMMA DatesAreDays ==
  /\ \A t \in Times : t \in Nat /\ DateIST(t) \in Days /\ DateUTC(t) \in Days
  /\ Days \subseteq Nat /\ 0 \in Days /\ None \notin Days
<1>1. LastTime \in Nat /\ None \notin Nat
  BY TopUpAssumption
<1>2. DateIST(LastTime) \in Nat
  BY <1>1 DEF DateIST
<1>3. ASSUME NEW t \in Times PROVE t \in Nat /\ DateIST(t) \in Days /\ DateUTC(t) \in Days
  <2>1. t \in Nat /\ t <= LastTime
    BY <1>1 DEF Times
  <2>2. /\ t \div 2 + 1 \in Nat /\ t \div 2 + 1 <= LastTime \div 2 + 1
        /\ (t + 1) \div 2 \in Nat /\ (t + 1) \div 2 <= LastTime \div 2 + 1
    BY <1>1, <2>1
  <2> QED BY <2>1, <2>2 DEF DateIST, DateUTC, Days
<1> QED BY <1>1, <1>2, <1>3 DEF Days

\* Those that hold or have used quota have begun.
LEMMA FewHold ==
  ASSUME QInv, NEW d \in Days
  PROVE  /\ IsFiniteSet(Holding(status, date, d)) /\ Holding(status, date, d) \in SUBSET Orders
         /\ IsFiniteSet(Charging(charged, d)) /\ Charging(charged, d) \in SUBSET Orders
         /\ reserved[d] = Amounts(Holding(status, date, d))
         /\ consumed[d] = Amounts(Charging(charged, d))
         /\ reserved[d] + consumed[d] <= Limit
         /\ reserved[d] \in Nat /\ consumed[d] \in Nat
<1>1. d # None
  BY DatesAreDays
<1>2. Holding(status, date, d) \subseteq Begun
  BY DEF Holding, Begun, QInv, IInv, Fresh, Unpaid
<1>3. Charging(charged, d) \subseteq Begun
  BY <1>1 DEF Charging, Begun, QInv, IInv, Fresh, CreditedOrRefunded, Crediting
<1>4. IsFiniteSet(Holding(status, date, d)) /\ IsFiniteSet(Charging(charged, d))
  BY <1>2, <1>3, FS_Subset DEF QInv
<1>5. reserved[d] \in Nat /\ consumed[d] \in Nat
  BY DEF QInv, QuotaTypes
<1> QED BY <1>4, <1>5 DEF QInv, QuotaBacked, Holding, Charging

\* Nothing changes for the quota.
LEMMA QuotaKept ==
  ASSUME QInv, IInv', IsFiniteSet(Begun)',
         \A p \in Orders : status'[p] \in Unpaid <=> status[p] \in Unpaid,
         UNCHANGED <<date, reserved, consumed, charged>>,
         captured' \in [Orders -> Times \cup {None}], now' \in Times
  PROVE  QInv'
<1>1. QuotaTypes'
  BY DEF QInv, QuotaTypes
<1>2. ASSUME NEW d \in Days
      PROVE  Holding(status', date', d) = Holding(status, date, d)
  BY DEF Holding
<1>3. QuotaBacked'
  BY <1>2 DEF QInv, QuotaBacked, Holding
<1> QED BY <1>1, <1>3 DEF QInv

\* An order takes quota of a day that has room.
LEMMA QuotaTaken ==
  ASSUME QInv, IInv', IsFiniteSet(Begun)', NEW o \in Orders, NEW day \in Days, NEW s \in Unpaid,
         status[o] \notin Unpaid, MoveTo(o, s), date' = [date EXCEPT ![o] = day],
         reserved' = [reserved EXCEPT ![day] = @ + Amount[o]], Room(day, o),
         UNCHANGED <<consumed, charged, captured, now>>
  PROVE  QInv'
<1>1. Amount[o] \in Nat
  BY TopUpAssumption
<1>2. /\ reserved \in [Days -> Nat] /\ status' = [status EXCEPT ![o] = s]
      /\ DOMAIN status = Orders /\ date \in [Orders -> Days]
  BY DEF QInv, QuotaTypes, IInv, Types, MoveTo
<1>3. QuotaTypes'
  BY <1>1, <1>2 DEF QInv, QuotaTypes
<1>4. ASSUME NEW d \in Days, d # day
      PROVE  Holding(status', date', d) = Holding(status, date, d) /\ reserved'[d] = reserved[d]
  BY <1>2, <1>4 DEF Holding
<1>5. /\ Holding(status', date', day) = Holding(status, date, day) \cup {o}
      /\ o \notin Holding(status, date, day)
      /\ reserved'[day] = reserved[day] + Amount[o]
  BY <1>2 DEF Holding
<1>6. Amounts(Holding(status', date', day)) = Amounts(Holding(status, date, day)) + Amount[o]
  BY <1>5, FewHold, AmountsAdd
<1>7. ASSUME NEW d \in Days
      PROVE  /\ reserved'[d] = Amounts(Holding(status', date', d))
             /\ consumed'[d] = Amounts(Charging(charged', d))
             /\ reserved'[d] + consumed'[d] <= Limit
  <2>1. CASE d = day
    <3>1. reserved'[day] + consumed'[day] <= Limit
      BY <1>1, <1>5, FewHold, TopUpAssumption DEF Room
    <3> QED BY <1>5, <1>6, <2>1, <3>1, FewHold
  <2>2. CASE d # day
    BY <1>4, <2>2, FewHold
  <2> QED BY <2>1, <2>2
<1>8. QuotaBacked'
  BY <1>7 DEF QuotaBacked, Holding, Charging
<1> QED BY <1>3, <1>8 DEF QInv

\* The orders that hold the quota of a day when one gives it back.
LEMMA HeldLess ==
  ASSUME QInv, NEW o \in Orders, NEW s, s \notin Unpaid, status[o] \in Unpaid,
         MoveTo(o, s), Held(o), Release(o), UNCHANGED date
  PROVE  /\ date[o] \in Days /\ reserved' \in [Days -> Nat] /\ Amount[o] \in Nat
         /\ \A d \in Days : reserved'[d] = Amounts(Holding(status', date', d))
         /\ \A d \in Days \ {date[o]} : reserved'[d] = reserved[d]
         /\ reserved'[date[o]] = reserved[date[o]] - Amount[o]
<1> DEFINE day == date[o]
<1>1. Amount[o] \in Nat
  BY TopUpAssumption
<1>2. /\ reserved \in [Days -> Nat] /\ status' = [status EXCEPT ![o] = s]
      /\ DOMAIN status = Orders /\ date \in [Orders -> Days] /\ day \in Days
  BY DEF QInv, QuotaTypes, IInv, Types, MoveTo
<1>3. reserved' = [reserved EXCEPT ![day] = @ - Amount[o]] /\ reserved[day] >= Amount[o]
  BY DEF Held, Release
<1>4. reserved' \in [Days -> Nat]
  BY <1>1, <1>2, <1>3
<1>5. ASSUME NEW d \in Days, d # day
      PROVE  Holding(status', date', d) = Holding(status, date, d) /\ reserved'[d] = reserved[d]
  BY <1>2, <1>3, <1>5 DEF Holding
<1>6. /\ Holding(status', date', day) = Holding(status, date, day) \ {o}
      /\ o \in Holding(status, date, day)
      /\ reserved'[day] = reserved[day] - Amount[o]
  BY <1>2, <1>3 DEF Holding
<1>7. reserved'[day] = Amounts(Holding(status', date', day))
  <2>1. /\ IsFiniteSet(Holding(status, date, day)) /\ Holding(status, date, day) \in SUBSET Orders
        /\ reserved[day] = Amounts(Holding(status, date, day))
    BY <1>2, FewHold
  <2>2. Amounts(Holding(status, date, day) \ {o}) = reserved[day] - Amount[o]
    BY <1>6, <2>1, AmountsRemove
  <2> QED BY <1>6, <2>2
<1> QED BY <1>1, <1>2, <1>4, <1>5, <1>6, <1>7, FewHold

\* An order gives its quota back.
LEMMA QuotaReleased ==
  ASSUME QInv, IInv', IsFiniteSet(Begun)', NEW o \in Orders, NEW s, s \notin Unpaid, status[o] \in Unpaid,
         MoveTo(o, s), Held(o), Release(o), UNCHANGED <<date, consumed, charged, captured, now>>
  PROVE  QInv'
<1>1. /\ date[o] \in Days /\ reserved' \in [Days -> Nat] /\ Amount[o] \in Nat
      /\ \A d \in Days : reserved'[d] = Amounts(Holding(status', date', d))
      /\ \A d \in Days \ {date[o]} : reserved'[d] = reserved[d]
      /\ reserved'[date[o]] = reserved[date[o]] - Amount[o]
  BY HeldLess
<1>2. QuotaTypes'
  BY <1>1 DEF QInv, QuotaTypes
<1>3. ASSUME NEW d \in Days
      PROVE  consumed'[d] = Amounts(Charging(charged', d)) /\ reserved'[d] + consumed'[d] <= Limit
  <2>1. reserved'[d] <= reserved[d] /\ reserved'[d] \in Nat
    BY <1>1, FewHold
  <2> QED BY <2>1, FewHold, TopUpAssumption
<1>4. QuotaBacked'
  BY <1>1, <1>3 DEF QuotaBacked, Holding, Charging
<1> QED BY <1>2, <1>4 DEF QInv

\* An order that is paid gives the quota it holds back and uses that of the day of payment.
LEMMA QuotaUsed ==
  ASSUME QInv, IInv', IsFiniteSet(Begun)', NEW o \in Orders, NEW day \in Days,
         status[o] \in Unpaid, Held(o), Release(o), Consume(o, day),
         consumed' = [consumed EXCEPT ![day] = @ + Amount[o]],
         day = date[o] \/ Room(day, o), UNCHANGED <<date, captured, now>>
  PROVE  QInv'
<1>0. /\ MoveTo(o, "CREDIT_PENDING") /\ "CREDIT_PENDING" \notin Unpaid
      /\ charged' = [charged EXCEPT ![o] = day]
  BY DEF Consume, Unpaid
<1>1. /\ date[o] \in Days /\ reserved' \in [Days -> Nat] /\ Amount[o] \in Nat
      /\ \A d \in Days : reserved'[d] = Amounts(Holding(status', date', d))
      /\ \A d \in Days \ {date[o]} : reserved'[d] = reserved[d]
      /\ reserved'[date[o]] = reserved[date[o]] - Amount[o]
  BY <1>0, HeldLess
<1>2. /\ consumed \in [Days -> Nat] /\ charged \in [Orders -> Days \cup {None}]
  BY DEF QInv, QuotaTypes
<1>3. QuotaTypes'
  BY <1>0, <1>1, <1>2 DEF QInv, QuotaTypes
<1>4. charged[o] = None /\ None \notin Days
  BY DatesAreDays DEF QInv, IInv, CreditedOrRefunded, Unpaid, Crediting
<1>5. ASSUME NEW d \in Days, d # day
      PROVE  Charging(charged', d) = Charging(charged, d) /\ consumed'[d] = consumed[d]
  BY <1>0, <1>2, <1>4, <1>5 DEF Charging
<1>6. /\ Charging(charged', day) = Charging(charged, day) \cup {o}
      /\ o \notin Charging(charged, day)
      /\ consumed'[day] = consumed[day] + Amount[o]
  BY <1>0, <1>2, <1>4 DEF Charging
<1>7. consumed'[day] = Amounts(Charging(charged', day))
  BY <1>6, FewHold, AmountsAdd
<1>8. ASSUME NEW d \in Days
      PROVE  reserved'[d] + consumed'[d] <= Limit
  <2>0. /\ reserved[d] \in Nat /\ consumed[d] \in Nat /\ reserved'[d] \in Nat /\ Amount[o] \in Nat
        /\ Limit \in Nat /\ reserved[d] + consumed[d] <= Limit
    BY <1>1, FewHold, TopUpAssumption
  <2>1. CASE d # day
    <3>1. reserved'[d] <= reserved[d]
      BY <1>1, <2>0
    <3> QED BY <1>5, <2>0, <2>1, <3>1
  <2>2. CASE d = day /\ day = date[o]
    BY <1>1, <1>6, <2>0, <2>2
  <2>3. CASE d = day /\ day # date[o]
    <3>1. reserved'[d] = reserved[d] /\ reserved[d] + consumed[d] + Amount[o] <= Limit
      BY <1>1, <2>3 DEF Room
    <3> QED BY <1>6, <2>0, <2>3, <3>1
  <2> QED BY <2>1, <2>2, <2>3
<1>9. ASSUME NEW d \in Days PROVE consumed'[d] = Amounts(Charging(charged', d))
  BY <1>5, <1>7, FewHold
<1>10. QuotaBacked'
  BY <1>1, <1>8, <1>9 DEF QuotaBacked, Holding, Charging
<1> QED BY <1>3, <1>10 DEF QInv

\* The transaction that confirms a payment.
LEMMA ConfirmsQuota ==
  ASSUME QInv, IInv', IsFiniteSet(Begun)', NEW o \in Orders, NEW source, NEW day \in Days,
         ProcessPaymentConfirmationTx(o, source, day), UNCHANGED <<date, captured, now>>
  PROVE  QInv'
<1>0. captured \in [Orders -> Times \cup {None}] /\ now \in Times /\ DOMAIN status = Orders
  BY DEF QInv, QuotaTypes, IInv, Types
<1>1. CASE UNCHANGED <<status, quota>>
  BY <1>0, <1>1, QuotaKept DEF quota
<1>2. CASE status[o] = "EXPIRED" /\ MoveTo(o, "REFUND_REQUIRED") /\ UNCHANGED quota
  <2>1. \A p \in Orders : status'[p] \in Unpaid <=> status[p] \in Unpaid
    BY <1>0, <1>2 DEF MoveTo, Unpaid
  <2> QED BY <1>0, <1>2, <2>1, QuotaKept DEF quota
<1>3. ASSUME status[o] = "PAYMENT_PENDING" PROVE status[o] \in Unpaid
  BY <1>3 DEF Unpaid
<1>4. CASE status[o] = "PAYMENT_PENDING" /\ SameDay(o) /\ day = date[o]
  BY <1>3, <1>4, QuotaUsed DEF SameDay
<1>5. CASE status[o] = "PAYMENT_PENDING" /\ OtherDay(o, day)
  <2>1. CASE Room(day, o)
    BY <1>3, <1>5, <2>1, QuotaUsed DEF OtherDay
  <2>2. CASE ~Room(day, o)
    <3>1. "REFUND_REQUIRED" \notin Unpaid
      BY DEF Unpaid
    <3>2. Held(o) /\ Release(o) /\ MoveTo(o, "REFUND_REQUIRED") /\ UNCHANGED <<consumed, charged>>
      BY <1>5, <2>2 DEF OtherDay
    <3> QED BY <1>3, <1>5, <3>1, <3>2, QuotaReleased
  <2> QED BY <2>1, <2>2
<1> QED BY <1>1, <1>2, <1>4, <1>5 DEF ProcessPaymentConfirmationTx

\* Steps of the requests make no new one but the first.
LEMMA BegunKept ==
  ASSUME IsFiniteSet(Begun), NEW o \in Orders,
         \A p \in Orders : p # o /\ call[p] = "idle" => call'[p] = "idle"
  PROVE  IsFiniteSet(Begun)'
<1>1. IsFiniteSet(Begun \cup {o})
  BY FS_AddElement
<1>2. Begun' \subseteq Begun \cup {o}
  BY DEF Begun
<1> QED BY <1>1, <1>2, FS_Subset

LEMMA QuotaInitially == Init => QInv
<1> SUFFICES ASSUME Init PROVE QInv
  OBVIOUS
<1>1. QuotaTypes
  BY TopUpAssumption, DatesAreDays DEF Init, QuotaTypes, Times
<1>2. Begun = {} /\ IsFiniteSet({})
  BY FS_EmptySet DEF Init, Begun
<1>3. ASSUME NEW d \in Days
      PROVE  Holding(status, date, d) = {} /\ Charging(charged, d) = {}
  BY DatesAreDays DEF Init, Holding, Charging, Unpaid
<1>4. Amounts({}) = 0
  BY <1>2, AmountsAre, TotalEmpty
<1>5. QuotaBacked
  BY <1>3, <1>4, TopUpAssumption DEF QuotaBacked, Holding, Charging, Init
<1> QED BY <1>1, <1>2, <1>5, InitInv DEF QInv

LEMMA QuotaKeeps == QInv /\ [Next]_vars => QInv'
<1> SUFFICES ASSUME QInv, [Next]_vars PROVE QInv'
  OBVIOUS
<1>0. IInv' /\ IInv
  BY StepInv DEF QInv
<1>1. /\ captured \in [Orders -> Times \cup {None}] /\ now \in Times /\ DOMAIN status = Orders
      /\ call \in [Orders -> Calls] /\ IsFiniteSet(Begun)
  BY DEF QInv, QuotaTypes, IInv, Types
<1>2. ASSUME UNCHANGED call PROVE IsFiniteSet(Begun)'
  <2>1. Begun' = Begun
    BY <1>2 DEF Begun
  <2> QED BY <1>1, <2>1
<1>3. CASE UNCHANGED vars
  BY <1>0, <1>1, <1>2, <1>3, QuotaKept DEF vars
<1>4. ASSUME NEW o \in Orders, CreateTopUp(o) PROVE QInv'
  <2>1. PICK c \in Calls : call' = [call EXCEPT ![o] = c]
    BY <1>4 DEF CreateTopUp, InitiateTopUpTx, ProviderCreatesOrder, ActivatePaymentPending,
                CancelInitiatedOrderTx, Calls
  <2>2. IsFiniteSet(Begun)'
    BY <1>1, <2>1, BegunKept
  <2>3. ASSUME UNCHANGED <<date, reserved, consumed, charged, captured, now>>,
               \/ UNCHANGED status
               \/ status[o] = "INITIATED" /\ MoveTo(o, "PAYMENT_PENDING")
        PROVE  QInv'
    <3>1. \A p \in Orders : status'[p] \in Unpaid <=> status[p] \in Unpaid
      BY <1>1, <2>3 DEF MoveTo, Unpaid
    <3> QED BY <1>0, <1>1, <2>2, <2>3, <3>1, QuotaKept
  <2>4. CASE InitiateTopUpTx(o)
    <3>1. CASE Room(DateIST(now), o) /\ \A p \in Orders : Key[p] = Key[o] => status[p] = "NONE"
      <4>1. status[o] \notin Unpaid /\ "INITIATED" \in Unpaid
        BY <3>1 DEF Unpaid
      <4>2. DateIST(now) \in Days
        BY <1>1, DatesAreDays
      <4>3. /\ MoveTo(o, "INITIATED") /\ date' = [date EXCEPT ![o] = DateIST(now)]
            /\ reserved' = [reserved EXCEPT ![DateIST(now)] = @ + Amount[o]]
            /\ UNCHANGED <<consumed, charged, captured, now>>
        BY <2>4, <3>1 DEF InitiateTopUpTx
      <4> QED BY <1>0, <2>2, <3>1, <4>1, <4>2, <4>3, QuotaTaken
    <3>2. CASE ~(Room(DateIST(now), o) /\ \A p \in Orders : Key[p] = Key[o] => status[p] = "NONE")
      BY <2>3, <2>4, <3>2 DEF InitiateTopUpTx
    <3> QED BY <3>1, <3>2
  <2>5. CASE ProviderCreatesOrder(o)
    BY <2>3, <2>5 DEF ProviderCreatesOrder, quota
  <2>6. CASE ActivatePaymentPending(o)
    BY <2>3, <2>6 DEF ActivatePaymentPending, quota
  <2>7. CASE CancelInitiatedOrderTx(o)
    <3>1. CASE status[o] = "INITIATED" /\ Held(o) /\ MoveTo(o, "FAILED") /\ Release(o)
      <4>1. "FAILED" \notin Unpaid /\ status[o] \in Unpaid
        BY <3>1 DEF Unpaid
      <4>2. UNCHANGED <<date, consumed, charged, captured, now>>
        BY <2>7 DEF CancelInitiatedOrderTx
      <4> QED BY <1>0, <2>2, <3>1, <4>1, <4>2, QuotaReleased
    <3>2. CASE UNCHANGED <<status, reserved>>
      BY <2>3, <2>7, <3>2 DEF CancelInitiatedOrderTx
    <3> QED BY <2>7, <3>1, <3>2 DEF CancelInitiatedOrderTx
  <2> QED BY <1>4, <2>4, <2>5, <2>6, <2>7 DEF CreateTopUp
<1>5. ASSUME NEW o \in Orders, Capture(o) PROVE QInv'
  <2>1. captured' \in [Orders -> Times \cup {None}]
    BY <1>1, <1>5 DEF Capture
  <2> QED BY <1>0, <1>1, <1>2, <1>5, <2>1, QuotaKept DEF Capture, quota
<1>6. ASSUME NEW o \in Orders, captured[o] # None
      PROVE  DateIST(captured[o]) \in Days /\ DateUTC(captured[o]) \in Days
  <2>1. captured[o] \in Times
    BY <1>1, <1>6
  <2> QED BY <2>1, DatesAreDays
<1>7. ASSUME NEW o \in Orders, ProcessWebhook(o) \/ VerifyCheckoutPayment(o) PROVE QInv'
  <2>1. PICK source \in Sources : ProcessPaymentConfirmationTx(o, source, DateIST(captured[o]))
    BY <1>7 DEF ProcessWebhook, VerifyCheckoutPayment, Sources
  <2>2. captured[o] # None /\ UNCHANGED <<call, date, captured, now>>
    BY <1>7 DEF ProcessWebhook, VerifyCheckoutPayment
  <2> QED BY <1>0, <1>2, <1>6, <2>1, <2>2, ConfirmsQuota
<1>8. ASSUME NEW o \in Orders, ReconcileStuckPayment(o) PROVE QInv'
  <2>1. UNCHANGED <<call, date, captured, now>>
    BY <1>8 DEF ReconcileStuckPayment
  <2>2. CASE captured[o] # None /\ ProcessPaymentConfirmationTx(o, "sync", DateUTC(captured[o]))
    BY <1>0, <1>2, <1>6, <2>1, <2>2, ConfirmsQuota
  <2>3. CASE UNCHANGED <<status, quota>>
    BY <1>0, <1>1, <1>2, <2>1, <2>3, QuotaKept DEF quota
  <2> QED BY <1>8, <2>2, <2>3 DEF ReconcileStuckPayment
<1>9. ASSUME NEW o \in Orders, ExpireOrderAndReleaseQuotaTx(o) PROVE QInv'
  <2>1. /\ status[o] \in Unpaid /\ Held(o) /\ MoveTo(o, "EXPIRED") /\ Release(o)
        /\ UNCHANGED <<call, date, consumed, charged, captured, now>>
    BY <1>9 DEF ExpireOrderAndReleaseQuotaTx
  <2>2. "EXPIRED" \notin Unpaid
    BY DEF Unpaid
  <2> QED BY <1>0, <1>2, <2>1, <2>2, QuotaReleased
<1>10. CASE GetPendingUnconfirmed
  BY <1>0, <1>1, <1>2, <1>10, QuotaKept DEF GetPendingUnconfirmed, quota
<1>11. ASSUME NEW w \in Workers, ReconcilerStep(w) PROVE QInv'
  <2>1. UNCHANGED <<call, date, reserved, consumed, charged, captured, now>>
    BY <1>11 DEF ReconcilerStep, ClaimBatchForCredit, DepositFunds, CompleteOrder, quota
  <2>2. \A p \in Orders : status'[p] \in Unpaid <=> status[p] \in Unpaid
    <3>1. CASE ClaimBatchForCredit(w)
      <4>1. PICK slow \in {{}} \cup {{o} : o \in Orders} :
              /\ \A o \in slow : status[o] = "CREDIT_PROCESSING"
              /\ LET batch == slow \cup {o \in Orders : status[o] = "CREDIT_PENDING" \/ LeaseEnded(o)}
                 IN status' = [o \in Orders |-> IF o \in batch THEN "CREDIT_PROCESSING" ELSE status[o]]
        BY <3>1 DEF ClaimBatchForCredit
      <4> QED BY <4>1 DEF LeaseEnded, Unpaid
    <3>2. CASE \E o \in Orders : DepositFunds(w, o)
      BY <3>2 DEF DepositFunds
    <3>3. CASE \E o \in Orders : CompleteOrder(w, o)
      BY <1>1, <3>3 DEF CompleteOrder, MoveTo, Unpaid
    <3> QED BY <1>11, <3>1, <3>2, <3>3 DEF ReconcilerStep
  <2> QED BY <1>0, <1>1, <1>2, <2>1, <2>2, QuotaKept
<1>12. CASE Crash
  <2>1. Begun' = Begun
    BY <1>12 DEF Crash, Begun
  <2> QED BY <1>0, <1>1, <1>12, <2>1, QuotaKept DEF Crash, quota
<1>13. CASE Tick
  <2>1. now' \in Times
    BY <1>1, <1>13, TopUpAssumption DEF Tick, Times
  <2> QED BY <1>0, <1>1, <1>2, <1>13, <2>1, QuotaKept DEF Tick, quota
<1> QED BY <1>3, <1>4, <1>5, <1>7, <1>8, <1>9, <1>10, <1>11, <1>12, <1>13 DEF Next

\* The reserved and the consumed quota of every day are exactly what its unpaid orders
\* hold and its paid ones have used, and stay within the daily limit, in whatever order
\* the three reports of a payment, the expiry worker and the cancellation come
\* (initiateTopUpTx, ProcessPaymentConfirmationTx, ExpireOrderAndReleaseQuotaTx).
THEOREM QuotaSound == Spec => []QuotaBacked
<1>1. QInv => QuotaBacked
  BY DEF QInv
<1> QED BY <1>1, QuotaInitially, QuotaKeeps, PTL DEF Spec
=============================================================================

---------------------------- MODULE OrderService ----------------------------
(***************************************************************************)
(* The order service and what it talks to (services/order).                *)
(*                                                                         *)
(* CreateOrder is a saga over the wallet and the orders table; the outbox  *)
(* publisher carries commands to the matching engine; one consumer applies *)
(* the settled trades, another the engine's cancel outcomes; a worker      *)
(* drains the wallet_releases table.  All of them run concurrently and     *)
(* meet only in the database, in Kafka and at the wallet.                  *)
(*                                                                         *)
(* The surroundings are reduced to what the order service can observe: the *)
(* engine takes the commands in log order and matches at most one resting  *)
(* order per command, settlement moves the funds of a trade if the orders  *)
(* still have their reservations, and a reservation is ACTIVE until        *)
(* ReleaseFunds closes it.  The engine's ring is taken to remember every   *)
(* command (OrderBook.tla has the case that it does not).                  *)
(*                                                                         *)
(* A fault is a failed database call, an RPC without an answer (done or    *)
(* not), a Kafka write without an acknowledgement, a failed commit of an   *)
(* offset, or a crash.  Leases only delay a retry and are left out: time   *)
(* passes between any two steps.                                           *)
(***************************************************************************)
EXTENDS Naturals, Sequences, FiniteSets, Functions, FiniteSetsExt

CONSTANTS
  Orders,      \* order ids; every attempt of a client has its own
  MMOrders,    \* orders of the market maker's account
  Key,         \* idempotency key by order
  Side,        \* "BUY" or "SELL" by order
  Qty,         \* quantity by order
  Immediate,   \* MARKET orders: the engine cancels what it cannot match
  Instances,   \* processes running an outbox publisher
  MayReject,   \* whether the engine may reject an order (blocked market, tick, lot)
  Registered,  \* market maker's orders that have their row from the start
  MaxFaults    \* bound on faults and crashes

ASSUME OrderAssumption ==
  /\ MMOrders \subseteq Orders /\ Immediate \subseteq Orders /\ Registered \subseteq MMOrders
  /\ Side \in [Orders -> {"BUY", "SELL"}]
  /\ Qty \in [Orders -> Nat \ {0}]
  /\ DOMAIN Key = Orders
  /\ \A o, p \in Registered : o # p => Key[o] # Key[p]
ASSUME LimitAssumption == MaxFaults \in Nat /\ MayReject \in BOOLEAN

Events   == {"OrderCreated", "OrderCancelRequested"} \X Orders
Created(o)         == <<"OrderCreated", o>>
CancelRequested(o) == <<"OrderCancelRequested", o>>
Consumers == {"trades", "cancels"}
Live      == {"OPEN", "PARTIALLY_FILLED", "CANCELLING"}
Terminal  == {"CANCELLED", "FILLED"}

VARIABLES
  request,     \* how far CreateOrder is with each order
  status,      \* orders.status, "NONE" without a row
  filled,      \* orders.filled_quantity (remaining_quantity is the rest)
  outbox,      \* outbox rows: "none", "pending", "backoff" or "published"
  releases,    \* wallet_releases.status, "NONE" without a row
  processed,   \* processed_trades
  batch,       \* outbox rows a publisher has claimed and not yet handled
  claimed,     \* releases the worker has claimed and not yet handled
  next,        \* messages each consumer has fetched
  committed,   \* committed offset of each consumer group
  busy,        \* the consumer still has to release or to commit
  toRelease,   \* orders the consumer still tries to release
  commands,    \* the partition of orders.commands
  consumed,    \* commands the engine has taken
  book,        \* quantity each order has resting in the engine
  trades,      \* executed trades: [buy, sell, qty, state]
  settled,     \* topic trades.settled: positions in trades
  outcomes,    \* topic orders.cancelled.v1: <<order, outcome>>
  reservation, \* wallet: "NONE", "ACTIVE" or "RELEASED"
  faults

db        == <<status, filled, outbox, releases, processed>>
table     == <<status, filled>>
consumer  == <<next, committed, busy, toRelease>>
workers   == <<batch, claimed>>
engine    == <<commands, consumed, book, trades, settled, outcomes>>
vars      == <<request, status, filled, outbox, releases, processed, batch, claimed,
               next, committed, busy, toRelease, commands, consumed, book, trades,
               settled, outcomes, reservation, faults>>

Fault   == faults < MaxFaults /\ faults' = faults + 1
NoFault == faults' = faults

-----------------------------------------------------------------------------
(***************************************************************************)
(* What the steps below share.                                             *)
(***************************************************************************)
GoTo(o, step) == request' = [request EXCEPT ![o] = step]

\* The orders with the idempotency key of o that have a row.
Twins(o) == {p \in Orders : Key[p] = Key[o] /\ status[p] # "NONE"}

\* INSERT INTO wallet_releases ... ON CONFLICT (order_id) DO NOTHING.
Enqueued(S) == [o \in Orders |-> IF o \in S /\ releases[o] = "NONE"
                                 THEN "PENDING" ELSE releases[o]]

\* UPDATE wallet_releases SET status = 'COMPLETED'.
Completed(o) == [releases EXCEPT ![o] = IF @ = "NONE" THEN @ ELSE "COMPLETED"]

\* The wallet's ReleaseFunds: success for a reservation that is closed already.
ReleasedFunds(o) == [reservation EXCEPT ![o] = IF @ = "ACTIVE" THEN "RELEASED" ELSE @]

\* The call is lost, before or after the wallet has done it.
CallLost(o) == reservation' \in {reservation, ReleasedFunds(o)}

-----------------------------------------------------------------------------
(***************************************************************************)
(* CreateOrder.                                                            *)
(***************************************************************************)
\* FindByIdempotencyKey: a repeated request is answered with the first order,
\* or refused if its parameters differ.
CheckKey(o) ==
  /\ request[o] = "new"
  /\ GoTo(o, IF Twins(o) = {} THEN "checked" ELSE "existing")
  /\ UNCHANGED <<db, consumer, workers, engine, reservation, faults>>

\* Bad parameters, a halted market, the price band, or insufficient funds.
Reject(o) ==
  /\ request[o] = "checked"
  /\ GoTo(o, "failed")
  /\ UNCHANGED <<db, consumer, workers, engine, reservation, faults>>

\* The market maker's orders have no reservation.
ReserveFunds(o) ==
  /\ request[o] = "checked"
  /\ reservation' = IF o \in MMOrders
                    THEN reservation ELSE [reservation EXCEPT ![o] = "ACTIVE"]
  /\ GoTo(o, "reserved")
  /\ UNCHANGED <<db, consumer, workers, engine, faults>>

\* No answer from the wallet: the request fails, whatever the wallet did.
ReserveLost(o) ==
  /\ request[o] = "checked" /\ o \notin MMOrders
  /\ Fault
  /\ reservation' \in {reservation, [reservation EXCEPT ![o] = "ACTIVE"]}
  /\ GoTo(o, "failed")
  /\ UNCHANGED <<db, consumer, workers, engine>>

\* The order and its OrderCreated row, in one transaction.
InsertOrder(o) ==
  /\ status' = [status EXCEPT ![o] = "OPEN"]
  /\ outbox' = IF o \in MMOrders
               THEN outbox ELSE [outbox EXCEPT ![Created(o)] = "pending"]

PersistOrder_NoUniqueKey(o) ==
  /\ request[o] = "reserved"
  /\ InsertOrder(o) /\ GoTo(o, "accepted")
  /\ UNCHANGED <<filled, releases, processed, consumer, workers, engine, reservation,
                 faults>>

PersistOrder(o) ==
  /\ request[o] = "reserved"
  /\ IF Twins(o) = {}
     THEN InsertOrder(o) /\ GoTo(o, "accepted")
     ELSE UNCHANGED <<status, outbox>> /\ GoTo(o, "compensating")
  /\ UNCHANGED <<filled, releases, processed, consumer, workers, engine, reservation,
                 faults>>

\* A database error, or a commit whose answer is lost.
PersistFails(o) ==
  /\ request[o] = "reserved"
  /\ Fault
  /\ \/ UNCHANGED <<status, outbox>>
     \/ Twins(o) = {} /\ InsertOrder(o)
  /\ GoTo(o, "compensating")
  /\ UNCHANGED <<filled, releases, processed, consumer, workers, engine, reservation>>

\* ReleaseFunds, and if that fails EnqueueWalletRelease.
Compensate(o) ==
  /\ request[o] = "compensating"
  /\ \/ /\ reservation' = ReleasedFunds(o)
        /\ GoTo(o, "failed")
        /\ NoFault
     \/ /\ o \notin MMOrders
        /\ CallLost(o)
        /\ GoTo(o, "enqueueing")
        /\ Fault
  /\ UNCHANGED <<db, consumer, workers, engine>>

EnqueueRelease(o) ==
  /\ request[o] = "enqueueing"
  /\ \/ releases' = Enqueued({o}) /\ NoFault
     \/ releases' = releases /\ Fault
  /\ GoTo(o, "failed")
  /\ UNCHANGED <<table, outbox, processed, consumer, workers, engine, reservation>>

(***************************************************************************)
(* CancelOrder: UPDATE ... WHERE status IN ('OPEN', 'PARTIALLY_FILLED')    *)
(* and the OrderCancelRequested row, in one transaction.                   *)
(***************************************************************************)
CancelOrder(o) ==
  /\ status[o] \in {"OPEN", "PARTIALLY_FILLED"}
  /\ status' = [status EXCEPT ![o] = "CANCELLING"]
  /\ outbox' = [outbox EXCEPT ![CancelRequested(o)] = "pending"]
  /\ UNCHANGED <<request, filled, releases, processed, consumer, workers, engine,
                 reservation, faults>>

-----------------------------------------------------------------------------
(***************************************************************************)
(* The outbox publisher: a batch of rows, in no particular order (UPDATE   *)
(* ... RETURNING), one Kafka write each.  processing_at = NOW() is past at *)
(* the next poll, so a claim excludes nobody.  Rows in backoff may be due  *)
(* or not.                                                                 *)
(***************************************************************************)
InState(s) == {e \in Events : outbox[e] = s}

GetUnpublishedOutboxEvents(i) ==
  /\ batch[i] = {}
  /\ \E due \in SUBSET InState("backoff") :
       batch' = [batch EXCEPT ![i] = InState("pending") \cup due]
  /\ batch'[i] # {}
  /\ UNCHANGED <<request, db, claimed, consumer, engine, reservation, faults>>

\* Write, acknowledgement, MarkOutboxEventAsPublished.  Without the last the
\* row is published again.
PublishEvent(i, e) ==
  /\ e \in batch[i]
  /\ commands' = Append(commands, e)
  /\ \/ outbox' = [outbox EXCEPT ![e] = "published"] /\ NoFault
     \/ outbox' = outbox /\ Fault
  /\ batch' = [batch EXCEPT ![i] = @ \ {e}]
  /\ UNCHANGED <<request, table, releases, processed, claimed, consumer, consumed, book,
                 trades, settled, outcomes, reservation>>

\* A write that fails, or that is done and not acknowledged; the publisher
\* goes on with the next row.
PublishFails(i, e) ==
  /\ e \in batch[i]
  /\ Fault
  /\ commands' \in {commands, Append(commands, e)}
  /\ outbox' = [outbox EXCEPT ![e] = IF @ = "published" THEN @ ELSE "backoff"]
  /\ batch' = [batch EXCEPT ![i] = @ \ {e}]
  /\ UNCHANGED <<request, table, releases, processed, claimed, consumer, consumed, book, trades, settled,
                 outcomes, reservation>>

\* The liquidity engine publishes the commands of its own orders itself.
LiquidityEnginePublishes(o) ==
  /\ o \in MMOrders
  /\ status[o] # "NONE"
  /\ Created(o) \notin Range(commands)
  /\ commands' = Append(commands, Created(o))
  /\ UNCHANGED <<request, db, workers, consumer, consumed, book, trades, settled,
                 outcomes, reservation, faults>>

-----------------------------------------------------------------------------
(***************************************************************************)
(* The matching engine and the settlement of its trades.                   *)
(***************************************************************************)
Taken == {commands[k] : k \in 1 .. consumed}

TakesCommand(e) ==
  /\ consumed < Len(commands)
  /\ commands[consumed + 1] = e
  /\ consumed' = consumed + 1
  /\ UNCHANGED <<request, db, workers, consumer, commands, settled, reservation,
                 faults>>

Opposing(o) == {m \in Orders : book[m] > 0 /\ Side[m] # Side[o]}

\* What is left of o rests, or expires if the order is immediate.
Rests(o, rest, fromBook) ==
  /\ book' = [fromBook EXCEPT ![o] = IF o \in Immediate THEN 0 ELSE rest]
  /\ outcomes' = IF o \in Immediate /\ rest > 0
                 THEN Append(outcomes, <<o, "REMOVED_FROM_BOOK">>) ELSE outcomes

EngineRests(o) ==
  /\ TakesCommand(Created(o)) /\ Created(o) \notin Taken
  /\ Rests(o, Qty[o], book)
  /\ trades' = trades

EngineMatches(o, m) ==
  /\ TakesCommand(Created(o)) /\ Created(o) \notin Taken
  /\ m \in Opposing(o)
  /\ LET q   == IF book[m] < Qty[o] THEN book[m] ELSE Qty[o]
         buy == IF Side[o] = "BUY" THEN o ELSE m
     IN /\ trades' = Append(trades, [buy |-> buy, sell |-> IF buy = o THEN m ELSE o,
                                     qty |-> q, state |-> "executed"])
        /\ Rests(o, Qty[o] - q, [book EXCEPT ![m] = @ - q])

\* invalid_order_parameters is published as REMOVED_FROM_BOOK; a blocked market
\* refuses cancels too.
EngineRejects(o) ==
  /\ MayReject
  /\ \/ /\ TakesCommand(Created(o)) /\ Created(o) \notin Taken
        /\ \E outcome \in {"REMOVED_FROM_BOOK", "market_blocked"} :
             outcomes' = Append(outcomes, <<o, outcome>>)
     \/ /\ TakesCommand(CancelRequested(o)) /\ CancelRequested(o) \notin Taken
        /\ outcomes' = Append(outcomes, <<o, "market_blocked">>)
  /\ UNCHANGED <<book, trades>>

EngineCancels(o) ==
  /\ TakesCommand(CancelRequested(o)) /\ CancelRequested(o) \notin Taken
  /\ book' = [book EXCEPT ![o] = 0]
  /\ outcomes' = Append(outcomes, <<o, IF book[o] > 0 THEN "REMOVED_FROM_BOOK"
                                                     ELSE "ALREADY_ABSENT">>)
  /\ trades' = trades

EngineSkips(e) ==
  /\ TakesCommand(e) /\ e \in Taken
  /\ UNCHANGED <<book, outcomes, trades>>

\* SettleTrade refuses a leg whose reservation has been released.
Settle(n) ==
  /\ trades[n].state = "executed"
  /\ IF \A o \in {trades[n].buy, trades[n].sell} \ MMOrders : reservation[o] = "ACTIVE"
     THEN /\ trades' = [trades EXCEPT ![n].state = "settled"]
          /\ settled' = Append(settled, n)
     ELSE /\ trades' = [trades EXCEPT ![n].state = "failed"]
          /\ settled' = settled
  /\ UNCHANGED <<request, db, workers, consumer, commands, consumed, book, outcomes,
                 reservation, faults>>

-----------------------------------------------------------------------------
(***************************************************************************)
(* The two consumers.  After an error Start fetches the next message.      *)
(***************************************************************************)
Topic(c) == IF c = "trades" THEN settled ELSE outcomes

Fetches(c) ==
  /\ ~busy[c]
  /\ next[c] < Len(Topic(c))
  /\ next' = [next EXCEPT ![c] = @ + 1]
  /\ UNCHANGED <<request, outbox, workers, committed, engine, reservation>>

\* ProcessMessage goes on to release the orders S and to commit the offset.
Handles(c, S) ==
  /\ busy' = [busy EXCEPT ![c] = TRUE]
  /\ toRelease' = [toRelease EXCEPT ![c] = S]

FillStatus(o, qty) ==
  IF filled[o] + qty >= Qty[o] THEN "FILLED"
  ELSE IF status[o] \in {"CANCELLING", "CANCELLED"} THEN status[o]
  ELSE "PARTIALLY_FILLED"

Fillable(o, qty) ==
  /\ status[o] \in {"OPEN", "PARTIALLY_FILLED", "CANCELLING", "CANCELLED"}
  /\ Qty[o] - filled[o] >= qty

ApplyFill_NotRecorded(n, legs) ==
  LET qty == trades[n].qty
      now == {o \in legs : FillStatus(o, qty) = "FILLED"}
  IN /\ processed' = processed
     /\ filled' = [o \in Orders |-> IF o \in legs THEN filled[o] + qty ELSE filled[o]]
     /\ status' = [o \in Orders |-> IF o \in legs THEN FillStatus(o, qty) ELSE status[o]]
     /\ releases' = Enqueued(now)
     /\ Handles("trades", now)

\* The transaction of a trade seen for the first time: the fills of both
\* orders and the releases of the ones now FILLED.
ApplyFill(n, legs) ==
  LET qty == trades[n].qty
      now == {o \in legs : FillStatus(o, qty) = "FILLED"}
  IN /\ processed' = processed \cup {n}
     /\ filled' = [o \in Orders |-> IF o \in legs THEN filled[o] + qty ELSE filled[o]]
     /\ status' = [o \in Orders |-> IF o \in legs THEN FillStatus(o, qty) ELSE status[o]]
     /\ releases' = Enqueued(now)
     /\ Handles("trades", now)

ApplyTradeFill ==
  /\ Fetches("trades") /\ NoFault
  /\ LET n    == settled[next["trades"] + 1]
         legs == {trades[n].buy, trades[n].sell}
     IN \/ /\ n \in processed
           /\ Handles("trades", {})
           /\ UNCHANGED <<table, releases, processed>>
        \/ /\ n \notin processed
           /\ \A o \in legs : Fillable(o, trades[n].qty)
           /\ ApplyFill(n, legs)
        \/ /\ n \notin processed
           /\ \E o \in legs : ~Fillable(o, trades[n].qty)
           /\ UNCHANGED <<table, releases, processed, busy, toRelease>>

\* WHERE status IN ('OPEN', 'PARTIALLY_FILLED', 'CANCELLING').
Cancellable(o) == status[o] \in Live

\* MarkOrderCancelled and ReconcileAbsentOrder.
Cancelled(o, outcome) ==
  IF outcome # "REMOVED_FROM_BOOK" /\ filled[o] >= Qty[o] THEN "FILLED" ELSE "CANCELLED"

ApplyOutcome ==
  /\ Fetches("cancels") /\ NoFault
  /\ LET o == outcomes[next["cancels"] + 1][1]
     IN IF Cancellable(o)
        THEN /\ status' = [status EXCEPT ![o] =
                             Cancelled(o, outcomes[next["cancels"] + 1][2])]
             /\ releases' = Enqueued({o})
             /\ Handles("cancels", {o})
        ELSE /\ UNCHANGED <<status, releases>>
             /\ Handles("cancels", {})
  /\ UNCHANGED <<filled, processed>>

\* A database error: the message is not handled and not committed.
MessageFails(c) ==
  /\ Fetches(c) /\ Fault
  /\ UNCHANGED <<table, releases, processed, busy, toRelease>>

Releases_EvenIfLost(o, notFoundCompletes) ==
  \/ reservation' = ReleasedFunds(o) /\ releases' = Completed(o) /\ NoFault
  \/ CallLost(o) /\ releases' = Completed(o) /\ Fault

(***************************************************************************)
(* ReleaseFunds and the record of it.  "reservation not found" completes   *)
(* the row, except in the consumer of trades.                              *)
(***************************************************************************)
Releases(o, notFoundCompletes) ==
  \/ /\ reservation' = ReleasedFunds(o)
     /\ releases' = IF reservation[o] = "NONE" /\ ~notFoundCompletes
                    THEN releases ELSE Completed(o)
     /\ NoFault
  \/ /\ CallLost(o)
     /\ releases' = releases
     /\ Fault

ConsumerReleases(c, o) ==
  /\ o \in toRelease[c]
  /\ Releases(o, c = "cancels")
  /\ toRelease' = [toRelease EXCEPT ![c] = @ \ {o}]
  /\ UNCHANGED <<request, table, outbox, processed, workers, next, committed, busy,
                 engine>>

CommitMessages(c) ==
  /\ busy[c] /\ toRelease[c] = {}
  /\ \/ committed' = [committed EXCEPT ![c] = next[c]] /\ NoFault
     \/ committed' = committed /\ Fault
  /\ busy' = [busy EXCEPT ![c] = FALSE]
  /\ UNCHANGED <<request, db, workers, next, toRelease, engine, reservation>>

ClaimPendingWalletReleases_FilledOnly ==
  /\ claimed = {}
  /\ claimed' = {o \in Orders : releases[o] = "PENDING" /\ status[o] = "FILLED"}
  /\ claimed' # {}
  /\ UNCHANGED <<request, db, batch, consumer, engine, reservation, faults>>

\* The worker of wallet_releases.
ClaimPendingWalletReleases ==
  /\ claimed = {}
  /\ claimed' = {o \in Orders : releases[o] = "PENDING"}
  /\ claimed' # {}
  /\ UNCHANGED <<request, db, batch, consumer, engine, reservation, faults>>

WorkerReleases(o) ==
  /\ o \in claimed
  /\ Releases(o, TRUE)
  /\ claimed' = claimed \ {o}
  /\ UNCHANGED <<request, table, outbox, processed, batch, consumer, engine>>

-----------------------------------------------------------------------------
\* The order service dies and starts again; calls in progress are abandoned.
Crash ==
  /\ Fault
  /\ request' = [o \in Orders |->
       IF request[o] \in {"checked", "reserved", "compensating", "enqueueing"}
       THEN "failed" ELSE request[o]]
  /\ batch' = [i \in Instances |-> {}]
  /\ claimed' = {}
  /\ next' = committed
  /\ busy' = [c \in Consumers |-> FALSE]
  /\ toRelease' = [c \in Consumers |-> {}]
  /\ UNCHANGED <<db, committed, engine, reservation>>

Init ==
  /\ request = [o \in Orders |-> IF o \in Registered THEN "accepted" ELSE "new"]
  /\ status = [o \in Orders |-> IF o \in Registered THEN "OPEN" ELSE "NONE"]
  /\ filled = [o \in Orders |-> 0]
  /\ outbox = [e \in Events |-> "none"]
  /\ releases = [o \in Orders |-> "NONE"]
  /\ processed = {}
  /\ batch = [i \in Instances |-> {}]
  /\ claimed = {}
  /\ next = [c \in Consumers |-> 0]
  /\ committed = [c \in Consumers |-> 0]
  /\ busy = [c \in Consumers |-> FALSE]
  /\ toRelease = [c \in Consumers |-> {}]
  /\ commands = <<>>
  /\ consumed = 0
  /\ book = [o \in Orders |-> 0]
  /\ trades = <<>>
  /\ settled = <<>>
  /\ outcomes = <<>>
  /\ reservation = [o \in Orders |-> "NONE"]
  /\ faults = 0

CreateStep(o) ==
  \/ CheckKey(o) \/ Reject(o) \/ ReserveFunds(o) \/ ReserveLost(o)
  \/ PersistOrder(o) \/ PersistFails(o) \/ Compensate(o) \/ EnqueueRelease(o)

EngineStep ==
  \/ \E o \in Orders : \/ EngineRests(o) \/ EngineRejects(o) \/ EngineCancels(o)
                       \/ \E m \in Orders : EngineMatches(o, m)
  \/ \E e \in Events : EngineSkips(e)

PublisherStep(i) ==
  \/ GetUnpublishedOutboxEvents(i)
  \/ \E e \in Events : PublishEvent(i, e) \/ PublishFails(i, e)

ConsumerStep(c) ==
  \/ c = "trades" /\ ApplyTradeFill
  \/ c = "cancels" /\ ApplyOutcome
  \/ MessageFails(c)
  \/ \E o \in Orders : ConsumerReleases(c, o)
  \/ CommitMessages(c)

WorkerStep == ClaimPendingWalletReleases \/ \E o \in Orders : WorkerReleases(o)

Next ==
  \/ \E o \in Orders : CreateStep(o) \/ CancelOrder(o) \/ LiquidityEnginePublishes(o)
  \/ \E i \in Instances : PublisherStep(i)
  \/ \E c \in Consumers : ConsumerStep(c)
  \/ \E n \in DOMAIN trades : Settle(n)
  \/ EngineStep
  \/ WorkerStep
  \/ Crash

Spec == Init /\ [][Next]_vars

(***************************************************************************)
(* The goroutines of the service and the services around it keep running;  *)
(* the clients need not.                                                   *)
(***************************************************************************)
FairSpec ==
  /\ Spec
  /\ \A i \in Instances : WF_vars(PublisherStep(i))
  /\ \A c \in Consumers : WF_vars(ConsumerStep(c))
  /\ WF_vars(EngineStep)
  /\ WF_vars(WorkerStep)
  /\ WF_vars(\E n \in DOMAIN trades : Settle(n))

-----------------------------------------------------------------------------
\* Every variable keeps its type; each consumer's committed offset stays behind
\* its position, and that within its topic.
TypeOK ==
  /\ request \in [Orders -> {"new", "checked", "reserved", "compensating", "enqueueing",
                             "accepted", "existing", "failed"}]
  /\ status \in [Orders -> {"NONE"} \cup Live \cup Terminal]
  /\ filled \in [Orders -> Nat]
  /\ outbox \in [Events -> {"none", "pending", "backoff", "published"}]
  /\ releases \in [Orders -> {"NONE", "PENDING", "COMPLETED"}]
  /\ trades \in Seq([buy : Orders, sell : Orders, qty : Nat,
                     state : {"executed", "settled", "failed"}])
  /\ processed \subseteq DOMAIN trades
  /\ batch \in [Instances -> SUBSET Events]
  /\ claimed \subseteq Orders
  /\ next \in [Consumers -> Nat] /\ committed \in [Consumers -> Nat]
  /\ \A c \in Consumers : committed[c] <= next[c] /\ next[c] <= Len(Topic(c))
  /\ busy \in [Consumers -> BOOLEAN]
  /\ toRelease \in [Consumers -> SUBSET Orders]
  /\ commands \in Seq(Events) /\ consumed \in 0 .. Len(commands)
  /\ book \in [Orders -> Nat]
  /\ settled \in Seq(DOMAIN trades)
  /\ outcomes \in Seq(Orders \X {"REMOVED_FROM_BOOK", "ALREADY_ABSENT", "market_blocked"})
  /\ reservation \in [Orders -> {"NONE", "ACTIVE", "RELEASED"}]
  /\ faults \in 0 .. MaxFaults

(***************************************************************************)
(* Safety.                                                                 *)
(***************************************************************************)
Legs(n) == {trades[n].buy, trades[n].sell}

\* Redeliveries, retries and crashes fill an order neither twice nor half: its
\* filled quantity is the sum of the processed trades it is in, all of them
\* settled, and FILLED says exactly that nothing remains (ApplyTradeFill).
FilledOnce ==
  /\ \A n \in processed : trades[n].state = "settled"
  /\ \A o \in Orders :
       /\ filled[o] = MapThenSumSet(LAMBDA n : trades[n].qty,
                                    {n \in processed : o \in Legs(n)})
       /\ filled[o] <= Qty[o]
       /\ status[o] = "FILLED" <=> filled[o] = Qty[o]

\* wallet_releases never says COMPLETED of funds that are still reserved, and
\* an order that has ended has its row: no release is forgotten
\* (MarkWalletReleaseCompleted, ApplyTradeFill, MarkOrderCancelled).
ReleasesTruthful ==
  \A o \in Orders :
    /\ releases[o] = "COMPLETED" => reservation[o] # "ACTIVE"
    /\ status[o] \in Terminal => releases[o] # "NONE"

\* The retries of a client share one order: a second attempt never leaves a
\* second row, and an attempt that found the key taken is not accepted.
OneOrderPerKey ==
  \A o, p \in Orders :
    /\ o # p /\ Key[o] = Key[p] => status[o] = "NONE" \/ status[p] = "NONE"
    /\ request[o] = "existing" => status[o] = "NONE" /\ Twins(o) # {}

\* What a step may never do: FILLED is final, CANCELLED only gives way to the
\* last fill, and the late answer of a cancel undoes no fill.
EndsStay ==
  [][\A o \in Orders :
       /\ status[o] = "FILLED" => status'[o] = "FILLED"
       /\ status[o] = "CANCELLED" => status'[o] \in Terminal
       /\ filled'[o] >= filled[o]]_vars

(***************************************************************************)
(* Liveness.                                                               *)
(***************************************************************************)
\* The funds of an order that has ended come back, whichever of consumer and
\* worker gets there and however often calls fail (WalletReleaseWorker).
EndedIsReleased ==
  <>[](\A o \in Orders : status[o] \in Terminal => reservation[o] # "ACTIVE")

\* An order with a row reaches the engine, through failed writes and crashes
\* of the publisher (the transactional outbox).
OrdersReachEngine ==
  <>[](\A o \in Orders \ MMOrders : status[o] # "NONE" => Created(o) \in Range(commands))

\* An order's way has a direction and an end, for its status and for its funds.
OrdersProgress == EndsStay /\ EndedIsReleased /\ OrdersReachEngine

(***************************************************************************)
(* What documents and comments of the repository say, and the code does    *)
(* not do.                                                                 *)
(***************************************************************************)
\* "Fills always take precedence over cancels. A matched trade cannot be
\* un-matched.": no executed trade fails for want of a reservation.
MatchedStays == \A n \in DOMAIN trades : trades[n].state # "failed"

\* "the Matching Engine processes them in order": no cancel command is in the
\* log before its order.
CommandsInOrder ==
  \A j \in DOMAIN commands : \A o \in Orders :
    commands[j] = CancelRequested(o) => \E i \in 1 .. j : commands[i] = Created(o)

\* "Failed to process cancel message - retrying": an order being cancelled
\* reaches its end once the engine has answered.
CancelEnds == \A o \in Orders : status[o] = "CANCELLING" ~> status[o] \in Terminal

\* The reservation of an order that was never persisted is released.
AbandonedIsReleased ==
  \A o \in Orders :
    request[o] = "failed" /\ status[o] = "NONE" ~> reservation[o] # "ACTIVE"
=============================================================================

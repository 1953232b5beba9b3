------------------------------ MODULE TradeFeed ------------------------------
(***************************************************************************)
(* The wallet's outbox and its publisher (services/wallet): the            *)
(* PortfolioUserTrade events of one user, from the settlement transaction  *)
(* that inserts them to the user's partition of portfolio.user.trades.v1.  *)
(*                                                                         *)
(* Trades are numbered by created_at, which a settlement reads before it   *)
(* commits: concurrent settlements may commit in another order.  One       *)
(* publisher runs, as the deployment has it, so the claim token of its     *)
(* batch is never another's.  Rows of other users and of the other topic   *)
(* are left out: they only delay these.                                    *)
(*                                                                         *)
(* A fault is a failed write (arrived or not), a failed call of the        *)
(* database or a crash.                                                    *)
(***************************************************************************)
EXTENDS Accounting, Sequences, FiniteSets, FiniteSetsExt

CONSTANTS
  M,           \* trades of the user in one base asset: 1 .. M
  Trade,       \* role, quantity and price by trade
  Seed,        \* the opening position: quantity and cost_basis
  BatchSize,   \* rows claimed at once (batchSize)
  MaxRetries,  \* attempts to write one row (maxRetries)
  MaxFaults    \* bound on faults

Trades == 1 .. M

ASSUME FeedAssumption ==
  /\ M \in Nat /\ MaxFaults \in Nat
  /\ BatchSize \in Nat \ {0} /\ MaxRetries \in Nat \ {0}
  /\ Trade \in [Trades -> [role : {"BUY", "SELL"}, quantity : Nat \ {0},
                           price : Nat \ {0}]]
  /\ Seed \in [quantity : Nat, cost_basis : Nat]
  \* a quotient is precise enough for the quantities it is multiplied with
  /\ Scale > Seed.quantity + MapThenSumSet(LAMBDA t : Trade[t].quantity, Trades)

VARIABLES
  status,   \* outbox.status by trade, "NONE" without a row
  lapsed,   \* rows whose claim is older than the lease
  batch,    \* rows of the running publishBatch not yet done with
  attempt,  \* failed writes of the first of them
  written,  \* whether the first of them is written and not yet marked
  topic,    \* the partition: trades in the order of delivery
  faults    \* faults so far

feedVars == <<status, lapsed, batch, attempt, written, topic>>

Fault == faults < MaxFaults /\ faults' = faults + 1

Members(seq) == {seq[i] : i \in DOMAIN seq}

-----------------------------------------------------------------------------
Signed(t) == IF Trade[t].role = "BUY" THEN Trade[t].quantity ELSE -Trade[t].quantity

\* A sale was reserved when its order was placed, from what the wallet held
\* then: the opening balance and trades settled before.
Covered(t) ==
  LET settled == {u \in Trades : status[u] # "NONE" /\ (u < t \/ Trade[u].role = "SELL")}
  IN Trade[t].role = "SELL" =>
       Seed.quantity + MapThenSumSet(Signed, settled) >= Trade[t].quantity

\* SettleTrade inserts the row in the transaction that moves the funds.
SettleTrade(t) ==
  /\ status[t] = "NONE"
  /\ Covered(t)
  /\ status' = [status EXCEPT ![t] = "PENDING"]
  /\ UNCHANGED <<lapsed, batch, attempt, written, topic, faults>>

-----------------------------------------------------------------------------
Claimable_PendingOnly == {t \in Trades : status[t] = "PENDING"}

\* PENDING rows, and PROCESSING rows whose claim has lapsed.
Claimable == {t \in Trades : status[t] = "PENDING" \/ t \in lapsed}

Oldest(S, n) == {t \in S : Cardinality({u \in S : u < t}) < n}

\* S as a sequence in ascending order, the only member of the set.
InOrder(S) ==
  {s \in [1 .. Cardinality(S) -> S] :
     Members(s) = S /\ \A i, j \in DOMAIN s : i < j => s[i] < s[j]}

\* ORDER BY created_at, LIMIT.
FetchPending ==
  /\ batch = <<>>
  /\ Claimable # {}
  /\ batch' \in InOrder(Oldest(Claimable, BatchSize))
  /\ status' = [t \in Trades |-> IF t \in Members(batch') THEN "PROCESSING" ELSE status[t]]
  /\ lapsed' = lapsed \ Members(batch')
  /\ UNCHANGED <<attempt, written, topic, faults>>

\* WriteMessages succeeds.
Write ==
  /\ batch # <<>> /\ ~written
  /\ topic' = Append(topic, Head(batch))
  /\ written' = TRUE
  /\ UNCHANGED <<status, lapsed, batch, attempt, faults>>

Advance ==
  /\ batch' = Tail(batch)
  /\ attempt' = 0
  /\ written' = FALSE

MarkPublished ==
  /\ written
  /\ status' = [status EXCEPT ![Head(batch)] = "PROCESSED"]
  /\ Advance
  /\ UNCHANGED <<lapsed, topic, faults>>

\* The error is logged; the row is delivered again when its claim lapses.
MarkPublishedFails ==
  /\ written
  /\ Fault
  /\ Advance
  /\ UNCHANGED <<status, lapsed, topic>>

MaybeArrives == topic' \in {topic, Append(topic, Head(batch))}

WriteFails ==
  /\ batch # <<>> /\ ~written
  /\ attempt + 1 < MaxRetries
  /\ Fault
  /\ MaybeArrives
  /\ attempt' = attempt + 1
  /\ UNCHANGED <<status, lapsed, batch, written>>

Stop == batch' = <<>> /\ attempt' = 0 /\ written' = FALSE

\* The failed row and the rows behind it.
ReleaseClaims ==
  [t \in Trades |-> IF t \in Members(batch) THEN "PENDING" ELSE status[t]]

\* The last attempt fails: the batch is halted, its claims released if the
\* database answers.
GiveUp ==
  /\ batch # <<>> /\ ~written
  /\ attempt + 1 = MaxRetries
  /\ Fault
  /\ MaybeArrives
  /\ status' \in {ReleaseClaims, status}
  /\ Stop
  /\ UNCHANGED lapsed

\* The process ends; what it claimed stays claimed.
WalletCrash ==
  /\ batch # <<>>
  /\ Fault
  /\ Stop
  /\ UNCHANGED <<status, lapsed, topic>>

\* Time passes: a claim that nobody works on is older than the lease.
ClaimLapses(t) ==
  /\ status[t] = "PROCESSING"
  /\ t \notin Members(batch) \cup lapsed
  /\ lapsed' = lapsed \cup {t}
  /\ UNCHANGED <<status, batch, attempt, written, topic, faults>>

Publisher == FetchPending \/ Write \/ MarkPublished

FeedNext ==
  \/ \E t \in Trades : SettleTrade(t) \/ ClaimLapses(t)
  \/ Publisher
  \/ MarkPublishedFails \/ WriteFails \/ GiveUp \/ WalletCrash

FeedInit ==
  /\ status = [t \in Trades |-> "NONE"]
  /\ lapsed = {}
  /\ batch = <<>>
  /\ attempt = 0
  /\ written = FALSE
  /\ topic = <<>>
=============================================================================

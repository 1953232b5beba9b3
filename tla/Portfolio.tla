------------------------------ MODULE Portfolio ------------------------------
(***************************************************************************)
(* The portfolio service (services/portfolio) behind the wallet's feed:    *)
(* one user's position in one base asset.                                  *)
(*                                                                         *)
(* The consumer books each trade it fetches in one transaction: the trade  *)
(* is registered, the holding updated, and a PortfolioUpdated row with the *)
(* new version put in portfolio_outbox.  A trade the position cannot cover *)
(* goes to the dead-letter topic.  After any other error the consumer      *)
(* fetches the next message.  A second loop publishes the rows of the      *)
(* outbox under claims of one minute.  Both loops end with the process; at *)
(* every start the opening position is added unless it has been.           *)
(*                                                                         *)
(* Reads, valuation snapshots and the checks of a malformed event (the     *)
(* wallet writes none) are left out.                                       *)
(***************************************************************************)
EXTENDS TradeFeed

VARIABLES
  up,         \* whether the process runs
  next,       \* messages of the partition the reader has fetched
  committed,  \* the committed offset of the consumer group
  pc,         \* what the consumer does next
  processed,  \* processed_user_trades
  holding,    \* the row of holdings
  seed,       \* the bootstrap record: "ABSENT", "DEFINED" or "APPLIED"
  dlq,        \* trades on the dead-letter topic
  passed,     \* trades fetched, not handled, and left behind
  ostatus,    \* portfolio_outbox.status by portfolio_version
  olapsed,    \* rows claimed more than a minute ago
  claimed,    \* rows the publisher holds
  sent,       \* whether it has written them
  updates     \* the partition of portfolios.updated.v1: versions, as delivered

position   == <<processed, holding, seed, ostatus>>
consumer   == <<next, committed, pc, dlq, passed>>
publisher  == <<olapsed, claimed, sent, updates>>
vars == <<feedVars, faults, up, position, consumer, publisher>>

Versions == 1 .. (M + 1)
cur      == topic[next]

-----------------------------------------------------------------------------
(***************************************************************************)
(* The process.                                                            *)
(***************************************************************************)
\* Migrations run before a start; the one with the opening positions may be
\* younger than the trades.
Migrate ==
  /\ ~up /\ seed = "ABSENT"
  /\ seed' = "DEFINED"
  /\ UNCHANGED <<feedVars, faults, up, processed, holding, ostatus, consumer, publisher>>

\* InitializePositionFromBootstrap, unless it was applied before.
InitializePosition_Always ==
  /\ seed' = IF seed = "ABSENT" THEN seed ELSE "APPLIED"
  /\ holding' = IF seed = "ABSENT" THEN holding ELSE Opened(holding, Seed)

InitializePosition ==
  /\ seed' = IF seed = "DEFINED" THEN "APPLIED" ELSE seed
  /\ holding' = IF seed = "DEFINED" THEN Opened(holding, Seed) ELSE holding

Start ==
  /\ ~up
  /\ up' = TRUE
  /\ InitializePosition
  /\ next' = committed
  /\ pc' = "fetch"
  /\ UNCHANGED <<feedVars, faults, processed, ostatus, committed, dlq, passed, publisher>>

Crash ==
  /\ up
  /\ Fault
  /\ up' = FALSE
  /\ claimed' = {} /\ sent' = FALSE
  /\ UNCHANGED <<feedVars, position, consumer, olapsed, updates>>

-----------------------------------------------------------------------------
(***************************************************************************)
(* The consumer.                                                           *)
(***************************************************************************)
FetchMessage ==
  /\ up /\ pc = "fetch"
  /\ next < Len(topic)
  /\ next' = next + 1
  /\ pc' = "process"
  /\ UNCHANGED <<feedVars, faults, up, position, committed, dlq, passed, publisher>>

Book_NextVersion(t) ==
  /\ processed' = processed \cup {t}
  /\ holding' = Booked(holding, Trade[t])
  /\ ostatus' = [ostatus EXCEPT ![holding'.version + 1] = "PENDING"]
  /\ UNCHANGED seed

\* The transaction of ProcessUserTrade.  The version names the outbox row.
Book(t) ==
  /\ processed' = processed \cup {t}
  /\ holding' = Booked(holding, Trade[t])
  /\ ostatus' = [ostatus EXCEPT ![holding'.version] = "PENDING"]
  /\ UNCHANGED seed

ProcessUserTrade ==
  /\ up /\ pc = "process"
  /\ cur \notin processed
  /\ CanBook(holding, Trade[cur])
  /\ Book(cur)
  /\ pc' = "commit"
  /\ UNCHANGED <<feedVars, faults, up, next, committed, dlq, passed, publisher>>

\* ErrTradeAlreadyProcessed is no error.
SkipDuplicate ==
  /\ up /\ pc = "process"
  /\ cur \in processed
  /\ pc' = "commit"
  /\ UNCHANGED <<feedVars, faults, up, position, next, committed, dlq, passed, publisher>>

\* ErrInsufficientHoldings is a poison error.
RefuseTrade ==
  /\ up /\ pc = "process"
  /\ cur \notin processed
  /\ ~CanBook(holding, Trade[cur])
  /\ pc' = "dlq"
  /\ UNCHANGED <<feedVars, faults, up, position, next, committed, dlq, passed, publisher>>

LeaveBehind ==
  /\ pc' = "fetch"
  /\ passed' = passed \cup ({cur} \ (processed' \cup dlq'))

\* Another error of the database, before the transaction or in its commit.
ProcessFails ==
  /\ up /\ pc = "process"
  /\ Fault
  /\ \/ UNCHANGED position
     \/ cur \notin processed /\ CanBook(holding, Trade[cur]) /\ Book(cur)
  /\ UNCHANGED dlq
  /\ LeaveBehind
  /\ UNCHANGED <<feedVars, up, next, committed, publisher>>

SendToDLQ ==
  /\ up /\ pc = "dlq"
  /\ dlq' = dlq \cup {cur}
  /\ pc' = "commit"
  /\ UNCHANGED <<feedVars, faults, up, position, next, committed, passed, publisher>>

SendToDLQFails ==
  /\ up /\ pc = "dlq"
  /\ Fault
  /\ dlq' \in {dlq, dlq \cup {cur}}
  /\ UNCHANGED position
  /\ LeaveBehind
  /\ UNCHANGED <<feedVars, up, next, committed, publisher>>

CommitMessage ==
  /\ up /\ pc = "commit"
  /\ committed' = next
  /\ pc' = "fetch"
  /\ UNCHANGED <<feedVars, faults, up, position, next, dlq, passed, publisher>>

\* Only logged.
CommitMessageFails ==
  /\ up /\ pc = "commit"
  /\ Fault
  /\ pc' = "fetch"
  /\ UNCHANGED <<feedVars, up, position, next, committed, dlq, passed, publisher>>

Consumer ==
  \/ FetchMessage \/ ProcessUserTrade \/ SkipDuplicate \/ RefuseTrade
  \/ SendToDLQ \/ CommitMessage

-----------------------------------------------------------------------------
(***************************************************************************)
(* The publisher of portfolio_outbox.  A batch (50) holds all of them.     *)
(***************************************************************************)

OClaimable == {v \in Versions : ostatus[v] = "PENDING" \/ v \in olapsed}

FetchPendingOutbox ==
  /\ up /\ claimed = {}
  /\ OClaimable # {}
  /\ claimed' = OClaimable
  /\ ostatus' = [v \in Versions |-> IF v \in OClaimable THEN "PROCESSING" ELSE ostatus[v]]
  /\ olapsed' = {}
  /\ UNCHANGED <<feedVars, faults, up, processed, holding, seed, consumer, sent, updates>>

Delivered == {updates \o rows : rows \in InOrder(claimed)}

WriteOutbox ==
  /\ up /\ claimed # {} /\ ~sent
  /\ updates' \in Delivered
  /\ sent' = TRUE
  /\ UNCHANGED <<feedVars, faults, up, position, consumer, olapsed, claimed>>

MarkOutboxPublished ==
  /\ sent
  /\ ostatus' = [v \in Versions |-> IF v \in claimed THEN "PUBLISHED" ELSE ostatus[v]]
  /\ claimed' = {} /\ sent' = FALSE
  /\ UNCHANGED <<feedVars, faults, up, processed, holding, seed, consumer, olapsed, updates>>

\* A failed write (arrived or not) or a failed mark: the claims stay.
PublishFails ==
  /\ up /\ claimed # {}
  /\ Fault
  /\ \/ ~sent /\ updates' \in Delivered \cup {updates}
     \/ sent /\ UNCHANGED updates
  /\ claimed' = {} /\ sent' = FALSE
  /\ UNCHANGED <<feedVars, up, position, consumer, olapsed>>

OClaimLapses(v) ==
  /\ ostatus[v] = "PROCESSING"
  /\ v \notin claimed \cup olapsed
  /\ olapsed' = olapsed \cup {v}
  /\ UNCHANGED <<feedVars, faults, up, position, consumer, claimed, sent, updates>>

OutboxPublisher == FetchPendingOutbox \/ WriteOutbox \/ MarkOutboxPublished

-----------------------------------------------------------------------------
Init ==
  /\ FeedInit
  /\ faults = 0
  /\ up = FALSE
  /\ next = 0 /\ committed = 0 /\ pc = "fetch"
  /\ processed = {} /\ dlq = {} /\ passed = {}
  /\ holding = NoHolding
  /\ seed = "ABSENT"
  /\ ostatus = [v \in Versions |-> "NONE"]
  /\ olapsed = {} /\ claimed = {} /\ sent = FALSE
  /\ updates = <<>>

Feed == FeedNext /\ UNCHANGED <<up, position, consumer, publisher>>

Next ==
  \/ Feed
  \/ Migrate \/ Start \/ Crash
  \/ Consumer \/ ProcessFails \/ SendToDLQFails \/ CommitMessageFails
  \/ OutboxPublisher \/ PublishFails \/ \E v \in Versions : OClaimLapses(v)

Spec == Init /\ [][Next]_vars

\* Loops keep running, a process that ended is started again, and a lease
\* runs out by itself.  Nothing obliges the wallet to settle a trade.
Fairness ==
  /\ WF_vars(Publisher /\ UNCHANGED <<up, position, consumer, publisher>>)
  /\ \A t \in Trades :
       WF_vars(ClaimLapses(t) /\ UNCHANGED <<up, position, consumer, publisher>>)
  /\ WF_vars(Start) /\ WF_vars(Consumer) /\ WF_vars(OutboxPublisher)
  /\ \A v \in Versions : WF_vars(OClaimLapses(v))

FairSpec == Spec /\ Fairness

-----------------------------------------------------------------------------
\* Every variable keeps its type; quantity and cost of a holding never become
\* negative and at most MaxRetries - 1 failed writes are counted.
TypeOK ==
  /\ status \in [Trades -> {"NONE", "PENDING", "PROCESSING", "PROCESSED"}]
  /\ lapsed \subseteq Trades
  /\ batch \in Seq(Trades) /\ topic \in Seq(Trades)
  /\ attempt \in 0 .. MaxRetries - 1
  /\ written \in BOOLEAN /\ up \in BOOLEAN /\ sent \in BOOLEAN
  /\ faults \in 0 .. MaxFaults
  /\ next \in 0 .. Len(topic) /\ committed \in 0 .. Len(topic)
  /\ pc \in {"fetch", "process", "commit", "dlq"}
  /\ processed \subseteq Trades /\ dlq \subseteq Trades /\ passed \subseteq Trades
  /\ holding \in [quantity : Nat, total_cost : Nat, realized_pnl : Int, version : Nat]
  /\ seed \in {"ABSENT", "DEFINED", "APPLIED"}
  /\ ostatus \in [Versions -> {"NONE", "PENDING", "PROCESSING", "PUBLISHED"}]
  /\ olapsed \subseteq Versions /\ claimed \subseteq Versions
  /\ updates \in Seq(Versions)

\* Redelivered trades, transactions whose commit was not answered and restarts
\* change nothing twice: the quantity is the opening position and each processed
\* trade once, and the version counts the changes (ProcessUserTrade,
\* InitializePositionFromBootstrap).
AccountedOnce ==
  LET applied == seed = "APPLIED"
  IN /\ holding.quantity = (IF applied THEN Seed.quantity ELSE 0)
                           + MapThenSumSet(Signed, processed)
     /\ holding.version = Cardinality(processed) + (IF applied THEN 1 ELSE 0)

\* Whatever the order of buys and sales and the rounding of average prices, the
\* cost of what is held less the profit taken is the money the trades took, up
\* to one stored unit for each sale.
CashAccounted ==
  LET cash(t)  == Signed(t) * Trade[t].price
      paid     == (IF seed = "APPLIED" THEN Seed.cost_basis ELSE 0)
                  + MapThenSumSet(cash, processed)
      error    == holding.total_cost - holding.realized_pnl - paid
      sales    == Cardinality({t \in processed : Trade[t].role = "SELL"})
  IN -sales <= error /\ error <= sales

\* Position and cash account for each trade once, over redeliveries, crashes and retries.
Accounted == AccountedOnce /\ CashAccounted

\* No outbox row is retired before its event is in the log, whichever of write,
\* mark, release and lease fails in between (publishOne, publishPending).
RetiredIsDelivered ==
  /\ \A t \in Trades : status[t] = "PROCESSED" => t \in Members(topic)
  /\ \A v \in Versions : ostatus[v] = "PUBLISHED" => v \in Members(updates)

\* A settled trade that a younger one is delivered before.
Overtaken ==
  \E j \in DOMAIN topic, u \in Trades :
    /\ u < topic[j] /\ status[u] # "NONE"
    /\ \A i \in 1 .. j : topic[i] # u

\* The wallet settles no sale that it does not cover, so once the opening
\* position is there the portfolio refuses a trade only if the consumer left
\* another behind or the feed delivered one late (ErrInsufficientHoldings).
RefusedOnlyIfLate ==
  [][dlq' # dlq => seed # "APPLIED" \/ passed # {} \/ Overtaken]_vars

\* Crashes, failed writes and lost marks delay an event but lose none: a settled
\* trade is accounted for, on the dead-letter topic or left behind by the
\* consumer's error path (the wallet's publishOne and its leases).
SettledIsAccounted ==
  <>[](\A t \in Trades : status[t] # "NONE" => t \in processed \cup dlq \cup passed)
\* Every version a booking makes is announced, also when the publisher that
\* claimed its row ended (publishPending and the lease of its claims).
VersionsAnnounced ==
  <>[](\A v \in Versions : ostatus[v] # "NONE" => v \in Members(updates))

\* From the wallet's outbox to the portfolio's own topic nothing is lost, retired early or
\* refused without cause.
TradesCarriedThrough == /\ []RetiredIsDelivered /\ RefusedOnlyIfLate
                        /\ SettledIsAccounted /\ VersionsAnnounced

\* The service keeps the position as PositionKeeping promises.
Promise == INSTANCE PositionKeeping WITH
  booked <- processed, opened <- (seed = "APPLIED"), position <- holding,
  announced <- Members(updates)
KeepsPosition == Promise!Spec

-----------------------------------------------------------------------------
\* kafka/consumer.go: "failed to publish to DLQ; will not commit offset to
\* prevent data loss", and of other errors "will retry".
CommittedIsHandled ==
  \A i \in 1 .. committed : topic[i] \in processed \cup dlq

\* PI-8 of the service's document: "strict per-user FIFO ordering to
\* portfolios.updated.v1".
UpdatesInOrder ==
  \A j, k \in DOMAIN updates :
    j < k /\ updates[j] > updates[k] => \E i \in 1 .. k - 1 : updates[i] = updates[k]

\* wallet/internal/publisher: a halted batch "preserves strict chronological
\* FIFO ordering".
FeedInOrder ==
  [][\A u \in Trades : topic' = Append(topic, u) =>
       \A t \in 1 .. u - 1 : status[t] = "PROCESSING" => t \in Members(topic)]_vars
=============================================================================

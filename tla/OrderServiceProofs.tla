------------------------- MODULE OrderServiceProofs -------------------------
(***************************************************************************)
(* Theorems about OrderService for any orders, keys, quantities, number of *)
(* publishers and number of faults.                                        *)
(***************************************************************************)
EXTENDS OrderService, Sums, TLAPS

Early == {"new", "checked", "reserved", "existing"}

\* The part of TypeOK that the arguments below need.
Types ==
  /\ request \in [Orders -> Early \cup {"compensating", "enqueueing", "accepted", "failed"}]
  /\ status \in [Orders -> {"NONE"} \cup Live \cup Terminal]
  /\ releases \in [Orders -> {"NONE", "PENDING", "COMPLETED"}]
  /\ reservation \in [Orders -> {"NONE", "ACTIVE", "RELEASED"}]

\* Until the insert an order has neither a row nor a release: nothing about
\* it is recorded before its funds are reserved.
NothingEarly ==
  \A o \in Orders : request[o] \in Early => status[o] = "NONE" /\ releases[o] = "NONE"

\* The inductive invariant.
IInv == Types /\ NothingEarly /\ ReleasesTruthful /\ OneOrderPerKey

\* The variables the invariant speaks of.
core == <<request, status, releases, reservation>>

-----------------------------------------------------------------------------
\* Most steps leave them alone.
LEMMA Quiet == IInv /\ UNCHANGED core => IInv'
  BY DEF IInv, Types, NothingEarly, ReleasesTruthful, OneOrderPerKey, Twins, core

\* A step that keeps the rows keeps the first part of OneOrderPerKey, and the
\* second too unless it answers a request.
LEMMA RowsKept ==
  ASSUME IInv,
         \A o \in Orders : status[o] = "NONE" <=> status'[o] = "NONE",
         \A o \in Orders : request'[o] = "existing" => request[o] = "existing"
  PROVE  OneOrderPerKey'
  <1>1. ASSUME NEW o \in Orders, NEW p \in Orders, o # p, Key[o] = Key[p]
        PROVE  status'[o] = "NONE" \/ status'[p] = "NONE"
    BY <1>1 DEF IInv, OneOrderPerKey
  <1>2. ASSUME NEW o \in Orders, request'[o] = "existing"
        PROVE  status'[o] = "NONE" /\ Twins(o)' # {}
    <2>1. status[o] = "NONE" /\ Twins(o) # {}
      BY <1>2 DEF IInv, OneOrderPerKey
    <2>2. PICK p \in Orders : Key[p] = Key[o] /\ status[p] # "NONE"
      BY <2>1 DEF Twins
    <2> QED BY <2>1, <2>2 DEF Twins
  <1> QED BY <1>1, <1>2 DEF OneOrderPerKey

\* The insert of an order, with the answer the request gets.
LEMMA Insert ==
  ASSUME IInv, NEW o \in Orders, request[o] = "reserved", Twins(o) = {}, InsertOrder(o),
         NEW step \in {"accepted", "compensating"}, GoTo(o, step),
         UNCHANGED <<releases, reservation>>
  PROVE  IInv'
  <1> USE DEF IInv
  <1>1. /\ status' = [status EXCEPT ![o] = "OPEN"]
        /\ request' = [request EXCEPT ![o] = step]
    BY DEF InsertOrder, GoTo
  <1>2. Types'
    BY <1>1 DEF Types, Live, Early
  <1>3. NothingEarly'
    BY <1>1 DEF Types, NothingEarly, Early
  <1>4. ReleasesTruthful'
    BY <1>1 DEF Types, ReleasesTruthful, Terminal
  <1>5. ASSUME NEW p \in Orders, NEW q \in Orders, p # q, Key[p] = Key[q]
        PROVE  status'[p] = "NONE" \/ status'[q] = "NONE"
    BY <1>1, <1>5 DEF Types, OneOrderPerKey, Twins
  <1>6. ASSUME NEW p \in Orders, request'[p] = "existing"
        PROVE  status'[p] = "NONE" /\ Twins(p)' # {}
    <2>1. p # o /\ request[p] = "existing"
      BY <1>1, <1>6 DEF Types
    <2>2. status[p] = "NONE" /\ Twins(p) # {}
      BY <2>1 DEF OneOrderPerKey
    <2>3. PICK q \in Orders : Key[q] = Key[p] /\ status[q] # "NONE"
      BY <2>2 DEF Twins
    <2>4. status'[q] # "NONE" /\ status'[p] = "NONE"
      BY <1>1, <2>1, <2>2, <2>3 DEF Types
    <2> QED BY <2>3, <2>4 DEF Twins
  <1> QED BY <1>2, <1>3, <1>4, <1>5, <1>6 DEF OneOrderPerKey

\* A step of a request that touches neither table.
LEMMA Answer ==
  ASSUME IInv, NEW o \in Orders,
         NEW step \in {"checked", "reserved", "compensating", "enqueueing", "failed"},
         GoTo(o, step), step \in Early => request[o] \in Early,
         UNCHANGED <<status, releases>>,
         reservation' \in [Orders -> {"NONE", "ACTIVE", "RELEASED"}],
         \A p \in Orders : reservation'[p] = "ACTIVE" =>
           reservation[p] = "ACTIVE" \/ releases[p] = "NONE"
  PROVE  IInv'
  <1> USE DEF IInv
  <1>1. request' = [request EXCEPT ![o] = step]
    BY DEF GoTo
  <1>2. Types'
    BY <1>1 DEF Types, Early
  <1>3. NothingEarly'
    BY <1>1 DEF Types, NothingEarly, Early
  <1>4. ReleasesTruthful'
    BY DEF ReleasesTruthful
  <1>5. OneOrderPerKey'
    <2>1. \A p \in Orders : request'[p] = "existing" => request[p] = "existing"
      BY <1>1 DEF Types
    <2> QED BY <2>1, RowsKept
  <1> QED BY <1>2, <1>3, <1>4, <1>5

\* A step of CreateOrder, its compensation included, keeps the invariant.
LEMMA CreateStepInv ==
  ASSUME IInv, NEW o \in Orders, CreateStep(o)
  PROVE  IInv'
  <1> USE DEF db, table
  <1>0. request[o] \in Early => releases[o] = "NONE"
    BY DEF IInv, NothingEarly
  <1>r. reservation \in [Orders -> {"NONE", "ACTIVE", "RELEASED"}]
    BY DEF IInv, Types
  <1>1. CASE CheckKey(o)
    <2>1. CASE Twins(o) = {}
      <3>1. GoTo(o, "checked") /\ UNCHANGED <<status, releases, reservation>>
        BY <1>1, <2>1 DEF CheckKey
      <3>2. request[o] \in Early
        BY <1>1 DEF CheckKey, Early
      <3> QED BY <1>r, <3>1, <3>2, Answer
    <2>2. CASE Twins(o) # {}
      <3>1. /\ request[o] = "new"
            /\ request' = [request EXCEPT ![o] = "existing"]
            /\ UNCHANGED <<status, releases, reservation>>
        BY <1>1, <2>2 DEF CheckKey, GoTo
      <3>2. Types' /\ NothingEarly' /\ ReleasesTruthful'
        BY <3>1 DEF IInv, Types, NothingEarly, ReleasesTruthful, Early
      <3>3. status[o] = "NONE"
        BY <3>1 DEF IInv, NothingEarly, Early
      <3>4. OneOrderPerKey'
        BY <2>2, <3>1, <3>3 DEF IInv, Types, OneOrderPerKey, Twins
      <3> QED BY <3>2, <3>4 DEF IInv
    <2> QED BY <2>1, <2>2
  <1>2. CASE Reject(o)
    <2>1. GoTo(o, "failed") /\ UNCHANGED <<status, releases, reservation>>
      BY <1>2 DEF Reject
    <2>2. "failed" \notin Early
      BY DEF Early
    <2> QED BY <1>r, <2>1, <2>2, Answer
  <1>3. CASE ReserveFunds(o)
    <2>1. /\ GoTo(o, "reserved") /\ UNCHANGED <<status, releases>>
          /\ reservation' \in {reservation, [reservation EXCEPT ![o] = "ACTIVE"]}
      BY <1>3 DEF ReserveFunds
    <2>2. request[o] \in Early
      BY <1>3 DEF ReserveFunds, Early
    <2>3. /\ reservation' \in [Orders -> {"NONE", "ACTIVE", "RELEASED"}]
          /\ \A p \in Orders : reservation'[p] = "ACTIVE" =>
               reservation[p] = "ACTIVE" \/ releases[p] = "NONE"
      BY <1>0, <1>r, <2>1, <2>2
    <2> QED BY <2>1, <2>2, <2>3, Answer
  <1>4. CASE ReserveLost(o)
    <2>1. /\ GoTo(o, "failed") /\ UNCHANGED <<status, releases>>
          /\ reservation' \in {reservation, [reservation EXCEPT ![o] = "ACTIVE"]}
      BY <1>4 DEF ReserveLost
    <2>2. request[o] \in Early /\ "failed" \notin Early
      BY <1>4 DEF ReserveLost, Early
    <2>3. /\ reservation' \in [Orders -> {"NONE", "ACTIVE", "RELEASED"}]
          /\ \A p \in Orders : reservation'[p] = "ACTIVE" =>
               reservation[p] = "ACTIVE" \/ releases[p] = "NONE"
      BY <1>0, <1>r, <2>1, <2>2
    <2> QED BY <2>1, <2>2, <2>3, Answer
  <1>5. CASE PersistOrder(o)
    <2>1. request[o] = "reserved" /\ UNCHANGED <<releases, reservation>>
      BY <1>5 DEF PersistOrder
    <2>2. CASE Twins(o) = {}
      <3>1. InsertOrder(o) /\ GoTo(o, "accepted")
        BY <1>5, <2>2 DEF PersistOrder
      <3> QED BY <2>1, <2>2, <3>1, Insert
    <2>3. CASE Twins(o) # {}
      <3>1. GoTo(o, "compensating") /\ UNCHANGED status
        BY <1>5, <2>3 DEF PersistOrder
      <3>2. "compensating" \notin Early
        BY DEF Early
      <3> QED BY <1>r, <2>1, <3>1, <3>2, Answer
    <2> QED BY <2>2, <2>3
  <1>6. CASE PersistFails(o)
    <2>1. /\ request[o] = "reserved" /\ UNCHANGED <<releases, reservation>>
          /\ GoTo(o, "compensating")
          /\ UNCHANGED status \/ (Twins(o) = {} /\ InsertOrder(o))
      BY <1>6 DEF PersistFails
    <2>2. CASE Twins(o) = {} /\ InsertOrder(o)
      BY <2>1, <2>2, Insert
    <2>3. CASE UNCHANGED status
      <3>1. "compensating" \notin Early
        BY DEF Early
      <3> QED BY <1>r, <2>1, <2>3, <3>1, Answer
    <2> QED BY <2>1, <2>2, <2>3
  <1>7. CASE Compensate(o)
    <2>1. /\ GoTo(o, "failed") \/ GoTo(o, "enqueueing")
          /\ UNCHANGED <<status, releases>>
          /\ reservation' \in {reservation, ReleasedFunds(o)}
      BY <1>7 DEF Compensate, CallLost
    <2>2. "failed" \notin Early /\ "enqueueing" \notin Early
      BY DEF Early
    <2>3. /\ reservation' \in [Orders -> {"NONE", "ACTIVE", "RELEASED"}]
          /\ \A p \in Orders : reservation'[p] = "ACTIVE" => reservation[p] = "ACTIVE"
      BY <1>r, <2>1 DEF ReleasedFunds
    <2>4. CASE GoTo(o, "failed")
      BY <2>1, <2>2, <2>3, <2>4, Answer
    <2>5. CASE GoTo(o, "enqueueing")
      BY <2>1, <2>2, <2>3, <2>5, Answer
    <2> QED BY <2>1, <2>4, <2>5
  <1>8. CASE EnqueueRelease(o)
    <2>1. /\ request[o] = "enqueueing" /\ request' = [request EXCEPT ![o] = "failed"]
          /\ UNCHANGED <<status, reservation>>
          /\ releases' \in {releases, Enqueued({o})}
      BY <1>8 DEF EnqueueRelease, GoTo
    <2>2. /\ releases' \in [Orders -> {"NONE", "PENDING", "COMPLETED"}]
          /\ \A p \in Orders : /\ releases'[p] = "COMPLETED" => releases[p] = "COMPLETED"
                               /\ releases'[p] = "NONE" => releases[p] = "NONE"
                               /\ p # o => releases'[p] = releases[p]
      BY <2>1 DEF Enqueued, IInv, Types
    <2>3. Types' /\ NothingEarly' /\ ReleasesTruthful'
      BY <2>1, <2>2 DEF IInv, Types, NothingEarly, ReleasesTruthful, Early
    <2>4. \A p \in Orders : request'[p] = "existing" => request[p] = "existing"
      BY <2>1 DEF IInv, Types
    <2>5. OneOrderPerKey'
      BY <2>1, <2>4, RowsKept
    <2> QED BY <2>3, <2>5 DEF IInv
  <1> QED BY <1>1, <1>2, <1>3, <1>4, <1>5, <1>6, <1>7, <1>8 DEF CreateStep

\* A transaction that moves orders with a row to another status and enqueues
\* the releases of the ones that have ended.
LEMMA Transition ==
  ASSUME IInv, NEW S,
         releases' = Enqueued(S), UNCHANGED <<request, reservation>>,
         status' \in [Orders -> {"NONE"} \cup Live \cup Terminal],
         \A p \in Orders : status'[p] = "NONE" <=> status[p] = "NONE",
         \A p \in S : p \in Orders => status[p] # "NONE",
         \A p \in Orders : status'[p] \in Terminal => status[p] \in Terminal \/ p \in S
  PROVE  IInv'
  <1>1. /\ releases' \in [Orders -> {"NONE", "PENDING", "COMPLETED"}]
        /\ \A p \in Orders : /\ releases'[p] = "COMPLETED" => releases[p] = "COMPLETED"
                             /\ releases'[p] = "NONE" => releases[p] = "NONE" /\ p \notin S
                             /\ p \notin S => releases'[p] = releases[p]
    BY DEF Enqueued, IInv, Types
  <1>2. Types'
    BY <1>1 DEF IInv, Types
  <1>3. NothingEarly'
    BY <1>1 DEF IInv, NothingEarly
  <1>4. ReleasesTruthful'
    BY <1>1 DEF IInv, ReleasesTruthful
  <1>5. OneOrderPerKey'
    BY RowsKept
  <1> QED BY <1>2, <1>3, <1>4, <1>5 DEF IInv

\* ReleaseFunds and the record of it, by consumer or worker.
LEMMA ReleasesInv ==
  ASSUME IInv, NEW o \in Orders, NEW b, Releases(o, b), UNCHANGED <<request, status>>
  PROVE  IInv'
  <1>1. /\ reservation' \in {reservation, ReleasedFunds(o)}
        /\ releases' \in {releases, Completed(o)}
        /\ releases' = releases \/ reservation' = ReleasedFunds(o)
    BY DEF Releases, CallLost
  <1>2. /\ releases' \in [Orders -> {"NONE", "PENDING", "COMPLETED"}]
        /\ reservation' \in [Orders -> {"NONE", "ACTIVE", "RELEASED"}]
        /\ \A p \in Orders : reservation'[p] = "ACTIVE" => reservation[p] = "ACTIVE"
        /\ \A p \in Orders : releases'[p] = "NONE" <=> releases[p] = "NONE"
        /\ \A p \in Orders : p # o => releases'[p] = releases[p]
        /\ releases'[o] = releases[o] \/ reservation'[o] # "ACTIVE"
    BY <1>1 DEF ReleasedFunds, Completed, IInv, Types
  <1>3. Types' /\ NothingEarly' /\ ReleasesTruthful'
    BY <1>2 DEF IInv, Types, NothingEarly, ReleasesTruthful
  <1>4. OneOrderPerKey'
    BY RowsKept
  <1> QED BY <1>3, <1>4 DEF IInv

\* The first delivery of a settled trade: legs end only together with their row
\* in wallet_releases.
LEMMA ApplyTradeFillInv == IInv /\ ApplyTradeFill => IInv'
  <1> SUFFICES ASSUME IInv, ApplyTradeFill PROVE IInv'
    OBVIOUS
  <1> DEFINE n    == settled[next["trades"] + 1]
             legs == {trades[n].buy, trades[n].sell}
             qty  == trades[n].qty
             now  == {o \in legs : FillStatus(o, qty) = "FILLED"}
  <1>1. UNCHANGED <<request, reservation>>
    BY DEF ApplyTradeFill, Fetches
  <1>2. \/ UNCHANGED <<status, releases>>
        \/ (\A o \in legs : Fillable(o, qty)) /\ ApplyFill(n, legs)
    BY DEF ApplyTradeFill, table
  <1>3. CASE UNCHANGED <<status, releases>>
    BY <1>1, <1>3, Quiet DEF core
  <1>4. CASE (\A o \in legs : Fillable(o, qty)) /\ ApplyFill(n, legs)
    <2>1. /\ status' = [o \in Orders |-> IF o \in legs THEN FillStatus(o, qty) ELSE status[o]]
          /\ releases' = Enqueued(now)
      BY <1>4 DEF ApplyFill
    <2>2. \A o \in legs : status[o] \in {"OPEN", "PARTIALLY_FILLED", "CANCELLING", "CANCELLED"}
      BY <1>4 DEF Fillable
    <2>3. \A o \in legs : FillStatus(o, qty) \in {"FILLED", "PARTIALLY_FILLED", status[o]}
      BY DEF FillStatus
    <2>4. \A o \in legs : FillStatus(o, qty) = "CANCELLED" => status[o] = "CANCELLED"
      BY <2>3
    <2>5. now \subseteq legs /\ \A o \in legs : FillStatus(o, qty) = "FILLED" => o \in now
      OBVIOUS
    <2> HIDE DEF now, legs, qty, n
    <2>6. status' \in [Orders -> {"NONE"} \cup Live \cup Terminal]
      BY <2>1, <2>2, <2>3 DEF IInv, Types, Live, Terminal
    <2>7. \A p \in Orders : status'[p] = "NONE" <=> status[p] = "NONE"
      BY <2>1, <2>2, <2>3
    <2>8. \A p \in now : p \in Orders => status[p] # "NONE"
      BY <2>2, <2>5
    <2>9. \A p \in Orders : status'[p] \in Terminal => status[p] \in Terminal \/ p \in now
      BY <2>1, <2>4, <2>5 DEF Terminal
    <2> QED BY <1>1, <2>1, <2>6, <2>7, <2>8, <2>9, Transition
  <1> QED BY <1>2, <1>3, <1>4

\* The outcome of a cancel: the order ends with its row in wallet_releases, or
\* it had ended already.
LEMMA ApplyOutcomeInv == IInv /\ ApplyOutcome => IInv'
  <1> SUFFICES ASSUME IInv, ApplyOutcome PROVE IInv'
    OBVIOUS
  <1> DEFINE o   == outcomes[next["cancels"] + 1][1]
             end == Cancelled(o, outcomes[next["cancels"] + 1][2])
  <1>1. UNCHANGED <<request, reservation>>
    BY DEF ApplyOutcome, Fetches
  <1>2. CASE Cancellable(o)
    <2>1. status' = [status EXCEPT ![o] = end] /\ releases' = Enqueued({o})
      BY <1>2 DEF ApplyOutcome
    <2>2. end \in Terminal
      BY DEF Cancelled, Terminal
    <2>3. status[o] \in Live
      BY <1>2 DEF Cancellable
    <2> HIDE DEF o, end
    <2>4. status' \in [Orders -> {"NONE"} \cup Live \cup Terminal]
      BY <2>1, <2>2 DEF IInv, Types
    <2>5. \A p \in Orders : status'[p] = "NONE" <=> status[p] = "NONE"
      BY <2>1, <2>2, <2>3 DEF IInv, Types, Live, Terminal
    <2>6. \A p \in {o} : p \in Orders => status[p] # "NONE"
      BY <2>3 DEF Live
    <2>7. \A p \in Orders : status'[p] \in Terminal => status[p] \in Terminal \/ p \in {o}
      BY <2>1 DEF IInv, Types
    <2> QED BY <1>1, <2>1, <2>4, <2>5, <2>6, <2>7, Transition
  <1>3. CASE ~Cancellable(o)
    <2>1. UNCHANGED <<status, releases>>
      BY <1>3 DEF ApplyOutcome
    <2> QED BY <1>1, <2>1, Quiet DEF core
  <1> QED BY <1>2, <1>3

\* A client's cancel ends nothing.
LEMMA CancelOrderInv ==
  ASSUME IInv, NEW o \in Orders, CancelOrder(o)
  PROVE  IInv'
  <1>1. /\ status[o] \in {"OPEN", "PARTIALLY_FILLED"}
        /\ status' = [status EXCEPT ![o] = "CANCELLING"]
        /\ UNCHANGED <<request, releases, reservation>>
    BY DEF CancelOrder
  <1>2. Types' /\ NothingEarly' /\ ReleasesTruthful'
    BY <1>1 DEF IInv, Types, NothingEarly, ReleasesTruthful, Live, Terminal, Early
  <1>3. \A p \in Orders : status'[p] = "NONE" <=> status[p] = "NONE"
    BY <1>1 DEF IInv, Types
  <1>4. OneOrderPerKey'
    BY <1>1, <1>3, RowsKept
  <1> QED BY <1>2, <1>4 DEF IInv

\* A crash forgets the requests in progress and no row.
LEMMA CrashInv == IInv /\ Crash => IInv'
  <1> SUFFICES ASSUME IInv, Crash PROVE IInv'
    OBVIOUS
  <1>1. /\ request' = [o \in Orders |->
             IF request[o] \in {"checked", "reserved", "compensating", "enqueueing"}
             THEN "failed" ELSE request[o]]
        /\ UNCHANGED <<status, releases, reservation>>
    BY DEF Crash, db
  <1>2. Types' /\ NothingEarly' /\ ReleasesTruthful'
    BY <1>1 DEF IInv, Types, NothingEarly, ReleasesTruthful, Early
  <1>3. \A o \in Orders : request'[o] = "existing" => request[o] = "existing"
    BY <1>1
  <1>4. OneOrderPerKey'
    BY <1>1, <1>3, RowsKept
  <1> QED BY <1>2, <1>4 DEF IInv

\* Every step keeps the invariant.
LEMMA StepInv == IInv /\ [Next]_vars => IInv'
  <1> SUFFICES ASSUME IInv, [Next]_vars PROVE IInv'
    OBVIOUS
  <1>1. CASE UNCHANGED vars
    BY <1>1, Quiet DEF vars, core
  <1>2. ASSUME NEW o \in Orders, CreateStep(o) PROVE IInv'
    BY <1>2, CreateStepInv
  <1>3. ASSUME NEW o \in Orders, CancelOrder(o) PROVE IInv'
    BY <1>3, CancelOrderInv
  <1>4. ASSUME NEW o \in Orders, LiquidityEnginePublishes(o) PROVE IInv'
    BY <1>4, Quiet DEF LiquidityEnginePublishes, db, core
  <1>5. ASSUME NEW i \in Instances, PublisherStep(i) PROVE IInv'
    <2>1. UNCHANGED core
      BY <1>5 DEF PublisherStep, GetUnpublishedOutboxEvents, PublishEvent, PublishFails,
                  db, table, core
    <2> QED BY <2>1, Quiet
  <1>6. ASSUME NEW c \in Consumers, ConsumerStep(c) PROVE IInv'
    <2>1. CASE ApplyTradeFill
      BY <2>1, ApplyTradeFillInv
    <2>2. CASE ApplyOutcome
      BY <2>2, ApplyOutcomeInv
    <2>3. CASE MessageFails(c)
      BY <2>3, Quiet DEF MessageFails, Fetches, table, core
    <2>4. ASSUME NEW o \in Orders, ConsumerReleases(c, o) PROVE IInv'
      <3>1. Releases(o, c = "cancels") /\ UNCHANGED <<request, status>>
        BY <2>4 DEF ConsumerReleases, table
      <3> QED BY <3>1, ReleasesInv
    <2>5. CASE CommitMessages(c)
      BY <2>5, Quiet DEF CommitMessages, db, core
    <2> QED BY <1>6, <2>1, <2>2, <2>3, <2>4, <2>5 DEF ConsumerStep
  <1>7. ASSUME NEW n \in DOMAIN trades, Settle(n) PROVE IInv'
    BY <1>7, Quiet DEF Settle, db, core
  <1>8. CASE EngineStep
    <2>1. UNCHANGED core
      BY <1>8 DEF EngineStep, EngineRests, EngineRejects, EngineCancels, EngineMatches,
                  EngineSkips, TakesCommand, db, core
    <2> QED BY <2>1, Quiet
  <1>9. CASE WorkerStep
    <2>1. CASE ClaimPendingWalletReleases
      BY <2>1, Quiet DEF ClaimPendingWalletReleases, db, core
    <2>2. ASSUME NEW o \in Orders, WorkerReleases(o) PROVE IInv'
      <3>1. Releases(o, TRUE) /\ UNCHANGED <<request, status>>
        BY <2>2 DEF WorkerReleases, table
      <3> QED BY <3>1, ReleasesInv
    <2> QED BY <1>9, <2>1, <2>2 DEF WorkerStep
  <1>10. CASE Crash
    BY <1>10, CrashInv
  <1> QED BY <1>1, <1>2, <1>3, <1>4, <1>5, <1>6, <1>7, <1>8, <1>9, <1>10 DEF Next

\* The orders registered by the market maker have keys of their own.
LEMMA InitInv == Init => IInv
  <1> SUFFICES ASSUME Init PROVE IInv
    OBVIOUS
  <1> USE DEF Init
  <1>1. Types
    BY DEF Types, Early, Live
  <1>2. NothingEarly
    BY DEF NothingEarly, Early
  <1>3. ReleasesTruthful
    BY DEF ReleasesTruthful, Terminal
  <1>4. OneOrderPerKey
    BY OrderAssumption DEF OneOrderPerKey
  <1> QED BY <1>1, <1>2, <1>3, <1>4 DEF IInv

\* The inductive invariant holds in every state.
LEMMA Invariance == Spec => []IInv
  BY InitInv, StepInv, PTL DEF Spec

-----------------------------------------------------------------------------
\* wallet_releases is never ahead of the wallet and never behind the orders
\* table, whatever calls are lost, messages redelivered and processes killed
\* (ApplyTradeFill, MarkOrderCancelled, MarkWalletReleaseCompleted).
THEOREM ReleasesSound == Spec => []ReleasesTruthful
  <1>1. IInv => ReleasesTruthful
    BY DEF IInv
  <1> QED BY <1>1, Invariance, PTL

\* A client's retries, concurrent ones included, share one order
\* (FindByIdempotencyKey and the unique key of the orders table).
THEOREM OneOrder == Spec => []OneOrderPerKey
  <1>1. IInv => OneOrderPerKey
    BY DEF IInv
  <1> QED BY <1>1, Invariance, PTL

-----------------------------------------------------------------------------
(***************************************************************************)
(* Fills.  What an order is filled by is a sum over the processed trades;  *)
(* every one of them was settled before it was in the topic.               *)
(***************************************************************************)
Deals   == [buy : Orders, sell : Orders, qty : Nat, state : {"executed", "settled", "failed"}]
Volumes == [n \in DOMAIN trades |-> trades[n].qty]
Fills(o) == {n \in processed : o \in Legs(n)}

TradesTyped ==
  /\ trades \in Seq(Deals) /\ settled \in Seq(Nat)
  /\ book \in [Orders -> Nat] /\ filled \in [Orders -> Nat]
  /\ next \in [Consumers -> Nat] /\ committed \in [Consumers -> Nat]

\* What is announced, and what was processed, was settled.
SettledFirst ==
  \A n \in Range(settled) \cup processed : n \in DOMAIN trades /\ trades[n].state = "settled"

FilledByTrades == \A o \in Orders : filled[o] = Total(Volumes, Fills(o))

FilledToTheEnd ==
  \A o \in Orders :
    /\ filled[o] <= Qty[o]
    /\ status[o] = "FILLED" <=> filled[o] = Qty[o]
    /\ status[o] = "NONE" => filled[o] = 0

FillInv == TradesTyped /\ SettledFirst /\ FilledByTrades /\ FilledToTheEnd

\* The sum of the quantities of trades.
LEMMA SumVolumes ==
  ASSUME NEW S \in SUBSET DOMAIN trades, IsFiniteSet(S)
  PROVE  MapThenSumSet(LAMBDA n : trades[n].qty, S) = Total(Volumes, S)
<1> DEFINE f == Volumes
           P(h) == h = [s \in SUBSET S |-> IF s = {} THEN 0 ELSE trades[Some(s)].qty + h[s \ {Some(s)}]]
<1>1. \A s \in SUBSET S : s # {} => f[Some(s)] = trades[Some(s)].qty
  BY SomeIn DEF Volumes
<1> HIDE DEF f
<1>2. \A h : IsTable(h, f, S) <=> P(h)
  BY <1>1 DEF IsTable
<1>3. MapThenSumSet(LAMBDA n : trades[n].qty, S) = (CHOOSE h : P(h))[S]
  BY DEF MapThenSumSet, MapThenFoldSet, Some
<1>4. \E h : P(h)
  BY <1>2, TableExists
<1>5. PICK h : P(h) /\ MapThenSumSet(LAMBDA n : trades[n].qty, S) = h[S]
  BY <1>3, <1>4
<1>6. IsTable(h, f, S)
  BY <1>2, <1>5
<1> QED BY <1>5, <1>6, TotalIs DEF f

\* The trades of an order are finitely many, and their volumes are numbers.
LEMMA FillsFinite ==
  ASSUME FillInv, NEW o
  PROVE  /\ Fills(o) \in SUBSET DOMAIN trades /\ IsFiniteSet(Fills(o))
         /\ \A n \in DOMAIN trades : Volumes[n] \in Nat /\ Volumes[n] = trades[n].qty
<1>1. Fills(o) \in SUBSET DOMAIN trades
  BY DEF FillInv, SettledFirst, Fills
<1>2. DOMAIN trades = 1 .. Len(trades) /\ Len(trades) \in Nat
  BY DEF FillInv, TradesTyped
<1>3. IsFiniteSet(Fills(o))
  <2>1. IsFiniteSet(1 .. Len(trades))
    BY <1>2, FS_Interval
  <2>2. IsFiniteSet(DOMAIN trades)
    BY <1>2, <2>1
  <2> QED BY <1>1, <2>2, FS_Subset
<1>4. \A n \in DOMAIN trades : trades[n] \in Deals
  BY <1>2 DEF FillInv, TradesTyped
<1> QED BY <1>1, <1>3, <1>4 DEF Volumes, Deals

\* The invariant says what FilledOnce does.
LEMMA FillsAreFilledOnce == FillInv => FilledOnce
<1> SUFFICES ASSUME FillInv PROVE FilledOnce
  OBVIOUS
<1>1. ASSUME NEW n \in processed PROVE trades[n].state = "settled"
  BY DEF FillInv, SettledFirst
<1>2. ASSUME NEW o \in Orders
      PROVE  filled[o] = MapThenSumSet(LAMBDA n : trades[n].qty, {n \in processed : o \in Legs(n)})
  <2>1. filled[o] = Total(Volumes, Fills(o))
    BY DEF FillInv, FilledByTrades
  <2>2. Fills(o) \in SUBSET DOMAIN trades /\ IsFiniteSet(Fills(o))
    BY FillsFinite
  <2>3. MapThenSumSet(LAMBDA n : trades[n].qty, Fills(o)) = Total(Volumes, Fills(o))
    BY <2>2, SumVolumes
  <2> QED BY <2>1, <2>3 DEF Fills
<1> QED BY <1>1, <1>2 DEF FilledOnce, FillInv, FilledToTheEnd

\* A step that leaves trades and fills alone and makes no order FILLED, nor takes it back.
LEMMA NoFill ==
  ASSUME IInv, FillInv, UNCHANGED <<trades, settled, book, filled, processed>>,
         next' \in [Consumers -> Nat], committed' \in [Consumers -> Nat],
         \A o \in Orders : /\ status'[o] = "FILLED" <=> status[o] = "FILLED"
                           /\ status'[o] = "NONE" => status[o] = "NONE"
  PROVE  FillInv'
<1>1. TradesTyped' /\ SettledFirst'
  BY DEF FillInv, TradesTyped, SettledFirst
<1>2. \A o \in Orders : filled'[o] = Total(Volumes', Fills(o)')
  <2>1. Volumes' = Volumes /\ \A o \in Orders : Fills(o)' = Fills(o)
    BY DEF Volumes, Fills, Legs
  <2> QED BY <2>1 DEF FillInv, FilledByTrades
<1>3. FilledToTheEnd'
  BY DEF FillInv, FilledToTheEnd
<1> QED BY <1>1, <1>2, <1>3 DEF FillInv, FilledByTrades

\* A step that only adds to the trades, or settles one of them.
LEMMA TradesGo ==
  ASSUME FillInv, UNCHANGED <<filled, processed, status, next, committed>>,
         trades' \in Seq(Deals), settled' \in Seq(Nat), book' \in [Orders -> Nat],
         \A n \in DOMAIN trades : /\ n \in DOMAIN trades' /\ trades'[n].qty = trades[n].qty
                                  /\ trades'[n].buy = trades[n].buy /\ trades'[n].sell = trades[n].sell
                                  /\ trades[n].state = "settled" => trades'[n].state = "settled",
         \A n \in Range(settled') : n \in Range(settled) \/ (n \in DOMAIN trades' /\ trades'[n].state = "settled")
  PROVE  FillInv'
<1>1. TradesTyped' /\ FilledToTheEnd'
  BY DEF FillInv, TradesTyped, FilledToTheEnd
<1>2. SettledFirst'
  BY DEF FillInv, SettledFirst
<1>3. ASSUME NEW o \in Orders PROVE filled'[o] = Total(Volumes', Fills(o)')
  <2>1. Fills(o)' = Fills(o)
    <3>1. \A n \in processed : n \in DOMAIN trades
      BY DEF FillInv, SettledFirst
    <3>2. \A n \in processed : o \in Legs(n)' <=> o \in Legs(n)
      BY <3>1 DEF Legs
    <3> QED BY <3>2 DEF Fills
  <2>2. Fills(o) \in SUBSET DOMAIN trades /\ IsFiniteSet(Fills(o))
    BY FillsFinite
  <2>3. \A n \in Fills(o) : Volumes[n] = Volumes'[n]
    BY <2>2 DEF Volumes
  <2>4. Total(Volumes, Fills(o)) = Total(Volumes', Fills(o))
    BY <2>2, <2>3, TotalAgree
  <2>5. filled'[o] = Total(Volumes, Fills(o))
    BY DEF FillInv, FilledByTrades
  <2> QED BY <2>1, <2>4, <2>5
<1> QED BY <1>1, <1>2, <1>3 DEF FillInv, FilledByTrades

\* A new trade, after those there are.
LEMMA OneMore ==
  ASSUME FillInv, NEW t \in Deals, trades' = Append(trades, t), book' \in [Orders -> Nat],
         UNCHANGED <<filled, processed, status, next, committed, settled>>
  PROVE  FillInv'
<1>1. trades \in Seq(Deals) /\ settled \in Seq(Nat)
  BY DEF FillInv, TradesTyped
<1>2. trades' \in Seq(Deals) /\ \A n \in DOMAIN trades : n \in DOMAIN trades' /\ trades'[n] = trades[n]
  BY <1>1
<1> QED BY <1>1, <1>2, TradesGo

\* The engine takes a command: what it matches was resting.
LEMMA EngineFill == ASSUME FillInv, EngineStep PROVE FillInv'
<1>0. /\ trades \in Seq(Deals) /\ settled \in Seq(Nat) /\ book \in [Orders -> Nat]
      /\ UNCHANGED <<filled, processed, status, next, committed, settled>>
  BY DEF FillInv, TradesTyped, EngineStep, EngineRests, EngineRejects, EngineCancels, EngineMatches,
         EngineSkips, TakesCommand, db, table, consumer
<1>1. ASSUME trades' = trades, book' \in [Orders -> Nat] PROVE FillInv'
  BY <1>0, <1>1, TradesGo
<1>2. ASSUME NEW o \in Orders, EngineRests(o) PROVE FillInv'
  <2>1. trades' = trades /\ book' = [book EXCEPT ![o] = IF o \in Immediate THEN 0 ELSE Qty[o]]
    BY <1>2 DEF EngineRests, Rests
  <2>2. Qty[o] \in Nat
    BY OrderAssumption
  <2> QED BY <1>0, <1>1, <2>1, <2>2
<1>3. ASSUME NEW o \in Orders, NEW m \in Orders, EngineMatches(o, m) PROVE FillInv'
  <2> DEFINE q   == IF book[m] < Qty[o] THEN book[m] ELSE Qty[o]
             buy == IF Side[o] = "BUY" THEN o ELSE m
             t   == [buy |-> buy, sell |-> IF buy = o THEN m ELSE o, qty |-> q, state |-> "executed"]
  <2>1. trades' = Append(trades, t) /\ Rests(o, Qty[o] - q, [book EXCEPT ![m] = @ - q])
    BY <1>3 DEF EngineMatches
  <2>2. q \in Nat /\ Qty[o] - q \in Nat /\ book[m] - q \in Nat
    BY <1>0, OrderAssumption
  <2>3. t \in Deals
    BY <2>2 DEF Deals
  <2> HIDE DEF t, q
  <2>4. book' = [[book EXCEPT ![m] = @ - q] EXCEPT ![o] = IF o \in Immediate THEN 0 ELSE Qty[o] - q]
    BY <2>1 DEF Rests
  <2>5. book' \in [Orders -> Nat]
    BY <1>0, <2>2, <2>4
  <2> QED BY <1>0, <2>1, <2>3, <2>5, OneMore
<1>4. ASSUME NEW o \in Orders, EngineCancels(o) PROVE FillInv'
  BY <1>0, <1>1, <1>4 DEF EngineCancels
<1>5. ASSUME NEW o \in Orders, EngineRejects(o) PROVE FillInv'
  BY <1>0, <1>1, <1>5 DEF EngineRejects
<1>6. ASSUME NEW e \in Events, EngineSkips(e) PROVE FillInv'
  BY <1>0, <1>1, <1>6 DEF EngineSkips
<1> QED BY <1>2, <1>3, <1>4, <1>5, <1>6 DEF EngineStep

\* Settlement announces a trade once its funds have moved.
LEMMA SettleFill == ASSUME FillInv, NEW n \in DOMAIN trades, Settle(n) PROVE FillInv'
<1>1. trades \in Seq(Deals) /\ settled \in Seq(Nat) /\ book \in [Orders -> Nat] /\ n \in Nat
      /\ trades[n] \in Deals /\ n \in 1 .. Len(trades)
  BY DEF FillInv, TradesTyped
<1>2. UNCHANGED <<filled, processed, status, next, committed, book>>
  BY DEF Settle, db, table, consumer
<1>3. PICK s \in {"settled", "failed"} :
        /\ trades' = [trades EXCEPT ![n].state = s]
        /\ trades[n].state = "executed"
        /\ settled' = settled \/ (s = "settled" /\ settled' = Append(settled, n))
  BY DEF Settle
<1>4. [trades[n] EXCEPT !.state = s] =
        [buy |-> trades[n].buy, sell |-> trades[n].sell, qty |-> trades[n].qty, state |-> s]
  <2>1. trades[n] \in Deals
    BY <1>1
  <2> QED BY <2>1 DEF Deals
<1> DEFINE t == [buy |-> trades[n].buy, sell |-> trades[n].sell, qty |-> trades[n].qty, state |-> s]
<1>5. trades' = [trades EXCEPT ![n] = t]
  BY <1>3, <1>4
<1>6. t \in Deals /\ t.buy = trades[n].buy /\ t.sell = trades[n].sell /\ t.qty = trades[n].qty /\ t.state = s
  <2>0. trades[n] \in Deals
    BY <1>1
  <2>1. trades[n].buy \in Orders /\ trades[n].sell \in Orders /\ trades[n].qty \in Nat
    BY <2>0 DEF Deals
  <2>2. s \in {"executed", "settled", "failed"}
    OBVIOUS
  <2> QED BY <2>1, <2>2 DEF Deals
<1> HIDE DEF t
<1>7. trades' \in Seq(Deals) /\ DOMAIN trades' = DOMAIN trades /\ trades'[n] = t
      /\ \A k \in DOMAIN trades : k # n => trades'[k] = trades[k]
  BY <1>1, <1>5, <1>6
<1>8. settled' \in Seq(Nat) /\ \A k \in Range(settled') : k \in Range(settled) \/ (k = n /\ s = "settled")
  <2>1. CASE settled' = settled
    BY <1>1, <2>1
  <2>2. CASE s = "settled" /\ settled' = Append(settled, n)
    BY <1>1, <2>2 DEF Range
  <2> QED BY <1>3, <2>1, <2>2
<1>9. \A k \in DOMAIN trades : /\ k \in DOMAIN trades' /\ trades'[k].qty = trades[k].qty
                               /\ trades'[k].buy = trades[k].buy /\ trades'[k].sell = trades[k].sell
                               /\ trades[k].state = "settled" => trades'[k].state = "settled"
  BY <1>3, <1>6, <1>7
<1>10. \A k \in Range(settled') : k \in Range(settled) \/ (k \in DOMAIN trades' /\ trades'[k].state = "settled")
  BY <1>6, <1>7, <1>8
<1> QED BY <1>1, <1>2, <1>7, <1>8, <1>9, <1>10, TradesGo

\* A trade is applied to both of its orders, once: what it adds is what it traded.
LEMMA TradeFill == ASSUME IInv, FillInv, ApplyTradeFill PROVE FillInv'
<1> DEFINE n    == settled[next["trades"] + 1]
           legs == {trades[n].buy, trades[n].sell}
           qty  == trades[n].qty
<1>1. /\ next["trades"] < Len(settled) /\ next' = [next EXCEPT !["trades"] = @ + 1]
      /\ UNCHANGED <<trades, settled, book, committed>>
  BY DEF ApplyTradeFill, Fetches, Topic, engine
<1>2. next' \in [Consumers -> Nat] /\ settled \in Seq(Nat) /\ trades \in Seq(Deals) /\ next["trades"] \in Nat
  BY <1>1 DEF FillInv, TradesTyped, Consumers
<1>3. n \in DOMAIN trades /\ trades[n].state = "settled"
  <2>1. next["trades"] + 1 \in DOMAIN settled
    BY <1>1, <1>2
  <2>2. n \in Range(settled)
    BY <2>1 DEF Range
  <2> QED BY <2>2 DEF FillInv, SettledFirst
<1>4. CASE UNCHANGED <<table, processed>>
  <2>1. UNCHANGED <<filled, status, processed>>
    BY <1>4 DEF table
  <2> QED BY <1>1, <1>2, <2>1, NoFill DEF FillInv, TradesTyped
<1>5. CASE n \notin processed /\ (\A o \in legs : Fillable(o, qty)) /\ ApplyFill(n, legs)
  <2> DEFINE fill(o) == FillStatus(o, qty)
  <2>1. /\ processed' = processed \cup {n}
        /\ filled' = [o \in Orders |-> IF o \in legs THEN filled[o] + qty ELSE filled[o]]
        /\ status' = [o \in Orders |-> IF o \in legs THEN fill(o) ELSE status[o]]
    BY <1>5 DEF ApplyFill
  <2>2. \A o \in legs : /\ status[o] \in {"OPEN", "PARTIALLY_FILLED", "CANCELLING", "CANCELLED"}
                        /\ Qty[o] - filled[o] >= qty
    BY <1>5 DEF Fillable
  <2>3. \A o \in legs : /\ filled[o] + qty >= Qty[o] => fill(o) = "FILLED"
                        /\ ~(filled[o] + qty >= Qty[o]) => fill(o) \in {status[o], "PARTIALLY_FILLED"}
    BY DEF FillStatus
  <2> HIDE DEF fill
  <2>4. \A o \in legs : o \in Legs(n)
    BY DEF Legs
  <2>5. \A o \in Legs(n) : o \in legs
    BY DEF Legs
  <2>6. qty \in Nat
    <3>1. trades[n] \in Deals
      BY <1>2, <1>3
    <3> QED BY <3>1 DEF Deals
  <2>7. n \notin processed
    BY <1>5
  <2> HIDE DEF legs, qty
  <2>8. TradesTyped'
    <3>1. filled' \in [Orders -> Nat]
      BY <2>1, <2>6 DEF FillInv, TradesTyped
    <3> QED BY <1>1, <1>2, <3>1 DEF FillInv, TradesTyped
  <2>9. SettledFirst'
    <3> HIDE DEF n
    <3> QED BY <1>1, <1>3, <2>1 DEF FillInv, SettledFirst
  <2>10. FilledToTheEnd'
    <3> SUFFICES ASSUME NEW o \in Orders
                 PROVE  /\ filled'[o] <= Qty[o]
                        /\ status'[o] = "FILLED" <=> filled'[o] = Qty[o]
                        /\ status'[o] = "NONE" => filled'[o] = 0
      BY DEF FilledToTheEnd
    <3>1. filled[o] \in Nat /\ Qty[o] \in Nat
      BY OrderAssumption DEF FillInv, TradesTyped
    <3>2. CASE o \in legs
      BY <2>1, <2>2, <2>3, <2>6, <3>1, <3>2
    <3>3. CASE o \notin legs
      BY <2>1, <3>3 DEF FillInv, FilledToTheEnd
    <3> QED BY <3>2, <3>3
  <2>11. ASSUME NEW o \in Orders PROVE filled'[o] = Total(Volumes', Fills(o)')
    <3>1. Volumes' = Volumes
      BY <1>1 DEF Volumes
    <3>2. filled[o] = Total(Volumes, Fills(o))
      BY DEF FillInv, FilledByTrades
    <3>3. CASE o \in legs
      <4>1. Fills(o)' = Fills(o) \cup {n} /\ n \notin Fills(o)
        <5>1. \A k : (o \in Legs(k))' <=> o \in Legs(k)
          BY <1>1 DEF Legs
        <5>2. o \in Legs(n)
          BY <2>4, <3>3
        <5> HIDE DEF n
        <5> QED BY <2>1, <2>7, <5>1, <5>2 DEF Fills
      <4>2. IsFiniteSet(Fills(o)) /\ \A k \in Fills(o) \cup {n} : Volumes[k] \in Int
        BY <1>3, FillsFinite
      <4>3. Volumes[n] = qty
        BY <1>3 DEF Volumes, qty
      <4> HIDE DEF n
      <4>4. Total(Volumes, Fills(o) \cup {n}) = Total(Volumes, Fills(o)) + Volumes[n]
        BY <4>1, <4>2, TotalAdd
      <4> QED BY <2>1, <3>1, <3>2, <3>3, <4>1, <4>3, <4>4
    <3>4. CASE o \notin legs
      <4>1. Fills(o)' = Fills(o)
        <5>1. \A k : (o \in Legs(k))' <=> o \in Legs(k)
          BY <1>1 DEF Legs
        <5>2. o \notin Legs(n)
          BY <2>5, <3>4
        <5> HIDE DEF n
        <5> QED BY <2>1, <5>1, <5>2 DEF Fills
      <4> QED BY <2>1, <3>1, <3>2, <3>4, <4>1
    <3> QED BY <3>3, <3>4
  <2> QED BY <2>8, <2>9, <2>10, <2>11 DEF FillInv, FilledByTrades
<1> QED BY <1>4, <1>5 DEF ApplyTradeFill, table

\* The other steps of the consumers fill nothing.
LEMMA ConsumerFill == ASSUME IInv, FillInv, NEW c \in Consumers, ConsumerStep(c) PROVE FillInv'
<1>0. next \in [Consumers -> Nat] /\ committed \in [Consumers -> Nat]
  BY DEF FillInv, TradesTyped
<1>1. CASE ApplyTradeFill
  BY <1>1, TradeFill
<1>2. CASE ApplyOutcome
  <2> DEFINE o   == outcomes[next["cancels"] + 1][1]
             end == Cancelled(o, outcomes[next["cancels"] + 1][2])
  <2>1. /\ next' = [next EXCEPT !["cancels"] = @ + 1]
        /\ UNCHANGED <<trades, settled, book, committed, filled, processed>>
    BY <1>2 DEF ApplyOutcome, Fetches, engine
  <2>2. next' \in [Consumers -> Nat]
    BY <1>0, <2>1 DEF Consumers
  <2>3. CASE Cancellable(o)
    <3>1. status' = [status EXCEPT ![o] = end] /\ status[o] \in Live
      BY <1>2, <2>3 DEF ApplyOutcome, Cancellable
    <3>2. o \in Orders => end = "CANCELLED"
      <4>1. SUFFICES ASSUME o \in Orders PROVE end = "CANCELLED"
        OBVIOUS
      <4>2. filled[o] < Qty[o]
        <5>1. filled[o] <= Qty[o] /\ filled[o] # Qty[o] /\ filled[o] \in Nat /\ Qty[o] \in Nat
          BY <3>1, <4>1, OrderAssumption DEF FillInv, FilledToTheEnd, TradesTyped, Live
        <5> QED BY <5>1
      <4>3. ~(filled[o] >= Qty[o])
        BY <4>1, <4>2, OrderAssumption DEF FillInv, TradesTyped
      <4> QED BY <4>3 DEF Cancelled
    <3> HIDE DEF o, end
    <3>3. \A p \in Orders : /\ status'[p] = "FILLED" <=> status[p] = "FILLED"
                            /\ status'[p] = "NONE" => status[p] = "NONE"
      BY <3>1, <3>2 DEF IInv, Types, Live
    <3> QED BY <1>0, <2>1, <2>2, <3>3, NoFill
  <2>4. CASE ~Cancellable(o)
    <3>1. UNCHANGED status
      BY <1>2, <2>4 DEF ApplyOutcome
    <3> QED BY <1>0, <2>1, <2>2, <3>1, NoFill
  <2> QED BY <2>3, <2>4
<1>3. CASE MessageFails(c)
  <2>1. next' = [next EXCEPT ![c] = @ + 1] /\ UNCHANGED <<trades, settled, book, committed, filled, processed, status>>
    BY <1>3 DEF MessageFails, Fetches, engine, table
  <2>2. next' \in [Consumers -> Nat]
    BY <1>0, <2>1
  <2> QED BY <1>0, <2>1, <2>2, NoFill
<1>4. ASSUME NEW o \in Orders, ConsumerReleases(c, o) PROVE FillInv'
  <2>1. UNCHANGED <<trades, settled, book, next, committed, filled, processed, status>>
    BY <1>4 DEF ConsumerReleases, engine, table
  <2> QED BY <1>0, <2>1, NoFill
<1>5. CASE CommitMessages(c)
  <2>1. /\ committed' = committed \/ committed' = [committed EXCEPT ![c] = next[c]]
        /\ UNCHANGED <<trades, settled, book, next, filled, processed, status>>
    BY <1>5 DEF CommitMessages, engine, db
  <2>2. committed' \in [Consumers -> Nat]
    BY <1>0, <2>1
  <2> QED BY <1>0, <2>1, <2>2, NoFill
<1> QED BY <1>1, <1>2, <1>3, <1>4, <1>5 DEF ConsumerStep

\* A request gives an order its row while nothing of it is filled.
LEMMA CreateFill == ASSUME IInv, FillInv, NEW o \in Orders, CreateStep(o) PROVE FillInv'
<1>1. UNCHANGED <<trades, settled, book, next, committed, filled, processed>>
  BY DEF CreateStep, CheckKey, Reject, ReserveFunds, ReserveLost, PersistOrder, PersistFails, Compensate,
         EnqueueRelease, db, table, consumer, engine
<1>2. UNCHANGED status \/ (request[o] = "reserved" /\ status' = [status EXCEPT ![o] = "OPEN"])
  BY DEF CreateStep, CheckKey, Reject, ReserveFunds, ReserveLost, PersistOrder, PersistFails, Compensate,
         EnqueueRelease, InsertOrder, db, table
<1>3. request[o] = "reserved" => status[o] = "NONE"
  BY DEF IInv, NothingEarly, Early
<1>4. \A p \in Orders : /\ status'[p] = "FILLED" <=> status[p] = "FILLED"
                        /\ status'[p] = "NONE" => status[p] = "NONE"
  BY <1>2, <1>3 DEF IInv, Types
<1>5. next' \in [Consumers -> Nat] /\ committed' \in [Consumers -> Nat]
  BY <1>1 DEF FillInv, TradesTyped
<1> QED BY <1>1, <1>4, <1>5, NoFill

\* Every step keeps the invariant.
LEMMA FillStep == IInv /\ FillInv /\ [Next]_vars => FillInv'
<1> SUFFICES ASSUME IInv, FillInv, [Next]_vars PROVE FillInv'
  OBVIOUS
<1>0. next \in [Consumers -> Nat] /\ committed \in [Consumers -> Nat]
  BY DEF FillInv, TradesTyped
<1>1. ASSUME UNCHANGED <<trades, settled, book, next, committed, filled, processed, status>> PROVE FillInv'
  BY <1>0, <1>1, NoFill
<1>2. CASE UNCHANGED vars
  BY <1>1, <1>2 DEF vars
<1>3. ASSUME NEW o \in Orders, CreateStep(o) PROVE FillInv'
  BY <1>3, CreateFill
<1>4. ASSUME NEW o \in Orders, CancelOrder(o) PROVE FillInv'
  <2>1. /\ status[o] \in {"OPEN", "PARTIALLY_FILLED"} /\ status' = [status EXCEPT ![o] = "CANCELLING"]
        /\ UNCHANGED <<trades, settled, book, next, committed, filled, processed>>
    BY <1>4 DEF CancelOrder, consumer, engine
  <2>2. \A p \in Orders : /\ status'[p] = "FILLED" <=> status[p] = "FILLED"
                          /\ status'[p] = "NONE" => status[p] = "NONE"
    BY <2>1 DEF IInv, Types
  <2> QED BY <1>0, <2>1, <2>2, NoFill
<1>5. ASSUME NEW o \in Orders, LiquidityEnginePublishes(o) PROVE FillInv'
  BY <1>1, <1>5 DEF LiquidityEnginePublishes, db, table, consumer
<1>6. ASSUME NEW i \in Instances, PublisherStep(i) PROVE FillInv'
  BY <1>1, <1>6 DEF PublisherStep, GetUnpublishedOutboxEvents, PublishEvent, PublishFails, db, table, consumer, engine
<1>7. ASSUME NEW c \in Consumers, ConsumerStep(c) PROVE FillInv'
  BY <1>7, ConsumerFill
<1>8. ASSUME NEW n \in DOMAIN trades, Settle(n) PROVE FillInv'
  BY <1>8, SettleFill
<1>9. CASE EngineStep
  BY <1>9, EngineFill
<1>10. CASE WorkerStep
  BY <1>1, <1>10 DEF WorkerStep, ClaimPendingWalletReleases, WorkerReleases, db, table, consumer, engine
<1>11. CASE Crash
  <2>1. /\ next' = committed
        /\ UNCHANGED <<trades, settled, book, committed, filled, processed, status>>
    BY <1>11 DEF Crash, db, engine
  <2> QED BY <1>0, <2>1, NoFill
<1> QED BY <1>2, <1>3, <1>4, <1>5, <1>6, <1>7, <1>8, <1>9, <1>10, <1>11 DEF Next

LEMMA FillStart == Init => FillInv
<1> SUFFICES ASSUME Init PROVE FillInv
  OBVIOUS
<1> USE DEF Init
<1>1. TradesTyped
  BY DEF TradesTyped
<1>2. SettledFirst
  BY DEF SettledFirst, Range
<1>3. FilledByTrades
  <2>1. \A o \in Orders : Fills(o) = {}
    BY DEF Fills
  <2> QED BY <2>1, TotalEmpty DEF FilledByTrades
<1>4. FilledToTheEnd
  BY OrderAssumption DEF FilledToTheEnd
<1> QED BY <1>1, <1>2, <1>3, <1>4 DEF FillInv

\* An order is filled by exactly what its processed trades traded, all of them settled, and
\* FILLED when nothing remains, for any redeliveries, lost calls and crashes (ApplyTradeFill).
THEOREM FillsCountOnce == Spec => []FilledOnce
<1>1. IInv /\ FillInv /\ [Next]_vars => (IInv /\ FillInv)'
  BY StepInv, FillStep
<1>2. Spec => [](IInv /\ FillInv)
  BY <1>1, InitInv, FillStart, PTL DEF Spec
<1> QED BY <1>2, FillsAreFilledOnce, PTL

\* A step that changes no status and no fill undoes none.
LEMMA EndsKeep ==
  ASSUME IInv, FillInv, NEW o \in Orders, Next
  PROVE  /\ status[o] = "FILLED" => status'[o] = "FILLED"
         /\ status[o] = "CANCELLED" => status'[o] \in Terminal
         /\ filled'[o] >= filled[o]
<1> DEFINE Goal == /\ status[o] = "FILLED" => status'[o] = "FILLED"
                   /\ status[o] = "CANCELLED" => status'[o] \in Terminal
                   /\ filled'[o] >= filled[o]
<1>0. /\ filled[o] \in Nat /\ Qty[o] \in Nat /\ status \in [Orders -> {"NONE"} \cup Live \cup Terminal]
      /\ filled[o] >= filled[o]
  BY OrderAssumption DEF IInv, Types, FillInv, TradesTyped
<1> HIDE DEF Goal
<1>1. ASSUME UNCHANGED filled, UNCHANGED status PROVE Goal
  BY <1>0, <1>1 DEF Terminal, Goal
<1>7. ASSUME UNCHANGED table PROVE Goal
  BY <1>1, <1>7 DEF table
<1>2. ASSUME NEW p \in Orders, CreateStep(p) PROVE Goal
  <2>1. UNCHANGED filled
    BY <1>2 DEF CreateStep, CheckKey, Reject, ReserveFunds, ReserveLost, PersistOrder, PersistFails, Compensate,
         EnqueueRelease, db, table
  <2>2. UNCHANGED status \/ (request[p] = "reserved" /\ status' = [status EXCEPT ![p] = "OPEN"])
    BY <1>2 DEF CreateStep, CheckKey, Reject, ReserveFunds, ReserveLost, PersistOrder, PersistFails, Compensate,
         EnqueueRelease, InsertOrder, db, table
  <2>3. request[p] = "reserved" => status[p] = "NONE"
    BY DEF IInv, NothingEarly, Early
  <2>4. status[o] \in Terminal => status'[o] = status[o]
    BY <1>0, <2>2, <2>3 DEF Terminal
  <2> QED BY <1>0, <2>1, <2>4 DEF Goal, Terminal
<1>3. ASSUME NEW p \in Orders, CancelOrder(p) PROVE Goal
  <2>1. /\ status[p] \in {"OPEN", "PARTIALLY_FILLED"} /\ status' = [status EXCEPT ![p] = "CANCELLING"]
        /\ UNCHANGED filled
    BY <1>3 DEF CancelOrder
  <2>2. status[o] \in Terminal => status'[o] = status[o]
    BY <1>0, <2>1 DEF Terminal
  <2> QED BY <1>0, <2>1, <2>2 DEF Goal, Terminal
<1>4. ASSUME ApplyOutcome PROVE Goal
  <2> DEFINE p == outcomes[next["cancels"] + 1][1]
  <2>1. UNCHANGED filled /\ (UNCHANGED status \/ (Cancellable(p) /\ \E end : status' = [status EXCEPT ![p] = end]))
    BY <1>4 DEF ApplyOutcome
  <2>2. Cancellable(p) => status[p] \in Live
    BY DEF Cancellable
  <2> HIDE DEF p
  <2>3. status[o] \in Terminal => status'[o] = status[o]
    BY <1>0, <2>1, <2>2 DEF Terminal, Live
  <2> QED BY <1>0, <2>1, <2>3 DEF Goal, Terminal
<1>5. ASSUME ApplyTradeFill PROVE Goal
  <2> DEFINE n    == settled[next["trades"] + 1]
             legs == {trades[n].buy, trades[n].sell}
             qty  == trades[n].qty
             fill(q) == FillStatus(q, qty)
  <2>1. \/ UNCHANGED table
        \/ (\A q \in legs : Fillable(q, qty)) /\ ApplyFill(n, legs)
    BY <1>5 DEF ApplyTradeFill
  <2>2. CASE UNCHANGED table
    BY <1>7, <2>2
  <2>3. CASE (\A q \in legs : Fillable(q, qty)) /\ ApplyFill(n, legs)
    <3>1. /\ filled' = [q \in Orders |-> IF q \in legs THEN filled[q] + qty ELSE filled[q]]
          /\ status' = [q \in Orders |-> IF q \in legs THEN fill(q) ELSE status[q]]
      BY <2>3 DEF ApplyFill
    <3>2. o \in legs => status[o] # "FILLED"
      BY <2>3 DEF Fillable
    <3>3. status[o] = "CANCELLED" => fill(o) \in {"FILLED", "CANCELLED"}
      BY DEF FillStatus
    <3>4. qty \in Nat
      <4>1. next["trades"] + 1 \in DOMAIN settled
        BY <1>5 DEF ApplyTradeFill, Fetches, Topic, FillInv, TradesTyped, Consumers
      <4>2. n \in DOMAIN trades
        <5>1. n \in Range(settled)
          BY <4>1 DEF Range
        <5> QED BY <5>1 DEF FillInv, SettledFirst
      <4>3. trades[n] \in Deals
        BY <4>2 DEF FillInv, TradesTyped
      <4> QED BY <4>3 DEF Deals
    <3> HIDE DEF fill, legs, qty
    <3> QED BY <1>0, <3>1, <3>2, <3>3, <3>4 DEF Goal, Terminal
  <2> QED BY <2>1, <2>2, <2>3
<1>6. ASSUME NEW c \in Consumers, ConsumerStep(c) PROVE Goal
  <2>1. ApplyTradeFill \/ ApplyOutcome \/ UNCHANGED table
    BY <1>6 DEF ConsumerStep, MessageFails, ConsumerReleases, CommitMessages, db, table
  <2> QED BY <1>4, <1>5, <1>7, <2>1
<1>8. ASSUME NEW p \in Orders, LiquidityEnginePublishes(p) PROVE Goal
  BY <1>7, <1>8 DEF LiquidityEnginePublishes, db, table
<1>9. ASSUME NEW i \in Instances, PublisherStep(i) PROVE Goal
  BY <1>7, <1>9 DEF PublisherStep, GetUnpublishedOutboxEvents, PublishEvent, PublishFails, db, table
<1>10. ASSUME NEW n \in DOMAIN trades, Settle(n) PROVE Goal
  BY <1>7, <1>10 DEF Settle, db, table
<1>11. ASSUME EngineStep PROVE Goal
  BY <1>7, <1>11 DEF EngineStep, EngineRests, EngineRejects, EngineCancels, EngineMatches, EngineSkips,
                     TakesCommand, db, table
<1>12. ASSUME WorkerStep PROVE Goal
  BY <1>7, <1>12 DEF WorkerStep, ClaimPendingWalletReleases, WorkerReleases, db, table
<1>13. ASSUME Crash PROVE Goal
  BY <1>7, <1>13 DEF Crash, db, table
<1>14. Goal
  BY <1>2, <1>3, <1>6, <1>8, <1>9, <1>10, <1>11, <1>12, <1>13 DEF Next
<1> QED BY <1>14 DEF Goal

\* FILLED is final, CANCELLED only gives way to the last fill, and no fill is undone by a
\* late answer of a cancel, in any interleaving of the two consumers (ApplyTradeFill,
\* MarkOrderCancelled).
THEOREM EndsAreKept == Spec => EndsStay
<1> DEFINE Steady == \A o \in Orders :
             /\ status[o] = "FILLED" => status'[o] = "FILLED"
             /\ status[o] = "CANCELLED" => status'[o] \in Terminal
             /\ filled'[o] >= filled[o]
<1>1. IInv /\ FillInv /\ [Next]_vars => (IInv /\ FillInv)'
  BY StepInv, FillStep
<1>2. Spec => [](IInv /\ FillInv)
  BY <1>1, InitInv, FillStart, PTL DEF Spec
<1>3. IInv /\ FillInv /\ [Next]_vars => [Steady]_vars
  BY EndsKeep
<1> QED BY <1>2, <1>3, PTL DEF Spec, EndsStay
=============================================================================

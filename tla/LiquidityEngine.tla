--------------------------- MODULE LiquidityEngine ---------------------------
(***************************************************************************)
(* The market maker of one market, ask side (services/liquidity-engine):   *)
(* the tracker of its orders, the reconciler that compares them with the   *)
(* matching engine and the order service, and the event loop that runs the *)
(* handlers one at a time.                                                 *)
(*                                                                         *)
(* A level of the ladder holds at most one tracked order.  Each order of a *)
(* level has a generation, and <<level, generation>> is its client order   *)
(* id, which the order service takes as the idempotency key.  The engine   *)
(* registers an order with the order service, then publishes OrderCreated  *)
(* itself; a cancellation goes both ways.                                  *)
(*                                                                         *)
(* A handler is a function of the engine's world, a record of what it      *)
(* reads and writes, folded over the levels.  Between the snapshot a       *)
(* reconciliation reads and what it does with it, the matching engine and  *)
(* the order service go on.  Ages (pending and cancelling timeouts, the    *)
(* grace period, cooldowns, lifetimes) are a choice of the levels due.     *)
(***************************************************************************)
EXTENDS Naturals, Sequences, FiniteSets, FiniteSetsExt, Functions, SequencesExt, TLC

CONSTANTS
  Low, Mid, High,      \* levels of the three zones
  QtyPerLevel, MinOrderSize, LotSize,
  MaxAskExposure,      \* MaxAskExposureBase
  MinBase, CriticalBase, Base,  \* inventory tiers, and the wallet's base balance
  RefPrices,           \* the reference prices
  SmallBps, LargeBps,
  MaxBatch,
  CancelRetryLimit,
  LivenessThreshold,
  Window,              \* rows GetOrderByClientID looks at (100)
  MaxGen, MaxQueue, MaxUpsets  \* bounds: generations, commands, disturbances

ASSUME SizeAssumption ==
  /\ {Low, Mid, High, QtyPerLevel, MinOrderSize, LotSize} \subseteq Nat
  /\ Low + Mid + High > 0 /\ QtyPerLevel > 0 /\ LotSize > 0
ASSUME PriceAssumption == RefPrices \subseteq Nat \ {0}

LevelCount == Low + Mid + High
Levels == 1 .. LevelCount
Ids    == Levels \X (1 .. MaxGen)

VARIABLES
  tracker,      \* the tracked order of each level that has one
  generations,  \* last generation of each level
  missing,      \* missingCycles
  notFound,     \* notFoundCount
  refState,     \* RefState of the market
  orphans,      \* orphanCancelInFlight
  engine,       \* [state, timeouts, snap, count]: the event loop
  os,           \* rows of the order service
  outbox,       \* its OrderCancelRequested rows still to publish
  commands,     \* orders.commands not yet consumed
  book,         \* quantity each order has in the matching engine
  alive,        \* the matching engine answers
  trades,       \* trades.executed: the order of each trade, quantity 1
  outcomes,     \* orders.cancelled.v1
  pos,          \* trades handled by the engine, trades and outcomes by the service
  ref,          \* the reference: [price, version, freshness]
  blind,        \* a start went without the generations
  upsets        \* failures, crashes, trades and changes of the reference so far

memory == <<tracker, generations, missing, notFound, refState, orphans>>
remote == <<os, outbox, commands>>
vars   == <<tracker, generations, missing, notFound, refState, orphans, engine,
            os, outbox, commands, book, alive, trades, outcomes, pos, ref, blind,
            upsets>>

-----------------------------------------------------------------------------
(***************************************************************************)
(* The ladder.                                                             *)
(***************************************************************************)
AtMost(a, b) == IF a < b THEN a ELSE b

\* ResolveZoneForLevel.
Zone(l) == CASE l <= Low -> "LOW" [] l <= Low + Mid -> "MID" [] OTHER -> "HIGH"

\* AllocateZones fills LOW, then MID, then HIGH: the first levels stay.
AllocateZones(count) == 1 .. AtMost(count, LevelCount)

\* ComputeSkew.
AskCount(effective) == CASE effective <= CriticalBase -> 0
                         [] effective <= MinBase -> LevelCount \div 2
                         [] OTHER -> LevelCount

Bps(prev, new) == ((IF new > prev THEN new - prev ELSE prev - new) * 10000) \div prev

ClassifyMovement(prev, new, freshness) ==
  CASE freshness = "STALE"  -> "HOLD"
    [] freshness = "PAUSED" -> "PAUSE"
    [] prev = 0             -> "KEEP"
    [] Bps(prev, new) < SmallBps -> "KEEP"
    [] Bps(prev, new) < LargeBps -> "SELECTIVE"
    [] OTHER -> "REBASE"

\* resolveReplacementQuantity; 0 stands for no replacement.
ResolveReplacementQuantity(desired, remaining, original) ==
  LET rest == IF original > 0 THEN AtMost(remaining, original) ELSE remaining
      qty  == IF desired = 0 THEN rest ELSE AtMost(desired, rest)
      lots == qty - (qty % LotSize)
  IN IF remaining = 0 \/ lots < MinOrderSize \/ lots < LotSize THEN 0 ELSE lots

-----------------------------------------------------------------------------
(***************************************************************************)
(* The tracker.  An order: [gen, status, qty, rem, version, published,     *)
(* retries, queued], queued being the replacement, or NoLevel.             *)
(***************************************************************************)
Active    == {"RESTING", "OS_REGISTERED", "PENDING"}
NoLevel   == [qty |-> 0, version |-> 0]
Id(w, l)  == <<l, w.tracker[l].gen>>
Tracked(w, l) == l \in DOMAIN w.tracker
With(w, l, status) == Tracked(w, l) /\ w.tracker[l].status = status

SetPending(w, l, g, level) ==
  [w EXCEPT !.generations[l] = IF g > @ THEN g ELSE @,
            !.tracker = (l :> [gen |-> g, status |-> "PENDING", qty |-> level.qty,
                               rem |-> level.qty, version |-> level.version,
                               published |-> FALSE, retries |-> 0, queued |-> NoLevel]) @@ @]

SetStatus(w, l, status) == [w EXCEPT !.tracker[l].status = status]

SetOSRegistered(w, l, row) ==
  [w EXCEPT !.tracker[l].status = "OS_REGISTERED", !.tracker[l].qty = row.qty,
            !.tracker[l].rem = row.rem]

SetResting(w, l, rem) ==
  [w EXCEPT !.tracker[l].status = "RESTING", !.tracker[l].rem = rem]

SetCancelling(w, l) ==
  [w EXCEPT !.tracker[l].status = "CANCELLING", !.tracker[l].retries = 0]

QueueCorrection(w, l, level) == [w EXCEPT !.tracker[l].queued = level]

\* removeTrackedOrder.
RemoveTracked(w, l) ==
  [w EXCEPT !.tracker = Restrict(@, DOMAIN @ \ {l}),
            !.missing[l] = 0, !.notFound[l] = 0]

CommittedBase(w) ==
  MapThenSumSet(LAMBDA l : IF w.tracker[l].status \in Active THEN w.tracker[l].rem ELSE 0, DOMAIN w.tracker)

-----------------------------------------------------------------------------
(***************************************************************************)
(* The calls.  At most one call of a handler goes wrong: bad names the     *)
(* level, the call ("os", "kafka", or "price" for a price that cannot be   *)
(* found) and whether the other side did its part all the same.            *)
(***************************************************************************)
NoFault == [level |-> 0, call |-> "none", done |-> TRUE]
Faults  == {NoFault} \cup [level : Levels, call : {"os", "kafka"}, done : BOOLEAN]
                     \cup [level : Levels, call : {"price"}, done : {FALSE}]
Fails(bad, l, call) == bad.level = l /\ bad.call = call
Reaches(bad, l, call) == ~Fails(bad, l, call) \/ bad.done

NoRow == [status |-> "NONE", qty |-> 0, rem |-> 0, version |-> 0, at |-> 0]
Rows(w) == {id \in Ids : w.os[id].status # "NONE"}

\* CreateOrder of the order service for the market maker: no reservation, no
\* outbox row; a key it knows is answered with its row, or refused.
Registers(w, id, level, bad) ==
  IF w.os[id].status = "NONE" /\ Reaches(bad, id[1], "os")
  THEN [w EXCEPT !.os[id] = [status |-> "OPEN", qty |-> level.qty, rem |-> level.qty,
                             version |-> level.version, at |-> Cardinality(Rows(w))]]
  ELSE w

Registered(w, id, level, bad) ==
  /\ ~Fails(bad, id[1], "os")
  /\ \/ w.os[id].status = "NONE"
     \/ w.os[id].qty = level.qty /\ w.os[id].version = level.version

\* CancelOrder of the order service.
CancelMMOrder(w, id, bad) ==
  IF w.os[id].status \in {"OPEN", "PARTIALLY_FILLED"} /\ Reaches(bad, id[1], "os")
  THEN [w EXCEPT !.os[id].status = "CANCELLING", !.outbox = @ \cup {id}]
  ELSE w

\* GetOrderByClientID searches the newest rows only.
Found(w, id) ==
  /\ w.os[id].status # "NONE"
  /\ Cardinality({i \in Rows(w) : w.os[i].at > w.os[id].at}) < Window

Publish(w, type, id, bad) ==
  IF Reaches(bad, id[1], "kafka")
  THEN [w EXCEPT !.commands = Append(@, <<type, id>>)] ELSE w

\* PublishCreate, and SetKafkaPublished if it is acknowledged.
PublishCreate(w, l, bad) ==
  LET sent == Publish(w, "create", Id(w, l), bad)
  IN IF Fails(bad, l, "kafka") THEN sent
     ELSE [sent EXCEPT !.tracker[l].published = TRUE]

-----------------------------------------------------------------------------
(***************************************************************************)
(* dispatch.go.                                                            *)
(***************************************************************************)
AllowsNewLiquidity == ref.freshness = "FRESH"

CanCreateLevel(w, level) ==
  /\ level.qty > 0 /\ level.qty >= MinOrderSize /\ level.qty >= LotSize
  /\ MaxAskExposure = 0 \/ CommittedBase(w) + level.qty <= MaxAskExposure

\* NextGeneration, CreateMMOrder, SetPending, PublishCreate.  A generation whose
\* registration fails is lost, and with it the row if there is one.
Creates(w, l, level, bad) ==
  LET id    == <<l, w.generations[l] + 1>>
      taken == Registers([w EXCEPT !.generations[l] = @ + 1], id, level, bad)
  IN IF ~Registered(w, id, level, bad) THEN taken
     ELSE PublishCreate(SetPending(taken, l, id[2], level), l, bad)

ApplyCreate(w, l, level, bad) ==
  IF AllowsNewLiquidity /\ CanCreateLevel(w, level) /\ w.generations[l] < MaxGen
  THEN Creates(w, l, level, bad) ELSE w

ApplyCancel_ServiceOnly(w, l, bad) ==
  SetCancelling(CancelMMOrder(w, Id(w, l), bad), l)

\* The order service is asked first, and its answer does not matter.
ApplyCancel(w, l, bad) ==
  LET sent == Publish(CancelMMOrder(w, Id(w, l), bad), "cancel", Id(w, l), bad)
  IN IF Fails(bad, l, "kafka") THEN sent ELSE SetCancelling(sent, l)

\* A cancellation, and the replacement for what the tracker says is left.
ApplyCorrect(w, l, level, bad) ==
  LET o    == w.tracker[l]
      qty  == ResolveReplacementQuantity(level.qty, o.rem, o.qty)
      sent == ApplyCancel(w, l, bad)
  IN IF qty = 0 \/ Fails(bad, l, "kafka") THEN sent
     ELSE QueueCorrection(sent, l, [level EXCEPT !.qty = qty])

\* The queued replacement of an order that is gone, rem of it unfilled.
Replaces(w, l, o, rem, bad) ==
  LET qty == ResolveReplacementQuantity(o.queued.qty, rem, o.qty)
  IN IF o.queued = NoLevel \/ rem = 0 \/ qty = 0 THEN RemoveTracked(w, l)
     ELSE ApplyCreate(RemoveTracked(w, l), l, [o.queued EXCEPT !.qty = qty], bad)

-----------------------------------------------------------------------------
(***************************************************************************)
(* sync.go: the order service's list.                                      *)
(***************************************************************************)
Listed(w) == {id \in Ids : w.os[id].status \in {"OPEN", "PARTIALLY_FILLED"}}
Newest(S, l) == Max({id[2] : id \in {i \in S : i[1] = l}})

\* SyncFromOrders for one level with a listed row.
Adopts(w, l) ==
  LET g   == Newest(Listed(w), l)
      row == w.os[<<l, g>>]
      o   == w.tracker[l]
  IN CASE ~Tracked(w, l) /\ row.rem > 0 ->
            [w EXCEPT !.generations[l] = IF g > @ THEN g ELSE @,
                      !.tracker = (l :> [gen |-> g, status |-> "OS_REGISTERED",
                                         qty |-> row.qty, rem |-> row.rem, version |-> 0,
                                         published |-> TRUE, retries |-> 0,
                                         queued |-> NoLevel]) @@ @]
       [] ~Tracked(w, l) -> [w EXCEPT !.generations[l] = IF g > @ THEN g ELSE @]
       [] g < o.gen -> w
       [] OTHER ->
            [w EXCEPT !.generations[l] = IF g > o.gen THEN g ELSE @,
                      !.tracker[l].gen = g, !.tracker[l].qty = row.qty,
                      !.tracker[l].rem = row.rem,
                      !.tracker[l].status = IF @ = "PENDING" THEN "OS_REGISTERED" ELSE @]

\* A tracked order whose level has no listed row.
Drops(w, l, bad) ==
  CASE w.tracker[l].status \in {"RESTING", "OS_REGISTERED", "STALE"} -> RemoveTracked(w, l)
    [] w.tracker[l].status = "CANCELLING" ->
         Replaces(w, l, w.tracker[l], w.tracker[l].rem, bad)
    [] OTHER -> w

Recovered_OpenOnly(w) ==
  [w EXCEPT !.generations = [l \in Levels |-> Max({w.generations[l]} \cup
                                {id[2] : id \in {i \in Listed(w) : i[1] = l}})]]

\* RecoverHighestGenerations: the newest generation of a level, whatever its status.
Recovered(w) ==
  [w EXCEPT !.generations = [l \in Levels |-> Max({w.generations[l]} \cup
                                {id[2] : id \in {i \in Rows(w) : i[1] = l}})]]

\* The lists are read before any level is handled.
SyncFromOrderService(w, order, recovered, bad) ==
  LET listed == {id[1] : id \in Listed(w)}
      start  == IF recovered THEN Recovered(w) ELSE w
      synced == FoldLeft(LAMBDA u, l : IF l \in listed THEN Adopts(u, l) ELSE u,
                         start, order)
  IN FoldLeft(LAMBDA u, l : IF Tracked(synced, l) /\ l \notin listed
                            THEN Drops(u, l, bad) ELSE u, synced, order)

(***************************************************************************)
(* sync.go: the matching engine's snapshot.                                *)
(***************************************************************************)
Confirms(w, id, rem) ==
  IF w.tracker[id[1]].status \in {"CANCELLING", "STALE"} THEN w
  ELSE [SetResting(w, id[1], rem) EXCEPT !.missing[id[1]] = 0, !.notFound[id[1]] = 0]

CancelsOrphan_ServiceOnly(w, id, due, bad) ==
  IF id \in w.orphans /\ id[1] \notin due THEN w
  ELSE [CancelMMOrder(w, id, bad) EXCEPT !.orphans = @ \cup {id}]

\* An order that rests and is not the tracked one.
CancelsOrphan(w, id, due, bad) ==
  LET sent == Publish(CancelMMOrder(w, id, bad), "cancel", id, bad)
  IN CASE id \in w.orphans /\ id[1] \notin due -> w
       [] Fails(bad, id[1], "kafka") -> sent
       [] OTHER -> [sent EXCEPT !.orphans = @ \cup {id}]

\* Not in the matching engine: ask the order service.
HandleMissing(w, l, bad) ==
  LET id     == Id(w, l)
      status == w.os[id].status
      twice  == w.notFound[l] + 1 >= 2
  IN CASE Fails(bad, l, "os") /\ ~bad.done -> w
       [] ~Found(w, id) -> IF twice THEN RemoveTracked(w, l) ELSE [w EXCEPT !.notFound[l] = @ + 1]
       [] status \in {"FILLED", "CANCELLED"} -> RemoveTracked(w, l)
       [] OTHER -> SetCancelling(Publish(CancelMMOrder([w EXCEPT !.notFound[l] = 0], id, bad),
                                         "cancel", id, bad), l)

\* The second cycle in a row without the order acts on it.
CountsMissing(w, l, due, bad) ==
  CASE l \notin due -> w
    [] w.missing[l] + 1 < 2 -> [w EXCEPT !.missing[l] = @ + 1]
    [] OTHER -> [HandleMissing(w, l, bad) EXCEPT !.missing[l] = 0]

SyncWithMESnapshot(w, snap, order, due, bad) ==
  LET each(u, l) ==
        FoldLeft(LAMBDA v, id : IF Tracked(v, l) /\ Id(v, l) = id
                                THEN Confirms(v, id, snap[id])
                                ELSE CancelsOrphan(v, id, due, bad),
                 u, SetToSeq({id \in DOMAIN snap : id[1] = l}))
      seen == FoldLeft(each, w, order)
      pruned == [seen EXCEPT !.orphans = @ \cap DOMAIN snap]
  IN FoldLeft(LAMBDA u, l : IF /\ With(u, l, "RESTING") \/ With(u, l, "OS_REGISTERED")
                               /\ Id(u, l) \notin DOMAIN snap
                            THEN CountsMissing(u, l, due, bad) ELSE u, pruned, order)

-----------------------------------------------------------------------------
(***************************************************************************)
(* timeouts.go.                                                            *)
(***************************************************************************)
AsksPending(w, l, bad) ==
  LET row == w.os[Id(w, l)]
      was == [w EXCEPT !.notFound[l] = 0]
  IN CASE Fails(bad, l, "os") -> w
       [] ~Found(w, Id(w, l)) -> [w EXCEPT !.notFound[l] = AtMost(@ + 1, 3)]
       [] row.status \in {"OPEN", "PARTIALLY_FILLED"} -> SetOSRegistered(was, l, row)
       [] row.status \in {"FILLED", "CANCELLED"} -> RemoveTracked(was, l)
       [] OTHER -> was

\* An unacknowledged create is published again before the order service is asked.
CheckPending(w, l, bad) ==
  CASE w.tracker[l].published -> AsksPending(w, l, bad)
    [] Fails(bad, l, "kafka") -> PublishCreate(w, l, bad)
    [] OTHER -> AsksPending(PublishCreate(w, l, bad), l, bad)

RetryCancelOrStale(w, l, bad) ==
  CASE w.tracker[l].retries >= CancelRetryLimit -> SetStatus(w, l, "STALE")
    [] Fails(bad, l, "kafka") -> Publish(w, "cancel", Id(w, l), bad)
    [] OTHER -> [Publish(w, "cancel", Id(w, l), bad) EXCEPT !.tracker[l].retries = @ + 1]

\* An order that is not found counts as CANCELLED with what the tracker has left.
HandleCancellingTimeout(w, l, bad) ==
  LET o   == w.tracker[l]
      row == w.os[Id(w, l)]
  IN CASE Fails(bad, l, "os") /\ ~bad.done -> w
       [] ~Found(w, Id(w, l)) -> Replaces(w, l, o, o.rem, bad)
       [] row.status = "CANCELLED" -> Replaces(w, l, o, row.rem, bad)
       [] row.status = "FILLED" \/ (row.status = "PARTIALLY_FILLED" /\ row.rem = 0) ->
            RemoveTracked(w, l)
       [] OTHER -> RetryCancelOrStale(w, l, bad)

\* ConfirmRestingFromSnapshot.
ConfirmResting(w, l) ==
  IF (With(w, l, "PENDING") \/ With(w, l, "OS_REGISTERED")) /\ book[Id(w, l)] > 0
  THEN [SetResting(w, l, book[Id(w, l)]) EXCEPT !.notFound[l] = 0] ELSE w

-----------------------------------------------------------------------------
(***************************************************************************)
(* expiry.go and reprice.go.                                               *)
(***************************************************************************)
\* CheckConsumedOrders: half of the order or more is gone, or dust is left.
Consumed(o) == 2 * o.rem <= o.qty \/ o.rem < MinOrderSize

CheckConsumed(w, l, due, bad) ==
  IF /\ AllowsNewLiquidity
     /\ l \in due /\ With(w, l, "RESTING") /\ Consumed(w.tracker[l])
  THEN ApplyCancel(w, l, bad) ELSE w

\* Cancels the order, and queues the rest of it at a new price.
Reprices(w, l, version, bad) ==
  IF /\ Fails(bad, l, "price")
     /\ ResolveReplacementQuantity(w.tracker[l].rem, w.tracker[l].rem, w.tracker[l].qty) > 0
  THEN w
  ELSE ApplyCorrect(w, l, [qty |-> w.tracker[l].rem, version |-> version], bad)

CheckExpired(w, l, due, bad) ==
  IF AllowsNewLiquidity /\ l \in due /\ With(w, l, "RESTING")
  THEN Reprices(w, l, ref.version, bad) ELSE w

Candidates(w) ==
  {l \in Levels : /\ With(w, l, "RESTING") /\ w.tracker[l].version < w.refState.version
                  /\ w.refState.action = "REBASE" \/ Zone(l) \in {"MID", "HIGH"}}

\* A rebase goes by level, LOW first; a selective one HIGH first, then MID.
Batch(w, order) ==
  LET rank == IF w.refState.action = "REBASE" THEN [i \in 1 .. LevelCount |-> i]
              ELSE SelectSeq(order, LAMBDA l : Zone(l) = "HIGH")
                   \o SelectSeq(order, LAMBDA l : Zone(l) = "MID")
      all  == SelectSeq(rank, LAMBDA l : l \in Candidates(w))
  IN SubSeq(all, 1, AtMost(MaxBatch, Len(all)))

\* Orders that will not have the new price when what is under way is done.
Older(w) ==
  {l \in DOMAIN w.tracker :
     LET o == w.tracker[l] IN
     /\ w.refState.action = "REBASE" \/ Zone(l) # "LOW"
     /\ \/ o.status \in {"PENDING", "OS_REGISTERED", "STALE"} /\ o.version < w.refState.version
        \/ o.status = "CANCELLING" /\ o.queued.version < w.refState.version}

\* applyRefMovementReprice: a batch, and the end of the movement if nothing is left.
ApplyRefMovement(w, order, bad) ==
  LET done == FoldLeft(LAMBDA u, l : Reprices(u, l, u.refState.version, bad),
                       w, Batch(w, order))
      left == {l \in Candidates(w) : done.tracker[l] = w.tracker[l]}
  IN IF left = {} /\ Older(done) = {}
     THEN [done EXCEPT !.refState =
             [@ EXCEPT !.on = FALSE, !.reprice = w.refState.target,
                       !.active = IF w.refState.action = "REBASE"
                                  THEN w.refState.target ELSE @]]
     ELSE done

\* The action of ReconcileMarket.
Movement(w) ==
  LET base == ClassifyMovement(w.refState.active, ref.price, ref.freshness)
  IN IF ref.freshness # "FRESH" \/ base = "REBASE" THEN base
     ELSE IF ClassifyMovement(w.refState.reprice, ref.price, ref.freshness) = "KEEP"
          THEN "KEEP" ELSE "SELECTIVE"

\* A movement starts, or follows the newest reference while it lasts.
Follows(w, action) ==
  CASE action \in {"REBASE", "SELECTIVE"} ->
         [w EXCEPT !.refState = [@ EXCEPT !.on = TRUE, !.target = ref.price,
                                          !.version = ref.version, !.action = action]]
    [] w.refState.on /\ ref.version > w.refState.version ->
         [w EXCEPT !.refState = [@ EXCEPT !.target = ref.price, !.version = ref.version]]
    [] OTHER -> w

\* order.Diff and applyEntry for one level; the price of an active level is kept.
ApplyDiff(w, l, desired, hold, bad) ==
  LET o     == w.tracker[l]
      fresh == [qty |-> QtyPerLevel, version |-> ref.version]
  IN CASE ~Tracked(w, l) -> IF l \in desired /\ ~hold THEN ApplyCreate(w, l, fresh, bad) ELSE w
       [] o.status # "RESTING" -> w
       [] l \notin desired -> ApplyCancel(w, l, bad)
       [] o.rem < MinOrderSize -> ApplyCorrect(w, l, [qty |-> o.qty, version |-> o.version], bad)
       [] OTHER -> w

\* Prices are generated before the diff: one that fails ends the cycle.
Diff(w, desired, order, hold, bad) ==
  IF \E l \in desired : /\ Fails(bad, l, "price")
                        /\ ~(Tracked(w, l) /\ w.tracker[l].status \in Active)
  THEN w
  ELSE FoldLeft(LAMBDA u, l : ApplyDiff(u, l, desired, hold, bad), w, order)

Reconciled(w, snap, count, order, due, bad) ==
  LET action == Movement(w)
      start  == [w EXCEPT !.refState.active = IF @ = 0 THEN ref.price ELSE @,
                          !.refState.reprice = IF @ = 0 THEN ref.price ELSE @]
      synced == SyncWithMESnapshot(start, snap, order, due, bad)
      moved  == IF ref.freshness = "FRESH" THEN Follows(synced, action) ELSE synced
      priced == IF ref.freshness = "FRESH" /\ moved.refState.on
                THEN ApplyRefMovement(moved, order, bad) ELSE moved
  IN IF action = "PAUSE" THEN start
     ELSE Diff(priced, AllocateZones(count), order, action = "HOLD", bad)

-----------------------------------------------------------------------------
(***************************************************************************)
(* The event loop.                                                         *)
(***************************************************************************)
World == [tracker |-> tracker, generations |-> generations, missing |-> missing,
          notFound |-> notFound, refState |-> refState, orphans |-> orphans, os |-> os,
          outbox |-> outbox, commands |-> commands]

Becomes(w) ==
  /\ tracker' = w.tracker /\ generations' = w.generations /\ missing' = w.missing
  /\ notFound' = w.notFound /\ refState' = w.refState /\ orphans' = w.orphans
  /\ os' = w.os /\ outbox' = w.outbox /\ commands' = w.commands

outside == <<book, alive, trades, outcomes, ref>>
RowOrders == {s \in [1 .. LevelCount -> Levels] : Range(s) = Levels}
NewRefState == [active |-> 0, reprice |-> 0, on |-> FALSE, target |-> 0, version |-> 0,
                action |-> "KEEP"]

\* The loop is at its select: no handler is under way.
Idle == engine.state # "STOPPED" /\ engine.snap = <<>>

\* marketPaused: the health probes have failed too often.
MarketPaused == engine.timeouts >= LivenessThreshold

\* A disturbance: a failure, a crash, a trade or a change of the reference.
Upset == upsets < MaxUpsets /\ upsets' = upsets + 1

\* A handler, with at most one call that fails.
Handles(result(_)) ==
  \E bad \in Faults :
    /\ IF bad = NoFault THEN upsets' = upsets ELSE Upset
    /\ Len(commands) <= MaxQueue
    /\ bad = NoFault \/ result(bad) # result(NoFault)
    /\ Becomes(result(bad))

\* Run: wallet, syncAllMarkets, health probe, then the first reconciliation.
Run ==
  /\ engine.state = "STOPPED"
  /\ \E order \in RowOrders, recovered \in BOOLEAN :
       /\ IF recovered THEN upsets' = upsets ELSE Upset
       /\ blind' = (blind \/ ~recovered)
       /\ Becomes(SyncFromOrderService(World, order, recovered, NoFault))
  /\ engine' = [engine EXCEPT !.state = "RUNNING",
                              !.timeouts = IF alive THEN 0 ELSE LivenessThreshold]
  /\ UNCHANGED <<outside, pos>>

\* The process ends; an offset it has not committed is delivered again.
Crash ==
  /\ engine.state # "STOPPED" /\ Upset
  /\ engine' = [engine EXCEPT !.state = "STOPPED", !.snap = <<>>]
  /\ tracker' = <<>> /\ orphans' = {} /\ refState' = NewRefState
  /\ generations' = [l \in Levels |-> 0]
  /\ missing' = [l \in Levels |-> 0] /\ notFound' = [l \in Levels |-> 0]
  /\ \E n \in {pos.engine, IF pos.engine > 0 THEN pos.engine - 1 ELSE 0} :
       pos' = [pos EXCEPT !.engine = n]
  /\ UNCHANGED <<remote, book, alive, trades, outcomes, ref, blind>>

\* runReconcileAll and, for a dirty market, runReconcileMarket, up to the answer
\* of the matching engine.
EffectiveBase(w, balance) ==
  LET held == CommittedBase(w) IN IF balance > held THEN balance - held ELSE 0

\* RefreshFromWallet and ApplyTrade: a trade is taken off when it is handled, and
\* the balance read from the wallet may contain it already.
Projected == {IF Base > n THEN Base - n ELSE 0 : n \in pos.engine .. pos.engine + Len(trades)}

FetchSnapshot ==
  /\ Idle /\ ~MarketPaused
  /\ \E due \in SUBSET Levels, order \in RowOrders :
       /\ Handles(LAMBDA bad : FoldLeft(LAMBDA u, l : CheckConsumed(u, l, due, bad),
                                        World, order))
  /\ \E balance \in Projected :
     engine' = [engine EXCEPT !.snap = IF alive /\ ref.freshness # "PAUSED"
                                       THEN <<RestrictValues(book, LAMBDA q : q > 0)>>
                                       ELSE <<>>,
                              !.count = AskCount(EffectiveBase(World, balance))]
  /\ UNCHANGED <<outside, pos, blind>>

\* ReconcileMarket with the snapshot.
ReconcileMarket ==
  /\ engine.state # "STOPPED" /\ engine.snap # <<>>
  /\ \E order \in RowOrders, due \in SUBSET Levels :
       Handles(LAMBDA bad : Reconciled(World, engine.snap[1], engine.count, order, due, bad))
  /\ engine' = [engine EXCEPT !.snap = <<>>]
  /\ UNCHANGED <<outside, pos, blind>>

\* evResyncTick.
Resync ==
  /\ Idle
  /\ \E order \in RowOrders :
       Handles(LAMBDA bad : SyncFromOrderService(World, order, TRUE, bad))
  /\ UNCHANGED <<engine, outside, pos, blind>>

\* handlePendingCheck: timeouts, the health probe, and the orders that rest.
PendingCheck ==
  /\ Idle
  /\ \E due \in SUBSET Levels, order \in RowOrders :
       Handles(LAMBDA bad :
         LET timed == FoldLeft(LAMBDA u, l : IF l \in due /\ With(u, l, "PENDING")
                                             THEN CheckPending(u, l, bad) ELSE u,
                               World, order)
         IN IF alive THEN FoldLeft(LAMBDA u, l : ConfirmResting(u, l), timed, order)
            ELSE timed)
  /\ engine' = [engine EXCEPT !.timeouts = IF alive THEN 0 ELSE AtMost(@ + 1, LivenessThreshold)]
  /\ UNCHANGED <<outside, pos, blind>>

\* handleCancellingCheck.
CancellingCheck ==
  /\ Idle
  /\ \E due \in SUBSET Levels \ {{}}, order \in RowOrders :
       Handles(LAMBDA bad :
         FoldLeft(LAMBDA u, l : IF l \in due /\ With(u, l, "CANCELLING")
                                THEN HandleCancellingTimeout(u, l, bad) ELSE u,
                  World, order))
  /\ UNCHANGED <<engine, outside, pos, blind>>

\* handleExpiryCheck; the spread of both sides may also call for a reconciliation.
ExpiryCheck ==
  /\ Idle /\ ~MarketPaused
  /\ \E due, aged \in SUBSET Levels, order \in RowOrders :
       Handles(LAMBDA bad :
         FoldLeft(LAMBDA u, l : CheckExpired(u, l, aged, bad),
                  FoldLeft(LAMBDA u, l : CheckConsumed(u, l, due, bad), World, order),
                  order))
  /\ UNCHANGED <<engine, outside, pos, blind>>

\* handleTrade; the bounded memory of trade ids is larger than MaxTrades.
HandleTrade ==
  /\ Idle /\ pos.engine < Len(trades)
  /\ LET n  == pos.engine + 1
         id == trades[n]
         l  == id[1]
         rem == IF tracker[l].rem > 0 THEN tracker[l].rem - 1 ELSE 0
     IN /\ pos' = [pos EXCEPT !.engine = n]
        /\ tracker' = IF ~(/\ With(World, l, "RESTING") \/ With(World, l, "OS_REGISTERED")
                           /\ Id(World, l) = id)
                      THEN tracker
                      ELSE IF rem = 0 THEN Restrict(tracker, DOMAIN tracker \ {l})
                      ELSE [tracker EXCEPT ![l].rem = rem]
  /\ UNCHANGED <<generations, missing, notFound, refState, orphans, remote, outside,
                 engine, blind, upsets>>

-----------------------------------------------------------------------------
(***************************************************************************)
(* What the engine works with: the reference price, the matching engine    *)
(* and the order service.                                                  *)
(***************************************************************************)
own == <<memory, engine, blind>>
others == <<own, upsets>>

\* The provider's entry: a new price, or one that grows old.
ReferenceMoves ==
  /\ Upset
  /\ \E p \in RefPrices \ {ref.price} :
       ref' = [price |-> p, version |-> ref.version + 1, freshness |-> "FRESH"]
  /\ UNCHANGED <<own, remote, book, alive, trades, outcomes, pos>>

ReferenceAges ==
  /\ ref.freshness # "PAUSED" /\ Upset
  /\ ref' = [ref EXCEPT !.freshness = IF @ = "FRESH" THEN "STALE" ELSE "PAUSED"]
  /\ UNCHANGED <<own, remote, book, alive, trades, outcomes, pos>>

ReferenceReturns ==
  /\ ref.freshness # "FRESH" /\ Upset
  /\ ref' = [ref EXCEPT !.freshness = "FRESH", !.version = @ + 1]
  /\ UNCHANGED <<own, remote, book, alive, trades, outcomes, pos>>

\* A create for an order in the book is skipped.
EngineConsumes ==
  /\ alive /\ commands # <<>>
  /\ LET type == Head(commands)[1]
         id   == Head(commands)[2]
     IN IF type = "create"
        THEN /\ book' = [book EXCEPT ![id] = IF @ > 0 THEN @ ELSE os[id].qty]
             /\ outcomes' = outcomes
        ELSE /\ book' = [book EXCEPT ![id] = 0]
             /\ outcomes' = outcomes \cup {id}
  /\ commands' = Tail(commands)
  /\ UNCHANGED <<others, os, outbox, alive, trades, pos, ref>>

EngineTrades ==
  /\ alive /\ Upset
  /\ \E id \in Ids : /\ book[id] > 0
                     /\ book' = [book EXCEPT ![id] = @ - 1]
                     /\ trades' = Append(trades, id)
  /\ UNCHANGED <<own, remote, alive, outcomes, pos, ref>>

EngineFails ==
  /\ alive /\ Upset
  /\ alive' = FALSE
  /\ UNCHANGED <<own, remote, book, trades, outcomes, pos, ref>>

EngineReturns ==
  /\ ~alive
  /\ alive' = TRUE
  /\ UNCHANGED <<others, remote, book, trades, outcomes, pos, ref>>

ServicePublishesCancel ==
  /\ Len(commands) <= MaxQueue
  /\ \E id \in outbox : /\ outbox' = outbox \ {id}
                        /\ commands' = Append(commands, <<"cancel", id>>)
  /\ UNCHANGED <<others, os, book, alive, trades, outcomes, pos, ref>>

\* The fill of a settled trade; an order with nothing left takes none.
ServiceAppliesTrade ==
  /\ pos.service < Len(trades)
  /\ pos' = [pos EXCEPT !.service = @ + 1]
  /\ LET id   == trades[pos.service + 1]
         row  == os[id]
     IN os' = IF row.rem = 0 THEN os
              ELSE [os EXCEPT ![id] = [row EXCEPT
                      !.rem = @ - 1,
                      !.status = IF row.rem = 1 THEN "FILLED"
                                 ELSE IF @ = "OPEN" THEN "PARTIALLY_FILLED" ELSE @]]
  /\ UNCHANGED <<others, outbox, commands, book, alive, trades,
                 outcomes, ref>>

ServiceAppliesOutcome ==
  /\ \E id \in outcomes :
       /\ outcomes' = outcomes \ {id}
       /\ os' = [os EXCEPT ![id].status =
                   IF @ \in {"OPEN", "PARTIALLY_FILLED", "CANCELLING"} THEN "CANCELLED" ELSE @]
  /\ UNCHANGED <<others, outbox, commands, book, alive, trades, pos,
                 ref>>

Init ==
  /\ tracker = <<>> /\ orphans = {} /\ refState = NewRefState
  /\ generations = [l \in Levels |-> 0]
  /\ missing = [l \in Levels |-> 0] /\ notFound = [l \in Levels |-> 0]
  /\ engine = [state |-> "STOPPED", timeouts |-> 0, snap |-> <<>>, count |-> 0]
  /\ os = [id \in Ids |-> NoRow] /\ outbox = {} /\ commands = <<>>
  /\ blind = FALSE
  /\ book = [id \in Ids |-> 0] /\ alive = TRUE /\ trades = <<>> /\ outcomes = {}
  /\ pos = [engine |-> 0, service |-> 0]
  /\ ref = [price |-> Min(RefPrices), version |-> 1, freshness |-> "FRESH"]
  /\ upsets = 0

Loop == \/ FetchSnapshot \/ ReconcileMarket \/ Resync \/ PendingCheck \/ CancellingCheck
        \/ ExpiryCheck \/ HandleTrade

Next ==
  \/ Run \/ Crash \/ Loop
  \/ ReferenceMoves \/ ReferenceAges \/ ReferenceReturns
  \/ EngineConsumes \/ EngineTrades \/ EngineFails \/ EngineReturns
  \/ ServicePublishesCancel \/ ServiceAppliesTrade \/ ServiceAppliesOutcome

Spec == Init /\ [][Next]_vars

\* The process is started again, its tickers go on, and the matching engine and
\* the order service's outbox do their work.  For the handlers weak fairness is
\* spelled out: what enables a handler, and the steps that must then occur.
CanFetch     == /\ Idle /\ ~MarketPaused /\ Len(commands) <= MaxQueue
                /\ alive /\ ref.freshness # "PAUSED"
CanReconcile == engine.state # "STOPPED" /\ engine.snap # <<>> /\ Len(commands) <= MaxQueue
CanProbe     == Idle /\ alive /\ engine.timeouts > 0 /\ Len(commands) <= MaxQueue

Fairness ==
  /\ <>[](engine.state = "STOPPED") => []<><<Run>>_vars
  /\ <>[]CanFetch     => []<><<FetchSnapshot>>_vars
  /\ <>[]CanReconcile => []<><<ReconcileMarket>>_vars
  /\ <>[]CanProbe     => []<><<PendingCheck>>_vars
  /\ WF_vars(EngineConsumes) /\ WF_vars(EngineReturns)
  /\ WF_vars(ServicePublishesCancel)

FairSpec == Spec /\ Fairness

-----------------------------------------------------------------------------
(***************************************************************************)
(* Properties.                                                             *)
(***************************************************************************)
\* The order rests, or will, and the partition holds no cancellation behind it.
Live(id) ==
  \/ book[id] > 0 /\ <<"cancel", id>> \notin Range(commands)
  \/ \E k \in 1 .. Len(commands) :
       /\ commands[k] = <<"create", id>>
       /\ \A j \in k + 1 .. Len(commands) : commands[j] # <<"cancel", id>>

\* The order the engine takes for the one of its level, or will after a start.
Known(id) ==
  IF engine.state = "STOPPED" THEN os[id].status \in {"OPEN", "PARTIALLY_FILLED"}
  ELSE Tracked(World, id[1]) /\ Id(World, id[1]) = id

Stray(id) == Live(id) /\ ~Known(id) /\ id \notin outbox

\* A queued replacement takes the place of an order that can no longer trade: the
\* cancellation is done, or ahead of the replacement in the partition, whatever
\* the order service answered (handleCancellingTimeout, SyncFromOrderService).
ReplacementWaits ==
  [][\A l \in DOMAIN tracker \cap DOMAIN tracker' :
       tracker[l].status = "CANCELLING" /\ tracker'[l].status = "PENDING"
       => ~Live(<<l, tracker[l].gen>>)]_vars

\* A new order has a client order id the order service has never seen (INV-MM-07),
\* unless a start could not read the generations (RecoverHighestGenerations).
IdsAreFresh ==
  [][\A l \in DOMAIN tracker' :
       (/\ tracker'[l].status = "PENDING"
        /\ l \in DOMAIN tracker => tracker[l].gen # tracker'[l].gen)
       => blind \/ os[<<l, tracker'[l].gen>>] = NoRow]_vars

\* An order in the matching engine that no level accounts for, because a fill was
\* counted twice, a create was repeated or the process restarted, does not stay:
\* syncWithMESnapshot finds and cancels it while the reference is not paused.
StrayEnds ==
  \A id \in Ids : []<>(~Stray(id) \/ ref.freshness = "PAUSED")
=============================================================================

------------------------------ MODULE OrderBook ------------------------------
(***************************************************************************)
(* One market of the matching engine: the order book, the matching loop,   *)
(* the event loop's handling of a command, and the snapshot a restart      *)
(* loads (services/matching-engine/internal: matcher, orderbook, market).  *)
(*                                                                         *)
(* One goroutine owns the book, so a command runs to its end before the    *)
(* next one starts.  The matching loop of a command is a sequence of Fill  *)
(* steps, with the order in hand in taker.  The book keeps each price in   *)
(* three places, the sorted slice, the map of levels and the index by      *)
(* order, and a running total per level: the code keeps them in step.      *)
(*                                                                         *)
(* A command may be delivered again at a new offset (the order service's   *)
(* outbox publishes at least once).  processedEvents remembers the last    *)
(* RingCapacity event ids, in memory only.                                 *)
(***************************************************************************)
EXTENDS Naturals, Sequences, FiniteSets, SequencesExt

CONSTANTS
  Orders,          \* order ids; an order has one OrderCreated event
  Specs,           \* the orders a user may submit: [side, type, price, qty, at]
  NoOrder,         \* no order in hand
  TickSize,
  LotSize,
  RingCapacity,    \* capacity of the ring of event ids (50000)
  MaxRedeliveries, \* bound on repeated commands
  MaxRestarts      \* bound on restarts

ASSUME SpecsAssumption ==
  Specs \subseteq [side : {"BUY", "SELL"}, type : {"LIMIT", "MARKET"},
                   price : Nat, qty : Nat \ {0}, at : Nat]
ASSUME SizeAssumption  == TickSize \in Nat \ {0} /\ LotSize \in Nat \ {0}
ASSUME OrderAssumption == NoOrder \notin Orders
ASSUME RingAssumption  == /\ RingCapacity \in Nat \ {0}
                          /\ MaxRedeliveries \in Nat
                          /\ MaxRestarts \in Nat

Sides  == {"BUY", "SELL"}
Prices == {s.price : s \in Specs}

VARIABLES
  node,          \* the order as its OrderCreated event describes it
  remaining,     \* RemainingQty of the orders in the book and of the taker
  levels,        \* PriceLevels: side -> price -> [orders, total]
  sortedPrices,  \* SortedPrices: side -> prices, best first
  index,         \* OrderIndex
  sequence,      \* book.Sequence
  taker,         \* the order Match is working on
  ring,          \* event ids in processedEvents, oldest first
  mode,          \* "LIVE" or "BLOCKED"
  filled,        \* quantity each order has traded
  paid,          \* price times quantity over the trades of each order
  arrived,       \* orders in the order their matching started
  redeliveries,
  restarts

book    == <<remaining, levels, sortedPrices, index, sequence>>
history == <<filled, paid, arrived>>
bounds  == <<redeliveries, restarts>>
bookVars == <<node, remaining, levels, sortedPrices, index, sequence, taker, ring,
             mode, filled, paid, arrived, redeliveries, restarts>>

NoNode   == [side |-> "NONE"]
NoLevel  == [orders |-> <<>>, total |-> 0]
Known    == {o \in Orders : node[o] # NoNode}
Side(o)  == node[o].side
Price(o) == node[o].price
Opposite(s) == IF s = "BUY" THEN "SELL" ELSE "BUY"

\* Price a comes before price b on side s.
Before(s, a, b) == IF s = "BUY" THEN a > b ELSE a < b

-----------------------------------------------------------------------------
(***************************************************************************)
(* Insert, Cancel and the fills, as functions of the state.                *)
(***************************************************************************)
\* sort.Search: the first position whose price satisfies Test.
Search(prices, Test(_)) ==
  LET i == SelectInSeq(prices, Test) IN IF i = 0 THEN Len(prices) + 1 ELSE i

WithPrice(s, prices, p) ==
  InsertAt(prices, Search(prices, LAMBDA x : Before(s, p, x)), p)

WithoutPrice(s, prices, p) ==
  RemoveAt(prices, Search(prices, LAMBDA x : x = p \/ Before(s, p, x)))

\* PushBack: the oldest order of a level is its first.
Queued_AtFront(level, o, qty) ==
  [orders |-> <<o>> \o level.orders, total |-> level.total + qty]

Queued(level, o, qty) ==
  [orders |-> Append(level.orders, o), total |-> level.total + qty]

\* A book as Insert sees it.
Current   == [levels |-> levels, sortedPrices |-> sortedPrices, index |-> index]
EmptyBook == [levels |-> [s \in Sides |-> [p \in Prices |-> NoLevel]],
              sortedPrices |-> [s \in Sides |-> <<>>], index |-> {}]
Becomes(b) == levels' = b.levels /\ sortedPrices' = b.sortedPrices /\ index' = b.index

Inserted(b, o) ==
  LET s == Side(o)
      p == Price(o)
  IN [levels |-> [b.levels EXCEPT ![s][p] = Queued(@, o, remaining[o])],
      sortedPrices |-> IF b.levels[s][p] = NoLevel
                       THEN [b.sortedPrices EXCEPT ![s] = WithPrice(s, @, p)]
                       ELSE b.sortedPrices,
      index |-> b.index \cup {o}]

InsertOrder(o) == Becomes(IF o \in index THEN Current ELSE Inserted(Current, o))

\* Cancel and FullFill take the whole order out of the book.
RemoveOrder(o) ==
  LET s    == Side(o)
      p    == Price(o)
      rest == RemoveFirst(levels[s][p].orders, o)
  IN /\ levels' = [levels EXCEPT ![s][p] =
                     IF rest = <<>>
                     THEN NoLevel
                     ELSE [orders |-> rest, total |-> @.total - remaining[o]]]
     /\ sortedPrices' = IF rest = <<>>
                        THEN [sortedPrices EXCEPT ![s] = WithoutPrice(s, @, p)]
                        ELSE sortedPrices
     /\ index' = index \ {o}

\* PartialFill: the order keeps its place in the queue.
ReduceOrder(o, qty) ==
  /\ levels' = [levels EXCEPT ![Side(o)][Price(o)].total = @ - qty]
  /\ UNCHANGED <<sortedPrices, index>>

-----------------------------------------------------------------------------
(***************************************************************************)
(* The matching loop.                                                      *)
(***************************************************************************)
BestPrice(s)   == Head(sortedPrices[s])
ExecuteBest(s) == Head(levels[s][BestPrice(s)].orders)

Crossable_Strictly(o, best) == \/ node[o].type = "MARKET" /\ Price(o) = 0
                               \/ Before(Side(o), Price(o), Price(best))

Crossable(o, best) ==
  \/ node[o].type = "MARKET" /\ Price(o) = 0
  \/ Price(best) = Price(o)
  \/ Before(Side(o), Price(o), Price(best))

CanFill == /\ remaining[taker] > 0
           /\ sortedPrices[Opposite(Side(taker))] # <<>>
           /\ Crossable(taker, ExecuteBest(Opposite(Side(taker))))

FillPrice(maker) == Price(maker)

Fill ==
  /\ taker # NoOrder
  /\ CanFill
  /\ LET maker == ExecuteBest(Opposite(Side(taker)))
         qty   == IF remaining[maker] < remaining[taker]
                  THEN remaining[maker] ELSE remaining[taker]
         cost  == FillPrice(maker) * qty
     IN /\ IF qty = remaining[maker] THEN RemoveOrder(maker) ELSE ReduceOrder(maker, qty)
        /\ remaining' = [remaining EXCEPT ![maker] = @ - qty, ![taker] = @ - qty]
        /\ filled' = [filled EXCEPT ![maker] = @ + qty, ![taker] = @ + qty]
        /\ paid' = [paid EXCEPT ![maker] = @ + cost, ![taker] = @ + cost]
  /\ sequence' = sequence + 1
  /\ UNCHANGED <<node, taker, ring, mode, arrived, bounds>>

\* The loop is over: a LIMIT remainder rests, a MARKET remainder expires.
Rest ==
  /\ taker # NoOrder
  /\ ~CanFill
  /\ remaining[taker] > 0
  /\ node[taker].type = "LIMIT"
  /\ sequence' = sequence + 1
  /\ InsertOrder(taker)
  /\ taker' = NoOrder
  /\ UNCHANGED <<node, remaining, ring, mode, history, bounds>>

Finish ==
  /\ taker # NoOrder
  /\ ~CanFill
  /\ remaining[taker] = 0 \/ node[taker].type = "MARKET"
  /\ remaining' = [remaining EXCEPT ![taker] = 0]
  /\ taker' = NoOrder
  /\ UNCHANGED <<node, levels, sortedPrices, index, sequence, ring, mode, history, bounds>>

-----------------------------------------------------------------------------
(***************************************************************************)
(* The event loop: one command from the partition.                         *)
(***************************************************************************)
AddToRing(id) ==
  IF Len(ring) = RingCapacity THEN Append(Tail(ring), id) ELSE Append(ring, id)

Processed(id) == \E i \in DOMAIN ring : ring[i] = id

ValidTickAndLot(spec) == /\ spec.price % TickSize = 0
                         /\ spec.qty % LotSize = 0

\* OrderCreated, delivered for the first time or again.  Rejected commands
\* and duplicates leave the book alone.
OrderCreated(o, spec) ==
  /\ taker = NoOrder
  /\ ring' = IF Processed(<<"created", o>>) THEN ring ELSE AddToRing(<<"created", o>>)
  /\ IF \/ mode = "BLOCKED"
        \/ Processed(<<"created", o>>)
        \/ o \in index
        \/ ~ValidTickAndLot(spec)
     THEN UNCHANGED <<remaining, taker, arrived>>
     ELSE /\ remaining' = [remaining EXCEPT ![o] = spec.qty]
          /\ taker' = o
          /\ arrived' = Append(RemoveFirst(arrived, o), o)
  /\ UNCHANGED <<levels, sortedPrices, index, sequence, mode, filled, paid>>

Submit(o, spec) ==
  /\ o \notin Known
  /\ node' = [node EXCEPT ![o] = spec]
  /\ OrderCreated(o, spec)
  /\ UNCHANGED bounds

Redeliver(o) ==
  /\ o \in Known
  /\ redeliveries < MaxRedeliveries
  /\ redeliveries' = redeliveries + 1
  /\ OrderCreated(o, node[o])
  /\ UNCHANGED <<node, restarts>>

\* OrderCancelRequested of the owner.  An order that is not in the book is
\* ALREADY_ABSENT; a request of another user changes nothing at all.
CancelOrder(o) ==
  /\ taker = NoOrder
  /\ o \in Known
  /\ ~Processed(<<"cancel", o>>)
  /\ ring' = AddToRing(<<"cancel", o>>)
  /\ IF mode = "LIVE" /\ o \in index
     THEN /\ RemoveOrder(o)
          /\ remaining' = [remaining EXCEPT ![o] = 0]
          /\ sequence' = sequence + 1
     ELSE UNCHANGED book
  /\ UNCHANGED <<node, taker, mode, history, bounds>>

-----------------------------------------------------------------------------
(***************************************************************************)
(* A restart: the final snapshot lists the orders, bids before asks, best  *)
(* price first, oldest first within a price; Restore validates the list    *)
(* and inserts the orders one by one into an empty book.                   *)
(***************************************************************************)
SerializeSide(s) ==
  FlattenSeq([i \in DOMAIN sortedPrices[s] |-> levels[s][sortedPrices[s][i]].orders])

Serialize == SerializeSide("BUY") \o SerializeSide("SELL")

\* The checks of Restore on each order and on each pair of neighbours.
Acceptable(snap) ==
  /\ \A i \in DOMAIN snap :
       /\ node[snap[i]].type = "LIMIT" /\ Price(snap[i]) > 0
       /\ 0 < remaining[snap[i]] /\ remaining[snap[i]] <= node[snap[i]].qty
       /\ Price(snap[i]) % TickSize = 0
       /\ node[snap[i]].qty % LotSize = 0 /\ remaining[snap[i]] % LotSize = 0
       /\ \A j \in DOMAIN snap : i # j => snap[i] # snap[j]
  /\ \A i \in 1 .. Len(snap) - 1 :
       LET a == snap[i]
           b == snap[i + 1]
       IN /\ ~(Side(a) = "SELL" /\ Side(b) = "BUY")
          /\ Side(a) = Side(b) => ~Before(Side(b), Price(b), Price(a))
          /\ Side(a) = Side(b) /\ Price(a) = Price(b) => node[a].at <= node[b].at

Restore(snap) == Becomes(FoldLeft(Inserted, EmptyBook, snap))

\* The book is restored, or the market comes back BLOCKED with an empty one.
Restart ==
  /\ taker = NoOrder
  /\ mode = "LIVE"
  /\ restarts < MaxRestarts
  /\ restarts' = restarts + 1
  /\ ring' = <<>>
  /\ IF Acceptable(Serialize)
     THEN Restore(Serialize) /\ UNCHANGED <<mode, sequence>>
     ELSE /\ Restore(<<>>)
          /\ mode' = "BLOCKED"
          /\ sequence' = 0
  /\ UNCHANGED <<node, remaining, taker, history, redeliveries>>

-----------------------------------------------------------------------------
BookInit ==
  /\ node = [o \in Orders |-> NoNode]
  /\ remaining = [o \in Orders |-> 0]
  /\ levels = [s \in Sides |-> [p \in Prices |-> NoLevel]]
  /\ sortedPrices = [s \in Sides |-> <<>>]
  /\ index = {}
  /\ sequence = 0
  /\ taker = NoOrder
  /\ ring = <<>>
  /\ mode = "LIVE"
  /\ filled = [o \in Orders |-> 0]
  /\ paid = [o \in Orders |-> 0]
  /\ arrived = <<>>
  /\ redeliveries = 0
  /\ restarts = 0

BookNext ==
  \/ \E o \in Orders, spec \in Specs : Submit(o, spec)
  \/ \E o \in Orders : Redeliver(o) \/ CancelOrder(o)
  \/ Fill
  \/ Rest
  \/ Finish
  \/ Restart

BookSpec == BookInit /\ [][BookNext]_bookVars

-----------------------------------------------------------------------------
\* Every variable keeps its type: only known orders rest or are in hand, and
\* the ring of event ids never outgrows its capacity (event_loop.go).
BookTypeOK ==
  /\ node \in [Orders -> Specs \cup {NoNode}]
  /\ remaining \in [Orders -> Nat]
  /\ \A s \in Sides, p \in Prices :
       /\ levels[s][p].orders \in Seq(Known)
       /\ levels[s][p].total \in Nat
  /\ sortedPrices \in [Sides -> Seq(Prices)]
  /\ index \subseteq Known
  /\ sequence \in Nat
  /\ taker \in Known \cup {NoOrder}
  /\ Len(ring) <= RingCapacity
  /\ mode \in {"LIVE", "BLOCKED"}
  /\ filled \in [Orders -> Nat]
  /\ paid \in [Orders -> Nat]
  /\ arrived \in Seq(Known)
  /\ redeliveries \in 0 .. MaxRedeliveries
  /\ restarts \in 0 .. MaxRestarts

SumOver(S, f) == FoldFunctionOnSet(+, 0, f, S)

\* The slice of prices, the map of levels, the index and the totals describe
\* the same book: GetDepth shows what can be matched, a cancel finds what rests.
BookConsistent ==
  /\ \A s \in Sides :
       /\ \A i, j \in DOMAIN sortedPrices[s] :
            i < j => Before(s, sortedPrices[s][i], sortedPrices[s][j])
       /\ ToSet(sortedPrices[s]) = {p \in Prices : levels[s][p].orders # <<>>}
       /\ \A p \in Prices :
            LET queue == ToSet(levels[s][p].orders)
            IN /\ queue = {o \in index : Side(o) = s /\ Price(o) = p}
               /\ Cardinality(queue) = Len(levels[s][p].orders)
               /\ levels[s][p].total = SumOver(queue, remaining)
  /\ \A o \in index : remaining[o] > 0

\* Between two commands the best bid is below the best ask.
NotCrossed ==
  taker = NoOrder =>
    \A b, a \in index : Side(b) = "BUY" /\ Side(a) = "SELL" => Price(b) < Price(a)

\* No order trades beyond its own limit, on average and so on any trade: what
\* the order service reserved for a BUY covers what it pays.
LimitRespected ==
  \A o \in Known :
    Price(o) > 0 =>
      IF Side(o) = "BUY" THEN paid[o] <= Price(o) * filled[o]
                         ELSE paid[o] >= Price(o) * filled[o]

\* Between two commands, restarts and restored snapshots included, the book can be matched
\* against, is not crossed and has traded no order beyond its limit.
BookSound == BookConsistent /\ NotCrossed /\ LimitRespected

\* Price-time priority: a resting order trades only when no other order of its
\* side has a better price, or the same price and an earlier arrival.
ArrivedBefore(a, b) ==
  \E i, j \in DOMAIN arrived : i < j /\ arrived[i] = a /\ arrived[j] = b

PriceTimePriority ==
  [][\A maker \in index, other \in index :
       /\ filled'[maker] > filled[maker]
       /\ maker # other
       /\ Side(maker) = Side(other)
       => \/ Before(Side(maker), Price(maker), Price(other))
          \/ Price(maker) = Price(other) /\ ArrivedBefore(maker, other)]_bookVars

\* A new sequence number for every change of the book, and only then: two
\* books with the same number are the same book, restarts included.
SequenceTellsBooksApart ==
  [][mode' = "LIVE" => (levels' # levels <=> sequence' = sequence + 1)]_bookVars

\* Makers are hit in price-time priority, and each change shows in the sequence number.
FillsInOrder == PriceTimePriority /\ SequenceTellsBooksApart

\* "If an order is matched twice ... a buyer would be filled twice": the ring
\* guarantees that no order trades more than its quantity.
NeverOverfilled == \A o \in Known : filled[o] <= node[o].qty

\* A snapshot the engine has written can be restored.
SnapshotRestores == mode = "LIVE"
=============================================================================

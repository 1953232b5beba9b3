---------------------------- MODULE TradeHistory ----------------------------
(***************************************************************************)
(* The trade history service (services/trade): a consumer that copies      *)
(* settled trades into a table, and the pages in which a user, or anyone   *)
(* for a market, reads them back, newest first.                            *)
(*                                                                         *)
(* A message is [id, seq, time, buyer, seller]; the market is one, so that *)
(* the market's public listing is the one of Tape.  Times are those of the *)
(* engine's clock: fills of one order may share one, and ids are in no     *)
(* relation to them; 0 is the id of none.                                  *)
(***************************************************************************)
EXTENDS Integers, SequencesExt

CONSTANTS
  SettledTrades,  \* the topic trades.settled.v1
  Readers,        \* users who read their trades, and Tape for the public one
  Tape,
  PageLimit,
  MaxTroubles     \* bound: failures and restarts

ASSUME TradeHistoryAssumption ==
  /\ PageLimit \in Nat \ {0} /\ MaxTroubles \in Nat
  /\ SettledTrades \in Seq(ToSet(SettledTrades))
  /\ \A i \in DOMAIN SettledTrades :
       SettledTrades[i].id \in Nat \ {0} /\ {SettledTrades[i].seq, SettledTrades[i].time} \subseteq Nat

VARIABLES
  fetched,      \* messages the reader has been given since it started
  acked,        \* the committed offset
  trades,       \* rows of the table
  tradeLetters, \* positions on the dead-letter topic
  walk,         \* the pages read so far: [user, owed, shown, after, open]
  troubles

historyVars == <<fetched, acked, trades, tradeLetters, walk, troubles>>
-----------------------------------------------------------------------------
NoCursor == [time |-> 0, id |-> 0]
NoWalk   == [user |-> Tape, owed |-> {}, shown |-> <<>>, after |-> NoCursor, open |-> FALSE]

TradeHistoryInit ==
  /\ fetched = 0 /\ acked = 0 /\ trades = {} /\ tradeLetters = {} /\ walk = NoWalk /\ troubles = 0

Trouble == troubles < MaxTroubles /\ troubles' = troubles + 1
Event   == SettledTrades[fetched + 1]
-----------------------------------------------------------------------------
(***************************************************************************)
(* The consumer.  A message that fails is left behind: the reader goes on  *)
(* to the next one and sees it again only after a restart, if no later     *)
(* commit has passed it.                                                   *)
(***************************************************************************)
\* The unique index on the market's sequence, for a trade that is not stored itself.
isSequenceConflict(m) == \E r \in trades : r.seq = m.seq /\ r.id # m.id
Stored_(m)            == \E r \in trades : r.id = m.id
Poison(m) == m.buyer = m.seller \/ m.seq = 0 \/ (~Stored_(m) /\ isSequenceConflict(m))

commitMsg ==
  \/ acked' = fetched + 1 /\ UNCHANGED troubles
  \/ Trouble /\ UNCHANGED acked

Create ==
  /\ ~Poison(Event)
  /\ trades' = IF Stored_(Event) THEN trades ELSE trades \cup {Event}
  /\ commitMsg
  /\ UNCHANGED tradeLetters

sendToDLQ ==
  /\ Poison(Event)
  /\ tradeLetters' = tradeLetters \cup {fetched + 1}
  /\ commitMsg
  /\ UNCHANGED trades

LeavesBehind == Trouble /\ UNCHANGED <<acked, trades, tradeLetters>>

Consume ==
  /\ fetched < Len(SettledTrades)
  /\ fetched' = fetched + 1
  /\ Create \/ sendToDLQ \/ LeavesBehind
  /\ UNCHANGED walk

ConsumerRestarts ==
  /\ Trouble /\ fetched # acked
  /\ fetched' = acked
  /\ UNCHANGED <<acked, trades, tradeLetters, walk>>
-----------------------------------------------------------------------------
(***************************************************************************)
(* Reading.  ListByUser unites the trades bought and the trades sold, and  *)
(* ListByMarket takes them all; a page ends at a cursor.                   *)
(***************************************************************************)
Entries(u) ==
  IF u = Tape THEN {[trade |-> r, side |-> "any"] : r \in trades}
  ELSE {[trade |-> r, side |-> "buyer"]  : r \in {x \in trades : x.buyer = u}}
         \cup {[trade |-> r, side |-> "seller"] : r \in {x \in trades : x.seller = u}}

Before_TimeOnly(c, r) == c = NoCursor \/ r.time < c.time
Before(c, r)  == c = NoCursor \/ r.time < c.time \/ (r.time = c.time /\ r.id < c.id)
Newer(e, f)   == e.trade.time > f.trade.time \/ (e.trade.time = f.trade.time /\ e.trade.id > f.trade.id)
\* What ORDER BY and LIMIT may answer with.
Pages(u, after) ==
  LET below == {e \in Entries(u) : Before(after, e.trade)}
      size  == IF Cardinality(below) < PageLimit THEN Cardinality(below) ELSE PageLimit
  IN {page \in [1..size -> below] :
        /\ IsInjective(page)
        /\ \A i, j \in 1..size : i < j => ~Newer(page[j], page[i])
        /\ \A e \in below : (\E i \in 1..size : page[i] = e) \/ (\A i \in 1..size : ~Newer(e, page[i]))}

StartWalk(u) ==
  /\ ~walk.open /\ walk.shown = <<>>
  /\ walk' = [user |-> u, owed |-> {e.trade.id : e \in Entries(u)}, shown |-> <<>>, after |-> NoCursor, open |-> TRUE]
  /\ UNCHANGED <<fetched, acked, trades, tradeLetters, troubles>>

\* A full page comes with a cursor, made of its last row.
ListTrades ==
  /\ walk.open
  /\ \E page \in Pages(walk.user, walk.after) :
       walk' = [walk EXCEPT !.shown = @ \o [i \in DOMAIN page |-> page[i].trade.id],
                            !.open  = Len(page) = PageLimit,
                            !.after = IF Len(page) = PageLimit
                                        THEN [time |-> page[PageLimit].trade.time, id |-> page[PageLimit].trade.id] ELSE @]
  /\ UNCHANGED <<fetched, acked, trades, tradeLetters, troubles>>

TradeHistoryNext == Consume \/ ConsumerRestarts \/ (\E u \in Readers : StartWalk(u)) \/ ListTrades
TradeHistorySpec == TradeHistoryInit /\ [][TradeHistoryNext]_historyVars
-----------------------------------------------------------------------------
(***************************************************************************)
(* Properties.                                                             *)
(***************************************************************************)
\* Whoever reads a history page by page, while older and newer trades are being stored
\* and redelivered, is shown no trade twice, not even one that both sides could claim,
\* and by the last page every trade that was there when they began.
WalkShowsEachOnce ==
  /\ IsInjective(walk.shown)
  /\ (walk # NoWalk /\ ~walk.open) => walk.owed \subseteq ToSet(walk.shown)

\* NewConsumer's comment, "do NOT ACK -- Kafka redelivers", would have every message
\* below the committed offset stored or on the dead-letter topic.  The loop goes on to
\* the next message instead, whose commit covers the one that failed.
AckedIsKept ==
  \A i \in 1..acked : i \in tradeLetters \/ \E r \in trades : r.id = SettledTrades[i].id
=============================================================================

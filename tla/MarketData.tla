----------------------------- MODULE MarketData -----------------------------
(***************************************************************************)
(* The market data service (services/market): a consumer that adds each    *)
(* executed trade to the candles of six resolutions in one transaction,    *)
(* and the 24-hour ticker that the consumer and a periodic refresher       *)
(* compute from the stored trades and write to Redis.                      *)
(*                                                                         *)
(* One market; trades are [id, price, quantity, time].  Time is that of    *)
(* the engine's and this service's clocks, taken to be one.                *)
(***************************************************************************)
EXTENDS Integers, SequencesExt

CONSTANTS
  ExecutedTrades,   \* the topic trades.executed.v1
  Resolutions,      \* durations of the candles
  Day,              \* the ticker's window
  MaxClock,         \* bound
  MaxSetbacks       \* bound: failures and restarts

ASSUME MarketDataAssumption ==
  /\ Resolutions \subseteq Nat \ {0} /\ Day \in Nat \ {0} /\ {MaxClock, MaxSetbacks} \subseteq Nat
  /\ ExecutedTrades \in Seq(ToSet(ExecutedTrades))
  /\ \A i \in DOMAIN ExecutedTrades :
       ExecutedTrades[i].time \in 0..MaxClock /\ {ExecutedTrades[i].price, ExecutedTrades[i].quantity} \subseteq Nat \ {0}

VARIABLES
  marketStatus, \* markets.status, only ACTIVE ones are refreshed
  given,        \* messages the reader has been given since it started
  acknowledged, \* the committed offset
  marketTrades, \* rows of market_trades
  candles,      \* rows of ohlc_candles
  rolling,      \* what the consumer does with its message: "fetch", "publish" or "commit"
  computed,     \* tickers read and not yet written, by the consumer and the refresher
  redisTicker,  \* the key ticker:<market>
  clock, setbacks

marketVars == <<marketStatus, given, acknowledged, marketTrades, candles, rolling, computed, redisTicker, clock, setbacks>>
-----------------------------------------------------------------------------
NoTicker == [last |-> 0, high |-> 0, low |-> 0, volume |-> 0, first |-> 0]
Writers  == {"consumer", "refresher"}

MarketDataInit ==
  /\ marketStatus = "ACTIVE"
  /\ given = 0 /\ acknowledged = 0 /\ marketTrades = {} /\ candles = {} /\ rolling = "fetch"
  /\ computed = [w \in Writers |-> <<>>]
  /\ redisTicker = NoTicker /\ clock = 0 /\ setbacks = 0

Setback == setbacks < MaxSetbacks /\ setbacks' = setbacks + 1
Trade_  == ExecutedTrades[given + 1]
-----------------------------------------------------------------------------
(***************************************************************************)
(* ProcessTrade.                                                           *)
(***************************************************************************)
StartTime(t, d) == (t.time \div d) * d
Opened_(t, d) == [resolution |-> d, start |-> StartTime(t, d), open |-> t.price, high |-> t.price, low |-> t.price,
                  close |-> t.price, volume |-> t.quantity, openAt |-> t.time, closeAt |-> t.time]
Upserted_LastWins(c, t) ==
  [c EXCEPT !.open   = IF t.time < c.openAt THEN t.price ELSE @,  !.openAt  = IF t.time < @ THEN t.time ELSE @,
            !.high   = IF t.price > @ THEN t.price ELSE @,        !.low     = IF t.price < @ THEN t.price ELSE @,
            !.close  = t.price,                                   !.closeAt = IF t.time > @ THEN t.time ELSE @,
            !.volume = @ + t.quantity]
Upserted(c, t) ==
  [c EXCEPT !.open   = IF t.time < c.openAt THEN t.price ELSE @,  !.openAt  = IF t.time < @ THEN t.time ELSE @,
            !.high   = IF t.price > @ THEN t.price ELSE @,        !.low     = IF t.price < @ THEN t.price ELSE @,
            !.close  = IF t.time >= c.closeAt THEN t.price ELSE @, !.closeAt = IF t.time > @ THEN t.time ELSE @,
            !.volume = @ + t.quantity]

Touched(c, t) == c.start = StartTime(t, c.resolution)
RolledUp(t) ==
  {IF Touched(c, t) THEN Upserted(c, t) ELSE c : c \in candles}
    \cup {Opened_(t, d) : d \in {r \in Resolutions : ~\E c \in candles : c.resolution = r /\ Touched(c, t)}}

\* A message that cannot be parsed is skipped and committed; one of a trade already
\* stored touches nothing; a failed transaction leaves the message behind.
ProcessTrade ==
  /\ rolling = "fetch" /\ given < Len(ExecutedTrades) /\ Trade_.time <= clock
  /\ \/ /\ ~\E r \in marketTrades : r.id = Trade_.id
        /\ marketTrades' = marketTrades \cup {Trade_}
        /\ candles' = RolledUp(Trade_)
        /\ rolling' = "publish" /\ UNCHANGED <<given, setbacks>>
     \/ /\ \E r \in marketTrades : r.id = Trade_.id
        /\ rolling' = "commit" /\ UNCHANGED <<given, marketTrades, candles, setbacks>>
     \/ /\ Setback /\ given' = given + 1 /\ UNCHANGED <<marketTrades, candles, rolling>>
  /\ UNCHANGED <<marketStatus, acknowledged, computed, redisTicker, clock>>

CommitOffset ==
  /\ rolling = "commit"
  /\ given' = given + 1 /\ rolling' = "fetch"
  /\ \/ acknowledged' = given + 1 /\ UNCHANGED setbacks
     \/ Setback /\ UNCHANGED acknowledged
  /\ UNCHANGED <<marketStatus, marketTrades, candles, computed, redisTicker, clock>>

MarketRestarts ==
  /\ Setback
  /\ given' = acknowledged /\ rolling' = "fetch" /\ computed' = [w \in Writers |-> <<>>]
  /\ UNCHANGED <<marketStatus, acknowledged, marketTrades, candles, redisTicker, clock>>
-----------------------------------------------------------------------------
(***************************************************************************)
(* publishTickerToRedis: GetTicker24h, then SET.  Nothing orders the two   *)
(* goroutines that do it.                                                  *)
(***************************************************************************)
Later(r, s) == r.time > s.time \/ (r.time = s.time /\ r.id > s.id)
LastOf(S)   == CHOOSE r \in S : \A s \in S \ {r} : Later(r, s)
Oldest_(S)  == CHOOSE r \in S : \A s \in S \ {r} : Later(s, r)

GetTicker24h ==
  LET recent  == {r \in marketTrades : r.time >= clock - Day}
      settled == {r \in marketTrades : r.time <= clock - Day}
      prices  == IF recent = {} THEN {LastOf(marketTrades).price} ELSE {r.price : r \in recent}
  IN IF marketTrades = {} THEN NoTicker
     ELSE [last   |-> LastOf(marketTrades).price,
           high   |-> CHOOSE p \in prices : \A q \in prices : p >= q,
           low    |-> CHOOSE p \in prices : \A q \in prices : p <= q,
           volume |-> FoldFunction(+, 0, [r \in recent |-> r.quantity]),
           first  |-> IF settled # {} THEN LastOf(settled).price ELSE Oldest_(marketTrades).price]

ReadTicker(w) ==
  /\ computed[w] = <<>>
  /\ IF w = "consumer" THEN rolling = "publish" ELSE marketStatus = "ACTIVE"
  /\ computed' = [computed EXCEPT ![w] = <<GetTicker24h>>]
  /\ UNCHANGED <<marketStatus, given, acknowledged, marketTrades, candles, rolling, redisTicker, clock, setbacks>>

\* A failed read or SET is logged.
SetTicker(w) ==
  /\ computed[w] # <<>>
  /\ \/ redisTicker' = computed[w][1] /\ UNCHANGED setbacks
     \/ Setback /\ UNCHANGED redisTicker
  /\ computed' = [computed EXCEPT ![w] = <<>>]
  /\ rolling' = IF w = "consumer" THEN "commit" ELSE rolling
  /\ UNCHANGED <<marketStatus, given, acknowledged, marketTrades, candles, clock>>

\* The refresher's ticker fires.
RefreshAllTickers_Idle == redisTicker = NoTicker /\ (ReadTicker("refresher") \/ SetTicker("refresher"))
RefreshAllTickers == ReadTicker("refresher") \/ SetTicker("refresher")
ConsumesTrades    == ProcessTrade \/ ReadTicker("consumer") \/ SetTicker("consumer") \/ CommitOffset
ClockTicks == clock < MaxClock /\ clock' = clock + 1
              /\ UNCHANGED <<marketStatus, given, acknowledged, marketTrades, candles, rolling, computed, redisTicker, setbacks>>

MarketDataNext == ConsumesTrades \/ RefreshAllTickers \/ MarketRestarts \/ ClockTicks
\* Both goroutines go on for ever.
MarketDataFairness == WF_marketVars(ConsumesTrades) /\ WF_marketVars(RefreshAllTickers)
MarketDataFairSpec == MarketDataInit /\ [][MarketDataNext]_marketVars /\ MarketDataFairness
-----------------------------------------------------------------------------
(***************************************************************************)
(* Properties.                                                             *)
(***************************************************************************)
In(c) == {r \in marketTrades : Touched(c, r)}

\* Each candle is what the stored trades of its interval make it, in whatever order
\* they were delivered, left behind and delivered again: opened by one of the first of
\* them and closed by one of the last, with their extremes and the volume of each
\* counted once; and every stored trade has its candle in every resolution.
CandlesAreTrades ==
  /\ \A c \in candles :
       /\ In(c) # {} /\ c.volume = FoldFunction(+, 0, [r \in In(c) |-> r.quantity])
       /\ \A r \in In(c) : r.time \in c.openAt..c.closeAt /\ r.price \in c.low..c.high
       /\ \A end \in {<<c.openAt, c.open>>, <<c.closeAt, c.close>>} : \E r \in In(c) : <<r.time, r.price>> = end
       /\ {c.low, c.high} \subseteq {r.price : r \in In(c)}
  /\ \A r \in marketTrades : \A d \in Resolutions : \E c \in candles : c.resolution = d /\ Touched(c, r)

\* When trades and the clock stand still, Redis comes to hold the ticker of the stored
\* trades and keeps it, though an older one may have been written over a newer one, a
\* write may have failed, and no trade comes that would publish again.
TickerConverges == <>[](redisTicker = GetTicker24h)
=============================================================================

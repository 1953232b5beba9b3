------------------------------ MODULE MCViews ------------------------------
(***************************************************************************)
(* For TLC, the services that turn the trades of the engine and of         *)
(* settlement into what users see: portfolio, notification, trade history, *)
(* market data, and the gateway's sockets.  They share no state, so in     *)
(* each behaviour one of them runs and the others rest in a state in which *)
(* none of their fair steps is enabled.                                    *)
(*                                                                         *)
(* Portfolio: a buy, and a sale that needs it.  Notification: a trade told *)
(* twice with a bad message between, or a cancelled order beside a call    *)
(* with a key, or a snapshot.  Trade history: trades of one time whose ids *)
(* are out of order, one of them with oneself, one redelivered.  Market    *)
(* data: trades of one time, one out of order, one redelivered.  Gateway:  *)
(* what its one or two clients may subscribe to.                           *)
(***************************************************************************)
EXTENDS Portfolio, Notification, TradeHistory, MarketData, Gateway

MCTrade ==
  << [role |-> "BUY",  quantity |-> 2, price |-> 2],
     [role |-> "SELL", quantity |-> 2, price |-> 5] >>
MCSeed == [quantity |-> 1, cost_basis |-> 1]

MCTopics == {"trades", "cancels", "portfolios"}
MCEmpty  == [t \in MCTopics |-> <<>>]
MCLogs ==
  {MCEmpty, [MCEmpty EXCEPT !["trades"] = <<"t1", "bad1", "t1">>],
   [MCEmpty EXCEPT !["cancels"] = <<"c1">>], [MCEmpty EXCEPT !["portfolios"] = <<"p1">>]}
MCCalls == [topics \in MCLogs |-> IF topics["cancels"] # <<>> THEN {"k1"} ELSE {}]
MCKind ==
  [e \in {"t1", "c1", "p1", "bad1", "k1"} |->
     CASE e = "t1" -> "trade" [] e = "c1" -> "cancel" [] e = "p1" -> "portfolio" [] e = "bad1" -> "bad" [] OTHER -> "call"]
MCParties == [e \in DOMAIN MCKind |-> IF e = "t1" THEN {"buyer", "seller"} ELSE {"buyer"}]

MCSettled(id, seq, time, buyer, seller) == [id |-> id, seq |-> seq, time |-> time, buyer |-> buyer, seller |-> seller]
MCSettledTrades ==
  << MCSettled(3, 1, 5, "alice", "bob"), MCSettled(1, 2, 5, "bob", "alice"), MCSettled(4, 3, 7, "alice", "alice"),
     MCSettled(3, 1, 5, "alice", "bob"), MCSettled(2, 4, 5, "alice", "bob") >>

MCExecuted(id, price, quantity, time) == [id |-> id, price |-> price, quantity |-> quantity, time |-> time]
MCExecutedTrades == << MCExecuted(2, 5, 1, 0), MCExecuted(1, 7, 2, 0), MCExecuted(3, 4, 1, 3), MCExecuted(2, 5, 1, 0) >>

MCTradeTopic == <<FALSE, TRUE, TRUE>>
MCAlone(asks) == [w1 |-> asks, w2 |-> {}]
MCIdle        == MCAlone({})
MCInterests ==
  {MCIdle, MCAlone({"orderbook"}), MCAlone({"ticker", "notifications"}), MCAlone({"trades", "notifications"}),
   [w1 |-> {"trades"}, w2 |-> {"trades"}]}

VARIABLE running
viewsVars == <<running, vars, notificationVars, historyVars, marketVars, gatewayVars>>

\* Started, with nothing settled and no position to open.
PortfolioRests ==
  /\ FeedInit /\ faults = MaxFaults /\ up = TRUE
  /\ next = 0 /\ committed = 0 /\ pc = "fetch" /\ processed = {} /\ dlq = {} /\ passed = {}
  /\ holding = NoHolding /\ seed = "ABSENT"
  /\ ostatus = [v \in Versions |-> "NONE"] /\ olapsed = {} /\ claimed = {} /\ sent = FALSE /\ updates = <<>>

\* An inactive market whose trades are all read.
MarketRests ==
  /\ marketStatus = "INACTIVE" /\ given = Len(ExecutedTrades) /\ acknowledged = given
  /\ marketTrades = {} /\ candles = {} /\ rolling = "fetch" /\ computed = [w \in Writers |-> <<>>]
  /\ redisTicker = NoTicker /\ clock = 0 /\ setbacks = 0

ViewsInit ==
  /\ running \in {"portfolio", "notification", "history", "market", "gateway"}
  /\ IF running = "portfolio" THEN Init ELSE PortfolioRests
  /\ NotificationInit /\ (log = MCEmpty <=> running # "notification")
  /\ TradeHistoryInit
  /\ IF running = "market" THEN MarketDataInit ELSE MarketRests
  /\ GatewayInit /\ (wants = MCIdle <=> running # "gateway")

ViewsNext ==
  /\ UNCHANGED running
  /\ \/ running = "portfolio"    /\ Next             /\ UNCHANGED <<notificationVars, historyVars, marketVars, gatewayVars>>
     \/ running = "notification" /\ NotificationNext /\ UNCHANGED <<vars, historyVars, marketVars, gatewayVars>>
     \/ running = "history"      /\ TradeHistoryNext /\ UNCHANGED <<vars, notificationVars, marketVars, gatewayVars>>
     \/ running = "market"       /\ MarketDataNext   /\ UNCHANGED <<vars, notificationVars, historyVars, gatewayVars>>
     \/ running = "gateway"      /\ GatewayNext      /\ UNCHANGED <<vars, notificationVars, historyVars, marketVars>>

ViewsSpec ==
  /\ ViewsInit /\ [][ViewsNext]_viewsVars
  /\ Fairness /\ NotificationFairness /\ MarketDataFairness /\ GatewayFairness
=============================================================================

SPECIFICATION ViewsSpec
CONSTANTS
  M = 2
  Trade <- MCTrade
  Seed <- MCSeed
  Scale = 8
  BatchSize = 2
  MaxRetries = 2
  MaxFaults = 2
  Topics <- MCTopics
  Logs <- MCLogs
  Kind <- MCKind
  Parties <- MCParties
  Calls <- MCCalls
  Publishers = {p1, p2}
  NoPublisher = NoPublisher
  OutboxBatch = 2
  MaxMishaps = 2
  SettledTrades <- MCSettledTrades
  Readers = {"alice", Tape}
  Tape = Tape
  PageLimit = 2
  MaxTroubles = 2
  ExecutedTrades <- MCExecutedTrades
  Resolutions = {2, 8}
  Day = 3
  MaxClock = 4
  MaxSetbacks = 2
  Clients = {"w1", "w2"}
  Feeds = {"orderbook", "ticker"}
  MaxVersion = 2
  TradeTopic <- MCTradeTopic
  Notices = {1}
  Interests <- MCInterests
  sendBufferSize = 1
  MaxJolts = 1
INVARIANTS  NotifiedOnce WalkShowsEachOnce CandlesAreTrades HubSound
PROPERTIES KeepsPosition TradesCarriedThrough EverythingDelivered TickerConverges 
CHECK_DEADLOCK FALSE

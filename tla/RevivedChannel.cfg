SPECIFICATION Spec

CONSTANTS
  Symbols = {"A"}
  MaxBufferSize = 2
  DropBatch = 1
  TradesOf <- TwoTrades
  BatchLimit = 2
  ChannelCapacity = 2
  FeedKinds <- TickerFeed
  ClientCommands <- TickerCommands
  InitialSubscriptions <- NoSubscriptions
  CommandCapacity = 2
  SocketCapacity = 1
  HasGovernor = FALSE
  TokensExpire = FALSE
  MaxMessages = 1
  MaxLosses = 1

INVARIANTS
  OnlyWantedSubscribed

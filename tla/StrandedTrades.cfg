SPECIFICATION FairSpec

CONSTANTS
  Symbols = {"A"}
  MaxBufferSize = 2
  DropBatch = 1
  TradesOf <- TwoTrades
  BatchLimit = 2
  ChannelCapacity = 2
  FeedKinds <- TradeFeed
  ClientCommands <- NoCommands
  InitialSubscriptions <- TradeSubscriptions
  CommandCapacity = 1
  SocketCapacity = 1
  HasGovernor = FALSE
  TokensExpire = FALSE
  MaxMessages = 3
  MaxLosses = 0

PROPERTIES
  AggregatesFlushed

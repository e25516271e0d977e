SPECIFICATION Spec

CONSTANTS
  Symbols = {"A"}
  MaxBufferSize = 2
  DropBatch = 1
  TradesOf <- TwoTrades
  BatchLimit = 2
  ChannelCapacity = 2
  FeedKinds <- MarketFeed
  ClientCommands <- NoCommands
  InitialSubscriptions <- MarketSubscriptions
  CommandCapacity = 1
  SocketCapacity = 1
  HasGovernor = FALSE
  TokensExpire = FALSE
  MaxMessages = 3
  MaxLosses = 0

PROPERTIES
  PriorityNotLost

SPECIFICATION FairSpec

CONSTANTS
  Symbols = {"A"}
  MaxBufferSize = 2
  DropBatch = 1
  TradesOf <- TwoTrades
  BatchLimit = 2
  ChannelCapacity = 1
  FeedKinds <- EngineFeed
  ClientCommands <- EngineCommands
  InitialSubscriptions <- EngineSubscriptions
  CommandCapacity = 2
  SocketCapacity = 1
  HasGovernor = FALSE
  TokensExpire = FALSE
  MaxMessages = 3
  MaxLosses = 1

INVARIANTS
  WantedSubscribed
  OrdersInSequence
PROPERTIES
  ImplementsPath
  ShutdownCompletes
  CommandAccepted
  BufferDrains

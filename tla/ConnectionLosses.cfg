SPECIFICATION Spec

SYMMETRY Symmetry

CONSTANTS
  A = A
  B = B
  Symbols = {A, B}
  MaxBufferSize = 2
  DropBatch = 1
  TradesOf <- HollowTrades
  BatchLimit = 2
  ChannelCapacity = 2
  FeedKinds <- LossFeed
  ClientCommands <- NoCommands
  InitialSubscriptions <- LossSubscriptions
  CommandCapacity = 1
  SocketCapacity = 1
  HasGovernor = TRUE
  TokensExpire = FALSE
  MaxMessages = 5
  MaxLosses = 0

PROPERTIES
  LossContract

SPECIFICATION Spec

CONSTANTS
  Symbols = {"A", "B"}
  MaxBufferSize = 3
  DropBatch = 2
  MaxMessages = 5
  FeedKinds <- MCFeedKinds

INVARIANTS
  TypeOK
  BufferConsistent
  LanesInOrder
  LatestKept

PROPERTIES
  NoQueueJump
  BoundedLoss
  ImplementsMailbox

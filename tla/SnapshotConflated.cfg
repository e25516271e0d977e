SPECIFICATION FairSpec

CONSTANTS
  Pairs = {"A"}
  BidPrices <- TwoBids
  AskPrices <- OneAsk
  MaxQuantity = 1
  DefaultMaxDepth = 1
  ChecksumDepth = 1
  FeedDepth = 1
  MaxFailures = 3
  CommandSlots = 1
  FeedCapacity = 2
  MaxChanges = 5
  MaxUpsets = 2
  MaxLosses = 0

PROPERTIES
  SnapshotArrives

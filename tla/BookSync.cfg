SPECIFICATION FairSpec

CONSTANTS
  Pairs = {"A"}
  BidPrices <- TwoBids
  AskPrices <- OneAsk
  MaxQuantity = 1
  DefaultMaxDepth = 1
  ChecksumDepth = 1
  FeedDepth = 1
  MaxFailures = 3
  CommandSlots = 2
  FeedCapacity = 2
  MaxChanges = 4
  MaxUpsets = 2
  MaxLosses = 1

INVARIANTS
  TypeOK
  InSync
  Listening
  StatusTruthful

PROPERTIES
  NoFalseAlarm
  RecoveryEnds


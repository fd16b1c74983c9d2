CONSTANTS
  TickLength = 1
  SellEvery = 1
  BuyEvery = 2
  DegradedSell = 2
  DegradedBuy = 3
  PartialFactor = 2
  WatchFactor = 3
  BaseBackoff = 2
  MaxBackoff = 5
  Doublings = 2
  BaseTransient = 1
  MaxTransient = 2
  TransientDoublings = 1
  Window = 4
  DegradedHits = 2
  DegradedCycles = 3
  DegradedFor = 3
SPECIFICATION FairSpec
PROPERTIES
  RequestsWait
  BalanceIsNotDrained
  HitsEscalate
  SellChecksResume
  BuyScansResume

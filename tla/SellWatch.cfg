CONSTANTS
  a = a  b = b  c = c
  NoSymbol = NoSymbol
  MaxHoldings = 3
  Orders <- MCOrders
  Modes = {"legacy", "lane"}
  Risks = {TRUE, FALSE}
  MaxMishaps = 1
SPECIFICATION FairSpec
INVARIANT RetryIsFirst
PROPERTY EveryHoldingIsWatched

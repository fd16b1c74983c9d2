SYMMETRY Symmetry
CONSTANTS
  Symbol = {a, b}
  NoSymbol = NoSymbol
  Horizon = 3
  DayLength = 3
  MaxOrders = 3
  MaxMishaps = 1
  DailyMax = 2
  SymbolMax = 2
  RecentMax = 2
  Rebuy = 1
  StopHold = 2
  StopDecay = 1
  FreshDecay = 1
  ProfitDecay = 1
  SwapDecay = 1
  Reasons = {"stop_loss", "other"}
  Detaching = TRUE
SPECIFICATION Spec
INVARIANTS DailyLimit SymbolLimit CooldownHolds
PROPERTIES StopLossHolds BlockedDayStaysBlocked

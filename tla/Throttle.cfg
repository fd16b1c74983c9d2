CONSTANTS
  t1 = t1  t2 = t2
  Thread <- MCThread
  Window = 6
  Limit = 3
  QuoteLimit = 2
  Interval = 2
  Buffer = 1
  Extra = 1
  PenaltyFor = 3
SPECIFICATION ThrottleSpec
INVARIANTS
  WindowBound
PROPERTIES
  SpacingHolds
  NoExcessAlone
  PairFits
SYMMETRY Symmetry

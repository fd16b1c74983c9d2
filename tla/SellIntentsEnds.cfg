CONSTANTS
  Held = 4
  MaxHolding = 4
  Modes = {"legacy"}
  OneTrigger = TRUE
  BlockResell = FALSE
  EmergencyTtl = 1
  SlowTtl = 2
  Mishaps = {"manual_sale", "balance_fails", "ambiguous", "save_fails", "crash"}
SPECIFICATION FairSpec
INVARIANT ReservedWithinHolding
PROPERTY ReservationEnds

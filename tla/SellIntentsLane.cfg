CONSTANTS
  Held = 4
  MaxHolding = 4
  Modes = {"lane"}
  OneTrigger = TRUE
  BlockResell = TRUE
  EmergencyTtl = 1
  SlowTtl = 2
  Mishaps = {}
SPECIFICATION FairSpec
PROPERTY ReservationEnds

CONSTANTS
  Held = 5
  MaxHolding = 6
  Modes = {"legacy", "lane"}
  OneTrigger = TRUE
  BlockResell = TRUE
  EmergencyTtl = 1
  SlowTtl = 2
  Mishaps = {"buy", "balance_fails"}
SPECIFICATION Spec
INVARIANTS
  AcceptedIsReserved
  NeverOversells

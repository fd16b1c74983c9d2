CONSTANTS
  Start = {s1, s2}
  NoStart = NoStart
  MaxMishaps = 1
SPECIFICATION SessionFairSpec
INVARIANTS
  OneSession
PROPERTIES
  LockComesFree

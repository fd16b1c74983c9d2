CONSTANTS
  Alert = {a1}
  Notifier = {n1, n2}
  NoAlert = NoAlert
  NoFile = NoFile
  MaxAttempts = 2
  Ttl = 1
  MaxTime = 2
  MaxMishaps = 2
  Mishaps = {"crash", "write_fails", "reboot"}
SPECIFICATION FairSpec
INVARIANT
  NothingForgotten
PROPERTIES
  NotSentAgain
  OutboxDrains

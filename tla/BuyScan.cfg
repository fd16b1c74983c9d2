CONSTANTS
  Scan = {s1, s2, s3}
  NoScan = NoScan
  Plans = {"reap", "overlap", "sync"}
  SubmitMayFail = TRUE
SPECIFICATION FairSpec
INVARIANTS
  OneScanAtATime
  OutcomeIsKept
  GuardHasOwner
PROPERTIES
  GuardIsReleased
  ImplementsScanHandoff

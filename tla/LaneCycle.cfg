CONSTANTS
  Hard = 8
  Floor = 3
  Deadline = 3
  Factory = 2
SPECIFICATION FairSpec
INVARIANT SellSurvivesTheScan
PROPERTIES
  CycleEnds
  ScanStartsAgain

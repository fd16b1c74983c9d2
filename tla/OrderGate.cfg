CONSTANTS
  Intent <- MCLaneBatch
  Worker = {t1, t2}
  NoIntent = NoIntent
  NoWorker = NoWorker
  TimeoutModes = {TRUE, FALSE}
  HandlerSets <- MCHandlers
SPECIFICATION FairSpec
INVARIANTS
  OneWriter
  DetachedIsRegistered
  PriorityRespected
  EveryIntentIsAccounted
PROPERTIES
  ImplementsSingleWriter
  GateReturns
  BlockingEnds

-------------------------- MODULE BuyScanRefinement --------------------------
(* BuyScan implements ScanHandoff. *)
EXTENDS BuyScan

(* The scan that runs: the scheduler thread's own, or the live worker's. *)
Running ==
  IF pc = "sync" THEN scan
  ELSE IF \E s \in Scan : Live(s) THEN CHOOSE s \in Scan : Live(s)
  ELSE NoScan

Owner == IF pc = "sync" THEN NoScan ELSE scan

Stage ==
  IF Owner = NoScan THEN "off"
  ELSE IF pc = "submit" THEN "claimed"
  ELSE "launched"

Collected == IF result.status \in {"joined", "failed"} THEN result.scan ELSE NoScan

Handoff == INSTANCE ScanHandoff
  WITH worker <- Running, owner <- Owner, stage <- Stage, outcome <- Collected,
       handed <- delivered

(* The controller, its run guard, its handle and its callbacks, seen from  *)
(* the cycle and from the worker, hand each outcome over as ScanHandoff    *)
(* does.                                                                   *)
ImplementsScanHandoff == Handoff!Spec
=============================================================================

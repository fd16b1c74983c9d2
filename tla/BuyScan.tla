------------------------------- MODULE BuyScan -------------------------------
(***************************************************************************)
(* The BUY scan controller (app/pipeline/buy_lane.py) with its run guard   *)
(* (app/pipeline/scan_lock.py).                                            *)
(*                                                                         *)
(* A cycle that may buy starts one scan: either it prefetches quotes on a  *)
(* background worker while the SELL lane runs, and joins that worker later *)
(* (overlap), or it prefetches them itself (sync).  The worker outlives    *)
(* the cycle when the join times out.  The process-wide controller keeps   *)
(* scans from overlapping and hands a finished worker's result to the join *)
(* of the cycle that started it, and to no other.                          *)
(*                                                                         *)
(* The scheduler thread (pc) interleaves with the workers, whose done      *)
(* callback takes the controller's lock; every region under that lock is   *)
(* one action.                                                             *)
(***************************************************************************)
EXTENDS Naturals, FiniteSets

CONSTANTS
  Scan,           \* scan ids; each stands for its handle, future and executor too
  NoScan,         \* None
  Plans,          \* what a cycle does with the controller, see AllPlans
  SubmitMayFail   \* whether executor.submit may raise (no thread to be had)

AllPlans == {"reap", "overlap", "sync"}

ASSUME ScanAssumption == NoScan \notin Scan
ASSUME PlanAssumption == Plans \subseteq AllPlans /\ SubmitMayFail \in BOOLEAN

VARIABLES
  pc,        \* where the scheduler thread is
  plan,      \* what the cycle came to the controller for
  scan,      \* the scan this cycle was allowed to start
  handle,    \* the handle a controller method holds in a local variable
  result,    \* what the last join of this cycle returned
  delivered, \* how many joins of this cycle brought an outcome (capped at 2)
  guard,     \* BuyScanRunGuard.running_scan_id
  active,    \* active_prefetch
  last,      \* last_completed: the scan whose outcome it holds
  future,    \* each scan's future
  callback,  \* scans whose done callback has not run yet
  stale,     \* handles marked stale
  lost       \* scans whose submit raised: nothing ever finishes them

thread     == <<pc, plan, scan, handle, result, delivered>>
controller == <<guard, active, last, stale, lost>>
workers    == <<future, callback>>
vars == <<thread, controller, workers>>

Pcs       == {"idle", "reaping", "try", "sync", "submit", "publish", "add_callback",
              "cycle", "wait", "timed_out"}
Endings   == {"ok", "error", "timeout_error"}
Futures   == {"none", "pending", "running", "cancelled"} \cup Endings
Joins     == [status : {"none", "joined", "failed", "timeout"},
              scan : Scan \cup {NoScan}, done : BOOLEAN]
NoJoin    == [status |-> "none", scan |-> NoScan, done |-> FALSE]

TypeOK ==
  /\ pc \in Pcs
  /\ plan \in AllPlans
  /\ {scan, handle, guard, active, last} \subseteq Scan \cup {NoScan}
  /\ result \in Joins
  /\ delivered \in 0..2
  /\ future \in [Scan -> Futures]
  /\ callback \subseteq Scan
  /\ stale \subseteq Scan
  /\ lost \subseteq Scan

Init ==
  /\ pc = "idle" /\ plan = "reap"
  /\ scan = NoScan /\ handle = NoScan
  /\ result = NoJoin /\ delivered = 0
  /\ guard = NoScan /\ active = NoScan /\ last = NoScan
  /\ future = [s \in Scan |-> "none"]
  /\ callback = {} /\ stale = {} /\ lost = {}

(* The worker has not finished: future.done() is false. *)
Live(s) == future[s] \in {"pending", "running"}

(* Nothing refers to scan id s any more, so it can stand for a new scan. *)
Fresh(s) == s \notin {scan, guard, active, last} \cup callback /\ ~Live(s)

-----------------------------------------------------------------------------
(* guard.finish(scan_id=s): only the holder can release the guard. *)
Release(s) == guard' = IF guard = s THEN NoScan ELSE guard

(* _finish_locked on the active handle; on another one it only releases.   *)
Finish(s) ==
  /\ Release(s)
  /\ active' = IF active = s THEN NoScan ELSE active

(* The outcome a join reports for a finished worker. *)
Outcome(s) == [status |-> IF future[s] = "ok" THEN "joined" ELSE "failed",
               scan |-> s, done |-> TRUE]

Deliver(join) ==
  /\ result' = join
  /\ delivered' = IF join.status \in {"joined", "failed"} /\ delivered < 2
                  THEN delivered + 1 ELSE delivered

-----------------------------------------------------------------------------
(* reap_completed, first lock region: called by every cycle (plan "reap")  *)
(* and by try_start_scan.  A live worker past its TTL is marked stale,     *)
(* which frees the guard but leaves the handle active.                     *)
AfterReap(p) == IF p = "reap" THEN "idle" ELSE "try"

ReapNothing(p) ==
  /\ pc = "idle" /\ active = NoScan
  /\ plan' = p /\ pc' = AfterReap(p)
  /\ UNCHANGED <<scan, handle, result, delivered, controller, workers>>

ReapRunning(p) ==
  /\ pc = "idle" /\ active # NoScan /\ Live(active)
  /\ plan' = p /\ pc' = AfterReap(p)
  /\ \/ UNCHANGED <<guard, stale>>
     \/ stale' = stale \cup {active} /\ Release(active)
  /\ UNCHANGED <<scan, handle, result, delivered, active, last, lost, workers>>

ReapDone(p) ==
  /\ pc = "idle" /\ active # NoScan /\ ~Live(active)
  /\ plan' = p /\ pc' = "reaping"
  /\ handle' = active
  /\ UNCHANGED <<scan, result, delivered, controller, workers>>

(* Second lock region: the callback may have come in between. *)
Reaped ==
  /\ pc = "reaping"
  /\ IF active = handle THEN Finish(handle) ELSE UNCHANGED <<guard, active>>
  /\ last' = NoScan
  /\ handle' = NoScan
  /\ pc' = AfterReap(plan)
  /\ UNCHANGED <<plan, scan, result, delivered, stale, lost, workers>>

(* try_start_scan: a live worker denies the scan even when it is stale and *)
(* its guard is free; otherwise the guard decides.                         *)
WorkerBusy == active # NoScan /\ Live(active)

StartDenied ==
  /\ pc = "try"
  /\ WorkerBusy \/ guard # NoScan
  /\ pc' = "idle"
  /\ UNCHANGED <<plan, scan, handle, result, delivered, controller, workers>>

(* Mutant: the guard alone decides, although a TTL frees it. *)
StartAllowed_GuardOnly(s) ==
  /\ pc = "try"
  /\ guard = NoScan
  /\ Fresh(s)
  /\ guard' = s
  /\ last' = NoScan
  /\ scan' = s
  /\ future' = [future EXCEPT ![s] = "none"]
  /\ stale' = stale \ {s}
  /\ pc' = IF plan = "sync" THEN "sync" ELSE "submit"
  /\ UNCHANGED <<plan, handle, result, delivered, active, lost, callback>>

StartAllowed(s) ==
  /\ pc = "try"
  /\ ~WorkerBusy /\ guard = NoScan
  /\ Fresh(s)
  /\ guard' = s
  /\ last' = NoScan
  /\ scan' = s
  /\ future' = [future EXCEPT ![s] = "none"]
  /\ stale' = stale \ {s}
  /\ pc' = IF plan = "sync" THEN "sync" ELSE "submit"
  /\ UNCHANGED <<plan, handle, result, delivered, active, lost, callback>>

(* BuyLane.run: the scheduler thread prefetches, evaluates, and releases   *)
(* the guard in a finally (or at once, when the budget is gone).           *)
SyncScanEnds ==
  /\ pc = "sync"
  /\ Release(scan)
  /\ scan' = NoScan
  /\ pc' = "idle"
  /\ UNCHANGED <<plan, handle, result, delivered, active, last, stale, lost, workers>>

-----------------------------------------------------------------------------
(* start_quote_prefetch after an allowed start: submit, publish the handle *)
(* under the lock, then add the callback.                                  *)
Submit ==
  /\ pc = "submit"
  /\ future' = [future EXCEPT ![scan] = "pending"]
  /\ pc' = "publish"
  /\ UNCHANGED <<plan, scan, handle, result, delivered, controller, callback>>

(* submit() raises: the exception leaves run_cycle, the guard stays taken. *)
SubmitFails ==
  /\ SubmitMayFail
  /\ pc = "submit"
  /\ lost' = lost \cup {scan}
  /\ scan' = NoScan
  /\ pc' = "idle"
  /\ UNCHANGED <<plan, handle, result, delivered, guard, active, last, stale, workers>>

Publish ==
  /\ pc = "publish"
  /\ last' = NoScan
  /\ active' = scan
  /\ pc' = "add_callback"
  /\ UNCHANGED <<plan, scan, handle, result, delivered, guard, stale, lost, workers>>

(* Mutant: the callback leaves the guard to the join. *)
FinishIfActive_KeepsGuard(s) ==
  IF active = s THEN last' = s /\ active' = NoScan /\ UNCHANGED guard
  ELSE UNCHANGED <<guard, active, last>>

(* Mutant: the outcome of a worker that ends before its join is dropped. *)
FinishIfActive_Discards(s) ==
  IF active = s THEN last' = NoScan /\ Finish(s) ELSE UNCHANGED <<guard, active, last>>

(* _finish_if_active: the callback of a handle that is no longer active    *)
(* does nothing; the active one's outcome is kept for the join.            *)
FinishIfActive(s) ==
  IF active = s THEN last' = s /\ Finish(s) ELSE UNCHANGED <<guard, active, last>>

(* Mutant: no callback runs for a future that is done already. *)
AddCallback_MissesDone ==
  /\ pc = "add_callback"
  /\ callback' = IF Live(scan) THEN callback \cup {scan} ELSE callback
  /\ pc' = "cycle"
  /\ UNCHANGED <<plan, scan, handle, result, delivered, guard, active, last, stale, lost, future>>

(* On a future that is done already the callback runs at once. *)
AddCallback ==
  /\ pc = "add_callback"
  /\ IF Live(scan)
     THEN callback' = callback \cup {scan} /\ UNCHANGED <<guard, active, last>>
     ELSE FinishIfActive(scan) /\ UNCHANGED callback
  /\ pc' = "cycle"
  /\ UNCHANGED <<plan, scan, handle, result, delivered, stale, lost, future>>

-----------------------------------------------------------------------------
(* join_active_prefetch, first lock region: with no active handle it hands *)
(* out what the callback kept; otherwise it waits.                         *)
JoinFinished ==
  /\ pc = "cycle" /\ active = NoScan
  /\ Deliver(IF last # NoScan THEN Outcome(last) ELSE NoJoin)
  /\ last' = NoScan
  /\ UNCHANGED <<pc, plan, scan, handle, guard, active, stale, lost, workers>>

JoinWaits ==
  /\ pc = "cycle" /\ active # NoScan
  /\ handle' = active
  /\ pc' = "wait"
  /\ UNCHANGED <<plan, scan, result, delivered, controller, workers>>

(* future.result() returns, or raises what the worker raised. *)
JoinReturns ==
  /\ pc = "wait" /\ ~Live(handle) /\ future[handle] # "timeout_error"
  /\ IF active = handle THEN Finish(handle) ELSE UNCHANGED <<guard, active>>
  /\ last' = NoScan
  /\ Deliver(Outcome(handle))
  /\ handle' = NoScan
  /\ pc' = "cycle"
  /\ UNCHANGED <<plan, scan, stale, lost, workers>>

(* Mutant: a wait that times out is taken for a worker that failed. *)
JoinTimesOut_AsFailure ==
  /\ pc = "wait"
  /\ Live(handle) \/ future[handle] = "timeout_error"
  /\ IF active = handle THEN Finish(handle) ELSE UNCHANGED <<guard, active>>
  /\ last' = NoScan
  /\ Deliver(Outcome(handle))
  /\ handle' = NoScan
  /\ pc' = "cycle"
  /\ UNCHANGED <<plan, scan, stale, lost, workers>>

(* except TimeoutError: the wait's own, or -- it is the same class -- one  *)
(* the worker's network read raised.                                       *)
JoinTimesOut ==
  /\ pc = "wait"
  /\ Live(handle) \/ future[handle] = "timeout_error"
  /\ pc' = "timed_out"
  /\ UNCHANGED <<plan, scan, handle, result, delivered, controller, workers>>

(* _shutdown cancels a worker that has not started, and its callback runs  *)
(* here; then the timeout is reported with what future.done() says now.    *)
ReportTimeout ==
  /\ pc = "timed_out"
  /\ IF future[handle] = "pending"
     THEN /\ future' = [future EXCEPT ![handle] = "cancelled"]
          /\ callback' = callback \ {handle}
          /\ FinishIfActive(handle)
     ELSE UNCHANGED <<workers, guard, active, last>>
  /\ Deliver([status |-> "timeout", scan |-> handle, done |-> future'[handle] # "running"])
  /\ handle' = NoScan
  /\ pc' = "cycle"
  /\ UNCHANGED <<plan, scan, stale, lost>>

(* The cycle ends, or is aborted by an exception, joined or not. *)
EndCycle ==
  /\ pc = "cycle"
  /\ scan' = NoScan /\ result' = NoJoin /\ delivered' = 0
  /\ pc' = "idle"
  /\ UNCHANGED <<plan, handle, controller, workers>>

-----------------------------------------------------------------------------
(* The worker thread; the callback comes after the result is visible.      *)
WorkerStarts(s) ==
  /\ future[s] = "pending"
  /\ future' = [future EXCEPT ![s] = "running"]
  /\ UNCHANGED <<thread, controller, callback>>

WorkerEnds(s, r) ==
  /\ future[s] = "running"
  /\ future' = [future EXCEPT ![s] = r]
  /\ UNCHANGED <<thread, controller, callback>>

DoneCallback(s) ==
  /\ s \in callback /\ ~Live(s)
  /\ callback' = callback \ {s}
  /\ FinishIfActive(s)
  /\ UNCHANGED <<thread, stale, lost, future>>

WorkerStep(s) == WorkerStarts(s) \/ DoneCallback(s) \/ \E r \in Endings : WorkerEnds(s, r)

Reap == \E p \in Plans : ReapNothing(p) \/ ReapRunning(p) \/ ReapDone(p)

(* What the scheduler thread does without waiting for anyone. *)
Controller ==
  \/ Reaped
  \/ StartDenied
  \/ \E s \in Scan : StartAllowed(s)
  \/ SyncScanEnds
  \/ Submit \/ SubmitFails \/ Publish \/ AddCallback
  \/ JoinReturns \/ JoinTimesOut \/ ReportTimeout

Next ==
  \/ Reap
  \/ Controller
  \/ JoinFinished \/ JoinWaits \/ EndCycle
  \/ \E s \in Scan : WorkerStep(s)

Spec == Init /\ [][Next]_vars

(* Workers end (each request has a timeout and finitely many attempts) and *)
(* run their callbacks; the scheduler thread finishes what it is at and    *)
(* never stays in a cycle.                                                 *)
Fairness ==
  /\ \A s \in Scan :
       /\ WF_vars(WorkerStarts(s))
       /\ WF_vars(\E r \in Endings : WorkerEnds(s, r))
       /\ WF_vars(DoneCallback(s))
  /\ WF_vars(Controller)

FairSpec == Spec /\ Fairness

-----------------------------------------------------------------------------
(* Scans do not overlap: one worker is alive at most, whether it was       *)
(* joined, abandoned, timed out or marked stale, and none is while the     *)
(* scheduler thread scans by itself.                                       *)
OneScanAtATime ==
  /\ \A s, t \in Scan : Live(s) /\ Live(t) => s = t
  /\ pc = "sync" => \A s \in Scan : ~Live(s)

(* A cycle buys on its own quotes: a join never returns the outcome of an  *)
(* earlier cycle's worker, however late that worker finished.  This and    *)
(* the next are parts of ScanHandoff, which BuyScanRefinement checks.      *)
JoinIsOwn == result.scan \in {NoScan, scan}

(* The outcome of a scan is handed out once, although finalize_cycle joins *)
(* again after the buy phase did: a rate limit it carries is counted once. *)
DeliveredOnce == delivered <= 1

(* buy_lane.py:71-74: a result that is complete before the join is not     *)
(* "discarded in the race" with the done callback.  A cycle that finds no  *)
(* active worker any more finds its outcome instead, unless it has it.     *)
OutcomeIsKept == pc = "cycle" /\ active = NoScan => last = scan \/ delivered > 0

(* Whoever holds the guard will release it: the scheduler thread is at     *)
(* that scan, or the scan's worker is alive or about to run its callback.  *)
(* The one exception is a scan whose submit raised.                        *)
GuardHasOwner ==
  guard # NoScan =>
    \/ guard \in lost
    \/ guard = scan /\ pc \in {"sync", "submit", "publish"}
    \/ guard = active /\ (Live(guard) \/ guard \in callback \/ pc = "add_callback")

(* A scan that holds the guard gives it back, joined or not; only a submit *)
(* that raised keeps it, for good.                                         *)
GuardIsReleased == \A s \in Scan : guard = s ~> guard # s \/ s \in lost
=============================================================================

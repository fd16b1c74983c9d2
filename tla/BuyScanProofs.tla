---------------------------- MODULE BuyScanProofs ----------------------------
(***************************************************************************)
(* Proofs about BuyScan, for any set of scans and any plans.               *)
(*                                                                         *)
(* What a live worker is known by, and what the controller holds on behalf *)
(* of the scheduler in each place the scheduler can be at, is inductive;   *)
(* the safety properties of the module are its consequences, and so is     *)
(* that each step is one of ScanHandoff.                                   *)
(***************************************************************************)
EXTENDS BuyScanRefinement, TLAPS

(* Where the scheduler is with a scan it has not published yet. *)
Starting == {"sync", "submit", "publish"}

(* Where the scheduler may hold what a join returned. *)
Collecting == {"cycle", "wait", "timed_out"}

(* A live worker is the active one and has a callback coming, or it is     *)
(* about to become so.  Before a scan is published no other worker lives.  *)
LiveIsKnown ==
  /\ \A s \in Scan : Live(s) =>
       \/ s = scan /\ pc = "publish"
       \/ s = active /\ (s \in callback \/ pc = "add_callback")
  /\ pc \in {"sync", "submit"} => \A s \in Scan : ~Live(s)
  /\ pc = "publish" => \A s \in Scan : Live(s) => s = scan

(* A starting scan holds the guard, and nobody else knows of it. *)
StartIsOwn ==
  /\ pc \in Starting => scan \in Scan /\ scan # active /\ scan \notin callback /\ guard = scan
  /\ pc = "add_callback" => scan \in Scan /\ active = scan /\ scan \notin callback

(* From publication on, what the controller keeps is this cycle's own. *)
CycleIsOwn ==
  /\ pc \in Collecting \cup {"add_callback"} => {active, last} \subseteq {NoScan, scan}
  /\ pc \in {"wait", "timed_out"} => handle = scan /\ scan \in Scan
  /\ pc = "reaping" => handle \in Scan /\ ~Live(handle)

(* Nothing is left to be handed out once an outcome was. *)
HandedOut ==
  /\ pc \notin Collecting => result = NoJoin
  /\ pc # "cycle" => delivered = 0
  /\ delivered # 0 => active = NoScan /\ last = NoScan

(* A cycle has its scan from the start to its end, and until a join brings *)
(* the outcome, it is to come or kept.                                     *)
OwnIsKept ==
  /\ pc \in {"idle", "reaping", "try"} => scan = NoScan
  /\ pc \in Collecting => scan \in Scan
  /\ pc \in Collecting /\ active = NoScan => last = scan \/ delivered > 0
  /\ result.status \in {"joined", "failed"} => result.scan = scan /\ delivered > 0

Control == LiveIsKnown /\ StartIsOwn /\ CycleIsOwn /\ HandedOut /\ OwnIsKept

IInv == TypeOK /\ Control /\ JoinIsOwn /\ DeliveredOnce /\ GuardHasOwner

-----------------------------------------------------------------------------
USE ScanAssumption, PlanAssumption DEF Live, thread, controller, workers

LEMMA InitIInv == Init => IInv
BY DEF Init, IInv, TypeOK, Control, LiveIsKnown, StartIsOwn, CycleIsOwn, HandedOut, OwnIsKept, JoinIsOwn,
       DeliveredOnce, GuardHasOwner, Starting, Collecting, Pcs, Futures, Joins, NoJoin, AllPlans

(* No step takes a variable out of its type. *)
LEMMA TypeStep == IInv /\ [Next]_vars => TypeOK'
<1> SUFFICES ASSUME IInv, [Next]_vars PROVE TypeOK'
  OBVIOUS
<1> USE DEF IInv, TypeOK, Control, StartIsOwn, CycleIsOwn, Starting, Collecting,
            Pcs, Endings, Futures, Joins, NoJoin, AllPlans
<1>1. ASSUME NEW p \in Plans, ReapNothing(p) PROVE TypeOK'
  BY <1>1 DEF ReapNothing, AfterReap
<1>2. ASSUME NEW p \in Plans, ReapRunning(p) PROVE TypeOK'
  BY <1>2 DEF ReapRunning, AfterReap, Release
<1>3. ASSUME NEW p \in Plans, ReapDone(p) PROVE TypeOK'
  BY <1>3 DEF ReapDone
<1>4. CASE Reaped
  BY <1>4 DEF Reaped, Finish, Release, AfterReap
<1>5. CASE StartDenied
  BY <1>5 DEF StartDenied
<1>6. ASSUME NEW s \in Scan, StartAllowed(s) PROVE TypeOK'
  BY <1>6 DEF StartAllowed, WorkerBusy, Fresh
<1>7. CASE SyncScanEnds
  BY <1>7 DEF SyncScanEnds, Release
<1>8. CASE Submit
  BY <1>8 DEF Submit
<1>9. CASE SubmitFails
  BY <1>9 DEF SubmitFails
<1>10. CASE Publish
  BY <1>10 DEF Publish
<1>11. CASE AddCallback
  BY <1>11 DEF AddCallback, FinishIfActive, Finish, Release
<1>12. CASE JoinReturns
  BY <1>12 DEF JoinReturns, Finish, Release, Deliver, Outcome
<1>13. CASE JoinTimesOut
  BY <1>13 DEF JoinTimesOut
<1>14. CASE ReportTimeout
  BY <1>14 DEF ReportTimeout, FinishIfActive, Finish, Release, Deliver
<1>15. CASE JoinFinished
  BY <1>15 DEF JoinFinished, Deliver, Outcome
<1>16. CASE JoinWaits
  BY <1>16 DEF JoinWaits
<1>17. CASE EndCycle
  BY <1>17 DEF EndCycle
<1>18. ASSUME NEW s \in Scan, WorkerStarts(s) PROVE TypeOK'
  BY <1>18 DEF WorkerStarts
<1>19. ASSUME NEW s \in Scan, NEW r \in Endings, WorkerEnds(s, r) PROVE TypeOK'
  BY <1>19 DEF WorkerEnds
<1>20. ASSUME NEW s \in Scan, DoneCallback(s) PROVE TypeOK'
  BY <1>20 DEF DoneCallback, FinishIfActive, Finish, Release
<1>21. CASE UNCHANGED vars
  BY <1>21 DEF vars
<1> HIDE DEF IInv, TypeOK, Control, StartIsOwn, CycleIsOwn, Starting, Collecting,
            Pcs, Endings, Futures, Joins, NoJoin, AllPlans
<1> QED
  BY <1>1, <1>2, <1>3, <1>4, <1>5, <1>6, <1>7, <1>8, <1>9, <1>10, <1>11,
     <1>12, <1>13, <1>14, <1>15, <1>16, <1>17, <1>18, <1>19, <1>20, <1>21
  DEF Next, Reap, Controller, WorkerStep

(* What each step does to the scan that starts, lives or is handed out. *)
LEMMA ControlStep == IInv /\ [Next]_vars => Control'
<1> SUFFICES ASSUME IInv, [Next]_vars PROVE Control'
  OBVIOUS
<1> USE DEF IInv, TypeOK, Control, LiveIsKnown, StartIsOwn, CycleIsOwn, HandedOut, OwnIsKept,
            Starting, Collecting, Pcs, Endings, Futures, Joins, NoJoin, AllPlans
<1>1. ASSUME NEW p \in Plans, ReapNothing(p) PROVE Control'
  BY <1>1 DEF ReapNothing, AfterReap
<1>2. ASSUME NEW p \in Plans, ReapRunning(p) PROVE Control'
  BY <1>2 DEF ReapRunning, AfterReap, Release
<1>3. ASSUME NEW p \in Plans, ReapDone(p) PROVE Control'
  BY <1>3 DEF ReapDone
<1>4. CASE Reaped
  BY <1>4 DEF Reaped, Finish, Release, AfterReap
<1>5. CASE StartDenied
  BY <1>5 DEF StartDenied
<1>6. ASSUME NEW s \in Scan, StartAllowed(s) PROVE Control'
  BY <1>6 DEF StartAllowed, WorkerBusy, Fresh
<1>7. CASE SyncScanEnds
  BY <1>7 DEF SyncScanEnds, Release
<1>8. CASE Submit
  BY <1>8 DEF Submit
<1>9. CASE SubmitFails
  BY <1>9 DEF SubmitFails
<1>10. CASE Publish
  BY <1>10 DEF Publish
<1>11. CASE AddCallback
  BY <1>11 DEF AddCallback, FinishIfActive, Finish, Release
<1>12. CASE JoinReturns
  BY <1>12 DEF JoinReturns, Finish, Release, Deliver, Outcome
<1>13. CASE JoinTimesOut
  BY <1>13 DEF JoinTimesOut
<1>14. CASE ReportTimeout
  BY <1>14 DEF ReportTimeout, FinishIfActive, Finish, Release, Deliver
<1>15. CASE JoinFinished
  BY <1>15 DEF JoinFinished, Deliver, Outcome
<1>16. CASE JoinWaits
  BY <1>16 DEF JoinWaits
<1>17. CASE EndCycle
  BY <1>17 DEF EndCycle
<1>18. ASSUME NEW s \in Scan, WorkerStarts(s) PROVE Control'
  BY <1>18 DEF WorkerStarts
<1>19. ASSUME NEW s \in Scan, NEW r \in Endings, WorkerEnds(s, r) PROVE Control'
  BY <1>19 DEF WorkerEnds
<1>20. ASSUME NEW s \in Scan, DoneCallback(s) PROVE Control'
  BY <1>20 DEF DoneCallback, FinishIfActive, Finish, Release
<1>21. CASE UNCHANGED vars
  BY <1>21 DEF vars
<1> HIDE DEF IInv, TypeOK, Control, LiveIsKnown, StartIsOwn, CycleIsOwn, HandedOut, OwnIsKept,
            Starting, Collecting, Pcs, Endings, Futures, Joins, NoJoin, AllPlans
<1> QED
  BY <1>1, <1>2, <1>3, <1>4, <1>5, <1>6, <1>7, <1>8, <1>9, <1>10, <1>11,
     <1>12, <1>13, <1>14, <1>15, <1>16, <1>17, <1>18, <1>19, <1>20, <1>21
  DEF Next, Reap, Controller, WorkerStep

(* The properties of joins and of the guard. *)
LEMMA PropertyStep == IInv /\ [Next]_vars => JoinIsOwn' /\ DeliveredOnce' /\ GuardHasOwner'
<1> SUFFICES ASSUME IInv, [Next]_vars PROVE JoinIsOwn' /\ DeliveredOnce' /\ GuardHasOwner'
  OBVIOUS
<1> USE DEF IInv, TypeOK, Control, LiveIsKnown, StartIsOwn, CycleIsOwn, HandedOut,
            JoinIsOwn, DeliveredOnce, GuardHasOwner, Starting, Collecting, Pcs, Endings, Futures, Joins, NoJoin, AllPlans
<1>1. ASSUME NEW p \in Plans, ReapNothing(p) PROVE JoinIsOwn' /\ DeliveredOnce' /\ GuardHasOwner'
  BY <1>1 DEF ReapNothing, AfterReap
<1>2. ASSUME NEW p \in Plans, ReapRunning(p) PROVE JoinIsOwn' /\ DeliveredOnce' /\ GuardHasOwner'
  BY <1>2 DEF ReapRunning, AfterReap, Release
<1>3. ASSUME NEW p \in Plans, ReapDone(p) PROVE JoinIsOwn' /\ DeliveredOnce' /\ GuardHasOwner'
  BY <1>3 DEF ReapDone
<1>4. CASE Reaped
  BY <1>4 DEF Reaped, Finish, Release, AfterReap
<1>5. CASE StartDenied
  BY <1>5 DEF StartDenied
<1>6. ASSUME NEW s \in Scan, StartAllowed(s) PROVE JoinIsOwn' /\ DeliveredOnce' /\ GuardHasOwner'
  BY <1>6 DEF StartAllowed, WorkerBusy, Fresh
<1>7. CASE SyncScanEnds
  BY <1>7 DEF SyncScanEnds, Release
<1>8. CASE Submit
  BY <1>8 DEF Submit
<1>9. CASE SubmitFails
  BY <1>9 DEF SubmitFails
<1>10. CASE Publish
  BY <1>10 DEF Publish
<1>11. CASE AddCallback
  BY <1>11 DEF AddCallback, FinishIfActive, Finish, Release
<1>12. CASE JoinReturns
  BY <1>12 DEF JoinReturns, Finish, Release, Deliver, Outcome
<1>13. CASE JoinTimesOut
  BY <1>13 DEF JoinTimesOut
<1>14. CASE ReportTimeout
  BY <1>14 DEF ReportTimeout, FinishIfActive, Finish, Release, Deliver
<1>15. CASE JoinFinished
  BY <1>15 DEF JoinFinished, Deliver, Outcome
<1>16. CASE JoinWaits
  BY <1>16 DEF JoinWaits
<1>17. CASE EndCycle
  BY <1>17 DEF EndCycle
<1>18. ASSUME NEW s \in Scan, WorkerStarts(s) PROVE JoinIsOwn' /\ DeliveredOnce' /\ GuardHasOwner'
  BY <1>18 DEF WorkerStarts
<1>19. ASSUME NEW s \in Scan, NEW r \in Endings, WorkerEnds(s, r) PROVE JoinIsOwn' /\ DeliveredOnce' /\ GuardHasOwner'
  BY <1>19 DEF WorkerEnds
<1>20. ASSUME NEW s \in Scan, DoneCallback(s) PROVE JoinIsOwn' /\ DeliveredOnce' /\ GuardHasOwner'
  BY <1>20 DEF DoneCallback, FinishIfActive, Finish, Release
<1>21. CASE UNCHANGED vars
  BY <1>21 DEF vars
<1> HIDE DEF IInv, TypeOK, Control, LiveIsKnown, StartIsOwn, CycleIsOwn, HandedOut,
            JoinIsOwn, DeliveredOnce, GuardHasOwner, Starting, Collecting, Pcs, Endings, Futures, Joins, NoJoin, AllPlans
<1> QED
  BY <1>1, <1>2, <1>3, <1>4, <1>5, <1>6, <1>7, <1>8, <1>9, <1>10, <1>11,
     <1>12, <1>13, <1>14, <1>15, <1>16, <1>17, <1>18, <1>19, <1>20, <1>21
  DEF Next, Reap, Controller, WorkerStep

-----------------------------------------------------------------------------
LEMMA Invariant == Spec => []IInv
<1>1. Init => IInv
  BY InitIInv
<1>2. IInv /\ [Next]_vars => IInv'
  BY TypeStep, ControlStep, PropertyStep DEF IInv
<1> QED
  BY <1>1, <1>2, PTL DEF Spec

(* Every variable of the controller keeps its type (buy_lane.py).          *)
THEOREM TypeCorrect == Spec => []TypeOK
<1>1. IInv => TypeOK
  BY DEF IInv
<1> QED
  BY <1>1, Invariant, PTL

(* However many workers were abandoned, timed out or marked stale, two     *)
(* scans never run together (buy_lane.py:136).                             *)
THEOREM OneScanAlways == Spec => []OneScanAtATime
<1>1. IInv => OneScanAtATime
  BY DEF IInv, Control, LiveIsKnown, OneScanAtATime
<1> QED
  BY <1>1, Invariant, PTL

(* What a join hands out is of this cycle, never of an earlier one         *)
(* (buy_lane.py:220).                                                      *)
THEOREM JoinsAlways == Spec => []JoinIsOwn
<1>1. IInv => JoinIsOwn
  BY DEF IInv
<1> QED
  BY <1>1, Invariant, PTL

(* A result is handed out once: after that nobody can collect it again     *)
(* (buy_lane.py:204-240).                                                  *)
THEOREM DeliveredOnceAlways == Spec => []DeliveredOnce
<1>1. IInv => DeliveredOnce
  BY DEF IInv
<1> QED
  BY <1>1, Invariant, PTL

(* A cycle whose worker is through has its outcome or will be handed it:   *)
(* the done callback loses none (buy_lane.py:71-74).                       *)
THEOREM OutcomeKeptAlways == Spec => []OutcomeIsKept
<1>1. IInv => OutcomeIsKept
  BY DEF IInv, Control, OwnIsKept, Collecting, OutcomeIsKept
<1> QED
  BY <1>1, Invariant, PTL

(* The guard is never held by a scan that nothing will finish, unless its  *)
(* submit raised (scan_lock.py, buy_lane.py:172).                          *)
THEOREM GuardOwnedAlways == Spec => []GuardHasOwner
<1>1. IInv => GuardHasOwner
  BY DEF IInv
<1> QED
  BY <1>1, Invariant, PTL

-----------------------------------------------------------------------------
(* What the refinement mapping comes to in a state that satisfies the      *)
(* invariant: the live worker is unique, so the CHOOSE names it.           *)
RunningFacts ==
  /\ pc = "sync" => Running = scan
  /\ pc # "sync" => \A s \in Scan : Live(s) => Running = s
  /\ pc # "sync" /\ (\A s \in Scan : ~Live(s)) => Running = NoScan

LEMMA RunningMapped == IInv => RunningFacts
<1> SUFFICES ASSUME IInv PROVE RunningFacts
  OBVIOUS
<1>1. \A s, t \in Scan : Live(s) /\ Live(t) => s = t
  BY DEF IInv, Control, LiveIsKnown
<1>2. ASSUME pc # "sync", NEW s \in Scan, Live(s) PROVE Running = s
  <2> DEFINE t == CHOOSE x \in Scan : Live(x)
  <2>1. t \in Scan /\ Live(t)
    BY <1>2
  <2>2. t = s
    BY <1>1, <1>2, <2>1
  <2>3. Running = t
    BY <1>2 DEF Running
  <2> QED
    BY <2>2, <2>3
<1>3. pc # "sync" /\ (\A s \in Scan : ~Live(s)) => Running = NoScan
  BY DEF Running
<1>4. pc = "sync" => Running = scan
  BY DEF Running
<1> QED
  BY <1>2, <1>3, <1>4 DEF RunningFacts

Mapped == IInv /\ RunningFacts

Unseen == UNCHANGED <<Running, Owner, Stage, Collected, delivered>>

(* What ScanHandoff can see. *)
LEMMA SeenNothing ==
  ASSUME RunningFacts, RunningFacts', UNCHANGED future, pc # "sync", pc' # "sync"
  PROVE  /\ Running' = Running
         /\ /\ {pc, pc'} \cap {"submit"} = {}
            /\ UNCHANGED <<scan, result, delivered>>
            => Unseen
<1>1. Running' = Running
  <2>1. CASE \A s \in Scan : ~Live(s)
    BY <2>1 DEF RunningFacts
  <2>2. ASSUME NEW s \in Scan, Live(s) PROVE Running' = Running
    BY <2>2 DEF RunningFacts
  <2> QED
    BY <2>1, <2>2
<1>2. ASSUME {pc, pc'} \cap {"submit"} = {}, UNCHANGED <<scan, result, delivered>>
      PROVE  Unseen
  <2>1. Owner' = Owner
    BY <1>2 DEF Owner
  <2>2. Stage' = Stage
    BY <1>2, <2>1 DEF Stage
  <2>3. Collected' = Collected
    BY <1>2 DEF Collected
  <2> QED
    BY <1>1, <1>2, <2>1, <2>2, <2>3 DEF Unseen
<1> QED
  BY <1>1, <1>2

(* While the cycle has its scan launched, and after it has left. *)
LEMMA SeenOwner ==
  /\ scan \in Scan /\ pc \notin {"sync", "submit"} => Owner = scan /\ Stage = "launched"
  /\ scan \in Scan /\ pc = "submit" => Owner = scan /\ Stage = "claimed"
  /\ scan = NoScan \/ pc = "sync" => Owner = NoScan /\ Stage = "off"
BY DEF Owner, Stage

(* A join that brings the outcome of the cycle's own scan, and one that    *)
(* brings none.                                                            *)
LEMMA SeenJoin ==
  ASSUME IInv
  PROVE  /\ result.status \in {"joined", "failed"} => Collected = scan
         /\ result.status \notin {"joined", "failed"} => Collected = NoScan
         /\ delivered = 0 => Collected = NoScan
BY DEF IInv, Control, OwnIsKept, Collected

(* Every step of the controller and of its workers is one of ScanHandoff,  *)
(* or changes nothing it can see.                                          *)
LEMMA RefinementStep == Mapped /\ Mapped' /\ [Next]_vars => [Handoff!Next]_(Handoff!vars)
<1> SUFFICES ASSUME Mapped, Mapped', [Next]_vars PROVE [Handoff!Next]_(Handoff!vars)
  OBVIOUS
<1>a. IInv /\ IInv' /\ RunningFacts /\ RunningFacts'
  BY DEF Mapped
<1>b. Unseen => UNCHANGED Handoff!vars
  BY DEF Handoff!vars, Unseen
<1>c. /\ pc \in {"idle", "reaping", "try"} => scan = NoScan
      /\ pc' \in {"idle", "reaping", "try"} => scan' = NoScan
      /\ pc \in Starting \cup Collecting \cup {"add_callback"} => scan \in Scan
  BY <1>a DEF IInv, Control, StartIsOwn, OwnIsKept
<1>d. /\ pc # "cycle" => delivered = 0
      /\ pc' # "cycle" => delivered' = 0
      /\ pc \notin Collecting => result = NoJoin
      /\ pc' \notin Collecting => result' = NoJoin
      /\ delivered \in 0..2 /\ delivered' \in 0..2 /\ delivered <= 1 /\ delivered' <= 1
  BY <1>a DEF IInv, Control, HandedOut, DeliveredOnce, TypeOK, Collecting
<1>e. /\ pc \notin Collecting => Collected = NoScan
      /\ pc' \notin Collecting => Collected' = NoScan
  BY <1>d DEF Collected, NoJoin
<1>f. /\ pc \in {"try", "cycle"} /\ active = NoScan => \A s \in Scan : ~Live(s)
      /\ pc \in {"try", "cycle"} => \A s \in Scan : Live(s) => s = active
      /\ pc \in {"sync", "submit"} => \A s \in Scan : ~Live(s)
      /\ pc' \in {"sync", "submit"} => \A s \in Scan : ~Live(s)'
      /\ pc \in {"wait", "timed_out"} => handle = scan /\ \A s \in Scan : Live(s) => s = scan
  BY <1>a DEF IInv, Control, LiveIsKnown, CycleIsOwn, Collecting
<1> USE DEF Starting, Collecting
<1>1. ASSUME NEW p \in Plans, ReapNothing(p) \/ ReapRunning(p) \/ ReapDone(p) PROVE Unseen
  BY <1>1, <1>a, SeenNothing DEF ReapNothing, ReapRunning, ReapDone, AfterReap
<1>2. ASSUME Reaped PROVE Unseen
  BY <1>2, <1>a, SeenNothing DEF Reaped, AfterReap
<1>3. ASSUME StartDenied PROVE Unseen
  BY <1>3, <1>a, SeenNothing DEF StartDenied
<1>4. ASSUME NEW s \in Scan, StartAllowed(s) PROVE Handoff!ScanAlone(s) \/ Handoff!Claim(s)
  <2>1. /\ pc = "try" /\ scan' = s /\ UNCHANGED delivered
        /\ pc' = IF plan = "sync" THEN "sync" ELSE "submit"
        /\ \A t \in Scan : ~Live(t)
    BY <1>4, <1>f DEF StartAllowed, WorkerBusy
  <2>2. Running = NoScan /\ Owner = NoScan /\ Stage = "off" /\ Collected = NoScan /\ Collected' = NoScan
    BY <2>1, <1>a, <1>c, <1>e, SeenOwner DEF RunningFacts
  <2>3. CASE plan = "sync"
    <3>1. Running' = s /\ Owner' = NoScan /\ Stage' = "off"
      BY <2>1, <2>3, <1>a DEF RunningFacts, Owner, Stage
    <3> QED
      BY <2>1, <2>2, <3>1 DEF Handoff!ScanAlone
  <2>4. CASE plan # "sync"
    <3>1. Owner' = s /\ Stage' = "claimed"
      BY <2>1, <2>4 DEF Owner, Stage
    <3>2. Running' = NoScan
      BY <2>1, <2>4, <1>a, <1>f DEF RunningFacts
    <3> QED
      BY <2>1, <2>2, <3>1, <3>2 DEF Handoff!Claim
  <2> QED
    BY <2>3, <2>4
<1>5. ASSUME SyncScanEnds PROVE Handoff!Finish
  <2>1. pc = "sync" /\ pc' = "idle" /\ UNCHANGED <<future, delivered>>
    BY <1>5 DEF SyncScanEnds
  <2>2. Running = scan /\ Running' = NoScan
    BY <2>1, <1>a, <1>f DEF RunningFacts
  <2>3. Owner = NoScan /\ Owner' = NoScan /\ Stage = "off" /\ Stage' = "off"
    BY <2>1, <1>c DEF Owner, Stage
  <2> QED
    BY <2>1, <2>2, <2>3, <1>c, <1>e DEF Handoff!Finish
<1>6. ASSUME Submit PROVE Handoff!Launch
  <2>1. pc = "submit" /\ pc' = "publish" /\ UNCHANGED <<scan, result, delivered>> /\ Live(scan)'
    BY <1>6, <1>a, <1>c DEF Submit, IInv, TypeOK
  <2>2. Running' = scan
    BY <2>1, <1>a, <1>c DEF RunningFacts
  <2>3. Owner = scan /\ Owner' = scan /\ Stage = "claimed" /\ Stage' = "launched"
    BY <2>1, <1>c DEF Owner, Stage
  <2> QED
    BY <2>1, <2>2, <2>3, <1>e DEF Handoff!Launch
<1>7. ASSUME SubmitFails PROVE Handoff!Leave
  <2>1. pc = "submit" /\ pc' = "idle" /\ UNCHANGED <<future, delivered>>
    BY <1>7 DEF SubmitFails
  <2>2. Stage = "claimed" /\ Owner' = NoScan /\ Stage' = "off"
    BY <2>1, <1>c DEF Owner, Stage
  <2> QED
    BY <2>1, <2>2, <1>a, <1>d, <1>e, SeenNothing DEF Handoff!Leave
<1>8. ASSUME Publish PROVE Unseen
  BY <1>8, <1>a, SeenNothing DEF Publish
<1>9. ASSUME AddCallback PROVE Unseen
  BY <1>9, <1>a, SeenNothing DEF AddCallback
<1>10. ASSUME JoinReturns PROVE Handoff!Hand
  <2>1. /\ pc = "wait" /\ pc' = "cycle" /\ ~Live(handle) /\ UNCHANGED <<scan, future>>
        /\ result' = Outcome(handle) /\ handle = scan
    BY <1>10, <1>f DEF JoinReturns, Deliver
  <2>2. delivered = 0 /\ delivered' = 1 /\ Collected' = scan
    BY <1>10, <2>1, <1>d DEF JoinReturns, Deliver, Outcome, Collected
  <2>3. Running = NoScan /\ Running' = Running
    BY <2>1, <1>a, <1>f, SeenNothing DEF RunningFacts
  <2>4. Owner = scan /\ Owner' = scan /\ Stage = "launched" /\ Stage' = "launched"
    BY <2>1, <1>c DEF Owner, Stage
  <2> QED
    BY <2>2, <2>3, <2>4 DEF Handoff!Hand
<1>11. ASSUME JoinTimesOut PROVE Unseen
  BY <1>11, <1>a, SeenNothing DEF JoinTimesOut
<1>12. CASE ReportTimeout
  <2>1. /\ pc = "timed_out" /\ pc' = "cycle" /\ UNCHANGED <<scan, delivered>>
        /\ result'.status = "timeout"
    BY <1>12 DEF ReportTimeout, Deliver
  <2>2. Owner' = Owner /\ Stage' = Stage
    BY <2>1, <1>c DEF Owner, Stage
  <2>3. Collected = NoScan /\ Collected' = NoScan
    BY <2>1, <1>a, <1>d, SeenJoin DEF Collected
  <2>4. CASE future[handle] = "pending"
    <3>1. Live(scan) /\ handle = scan /\ \A s \in Scan : ~Live(s)'
      BY <1>12, <2>1, <2>4, <1>a, <1>c, <1>f DEF ReportTimeout, IInv, TypeOK
    <3>2. Running = scan /\ Running' = NoScan
      BY <2>1, <3>1, <1>a, <1>c DEF RunningFacts
    <3> QED
      BY <2>1, <2>2, <2>3, <3>2, <1>c DEF Handoff!Finish, Handoff!Next
  <2>5. CASE future[handle] # "pending"
    <3>1. UNCHANGED future
      BY <1>12, <2>5 DEF ReportTimeout, workers
    <3>2. Unseen
      BY <2>1, <2>2, <2>3, <3>1, <1>a, SeenNothing DEF Unseen
    <3> QED
      BY <3>2, <1>b
  <2> QED
    BY <2>4, <2>5
<1>13. CASE JoinFinished
  <2>1. /\ pc = "cycle" /\ pc' = "cycle" /\ active = NoScan /\ UNCHANGED <<scan, future>>
        /\ \A s \in Scan : ~Live(s)
    BY <1>13, <1>f DEF JoinFinished, workers
  <2>2. Owner = scan /\ Owner' = scan /\ Stage = "launched" /\ Stage' = "launched"
    BY <2>1, <1>c DEF Owner, Stage
  <2>3. Running = NoScan /\ Running' = NoScan
    BY <2>1, <1>a DEF RunningFacts
  <2>4. CASE delivered = 0
    <3>1. last = scan /\ scan # NoScan
      BY <2>1, <2>4, <1>a, <1>c DEF IInv, Control, OwnIsKept
    <3>2. result' = Outcome(scan) /\ delivered' = 1 /\ Collected' = scan
      BY <1>13, <2>4, <3>1 DEF JoinFinished, Deliver, Outcome, Collected
    <3> QED
      BY <2>2, <2>3, <2>4, <3>2 DEF Handoff!Hand, Handoff!Next
  <2>5. CASE delivered # 0
    <3>1. last = NoScan
      BY <2>5, <1>a DEF IInv, Control, HandedOut
    <3>2. result' = NoJoin /\ delivered' = delivered /\ Collected' = NoScan
      BY <1>13, <3>1 DEF JoinFinished, Deliver, NoJoin, Collected
    <3>3. delivered = 1
      BY <2>5, <1>d
    <3> QED
      BY <2>2, <2>3, <3>2, <3>3 DEF Handoff!JoinAgain, Handoff!Next
  <2> QED
    BY <2>4, <2>5
<1>14. ASSUME JoinWaits PROVE Unseen
  BY <1>14, <1>a, SeenNothing DEF JoinWaits
<1>15. ASSUME EndCycle PROVE Handoff!Leave
  <2>1. pc = "cycle" /\ pc' = "idle" /\ UNCHANGED future /\ delivered' = 0
    BY <1>15 DEF EndCycle
  <2>2. Stage = "launched" /\ Owner' = NoScan /\ Stage' = "off"
    BY <2>1, <1>c DEF Owner, Stage
  <2> QED
    BY <2>1, <2>2, <1>a, <1>e, SeenNothing DEF Handoff!Leave
<1>16. ASSUME NEW s \in Scan, WorkerStarts(s) PROVE Unseen
  <2>1. /\ UNCHANGED <<pc, scan, result, delivered>>
        /\ \A t \in Scan : Live(t)' <=> Live(t)
    BY <1>16, <1>a DEF WorkerStarts, IInv, TypeOK
  <2>2. Running' = Running
    <3>1. CASE \A t \in Scan : ~Live(t)
      BY <2>1, <3>1, <1>a DEF RunningFacts
    <3>2. ASSUME NEW t \in Scan, Live(t) PROVE Running' = Running
      BY <2>1, <3>2, <1>a DEF RunningFacts
    <3> QED
      BY <3>1, <3>2
  <2> QED
    BY <2>1, <2>2 DEF Unseen, Owner, Stage, Collected
<1>17. ASSUME NEW s \in Scan, NEW r \in Endings, WorkerEnds(s, r) PROVE Handoff!Finish
  <2>1. /\ UNCHANGED <<pc, scan, result, delivered>> /\ Live(s) /\ pc # "sync"
        /\ \A t \in Scan : ~Live(t)'
    <3>1. \A t \in Scan : Live(t) => t = s
      BY <1>17, <1>a DEF WorkerEnds, IInv, Control, LiveIsKnown
    <3>2. UNCHANGED <<pc, scan, result, delivered>> /\ Live(s) /\ pc # "sync"
      BY <1>17, <1>f DEF WorkerEnds
    <3>3. ~Live(s)' /\ \A t \in Scan \ {s} : Live(t)' <=> Live(t)
      BY <1>17, <1>a DEF WorkerEnds, Endings, IInv, TypeOK
    <3> QED
      BY <3>1, <3>2, <3>3
  <2>2. Running = s /\ Running' = NoScan
    BY <2>1, <1>a DEF RunningFacts
  <2> QED
    BY <2>1, <2>2 DEF Handoff!Finish, Owner, Stage, Collected
<1>18. ASSUME NEW s \in Scan, DoneCallback(s) PROVE Unseen
  <2>1. UNCHANGED <<pc, scan, result, delivered, future>>
    BY <1>18 DEF DoneCallback
  <2>2. Running' = Running
    BY <2>1 DEF Running
  <2> QED
    BY <2>1, <2>2 DEF Unseen, Owner, Stage, Collected
<1>19. CASE UNCHANGED vars
  <2>1. UNCHANGED <<pc, scan, result, delivered, future>>
    BY <1>19 DEF vars
  <2>2. Running' = Running
    BY <2>1 DEF Running
  <2>3. Unseen
    BY <2>1, <2>2 DEF Unseen, Owner, Stage, Collected
  <2> QED
    BY <2>3, <1>b
<1> HIDE DEF Unseen
<1> QED
  BY <1>b, <1>1, <1>2, <1>3, <1>4, <1>5, <1>6, <1>7, <1>8, <1>9, <1>10, <1>11,
     <1>12, <1>13, <1>14, <1>15, <1>16, <1>17, <1>18, <1>19
  DEF Next, Reap, Controller, WorkerStep, Handoff!Next

(* The controller implements the promise of a handoff: one scan at a time, *)
(* and each outcome to the cycle that started it, once (buy_lane.py).      *)
THEOREM HandoffRefinement == Spec => ImplementsScanHandoff
<1>1. Init => Handoff!Init
  BY InitIInv, RunningMapped
  DEF Init, Handoff!Init, RunningFacts, Owner, Stage, Collected, NoJoin
<1>2. Mapped /\ Mapped' /\ [Next]_vars => [Handoff!Next]_(Handoff!vars)
  BY RefinementStep
<1>3. IInv => Mapped
  BY RunningMapped DEF Mapped
<1> QED
  BY <1>1, <1>2, <1>3, Invariant, PTL DEF Spec, ImplementsScanHandoff, Handoff!Spec
=============================================================================

------------------------------ MODULE LaneCycle ------------------------------
(***************************************************************************)
(* The cycles of the lane pipeline (app/pipeline/lane_scheduler.py): the   *)
(* SELL lane, the BUY lane and the order gate share one time budget.       *)
(*                                                                         *)
(* The SELL lane finds its intent first, but the gate sees it only when    *)
(* the BUY lane is through.  What the BUY lane may take of the budget      *)
(* depends on its mode: with overlap the quotes are fetched by a worker    *)
(* while the SELL lane runs, and the scheduler joins it; without, the      *)
(* scheduler fetches them itself.                                          *)
(*                                                                         *)
(* The scheduler thread (pc), the worker and the clock interleave.  The    *)
(* controller is seen from the scheduler only: a worker runs, or its       *)
(* outcome lies ready, or there is none; BuyScan has the details.  The     *)
(* gate is reduced to its budget check; OrderGate has the rest.            *)
(***************************************************************************)
EXTENDS Integers

CONSTANTS
  Hard,      \* session_cycle_hard_budget_seconds
  Floor,     \* buy_scan_min_remaining_budget_seconds
  Deadline,  \* how long quotes are fetched for when the scheduler does it
  Factory    \* how long an intent factory of the BUY lane takes at most

ASSUME BudgetAssumption ==
  /\ {Hard, Floor, Deadline, Factory} \subseteq Nat
  /\ Hard > Floor
  /\ Factory < Floor

VARIABLES
  pc,      \* where the scheduler thread is
  left,    \* budget.remaining_seconds()
  asked,   \* what is due in this cycle, and whether overlap is enabled
  mine,    \* prefetch_started: this cycle has started the worker
  worker,  \* the prefetch worker, or what it left behind
  timer,   \* what is left of the step the scheduler is waiting for
  sell,    \* sell_result.intent
  born,    \* what was left of the budget when it was created
  buy      \* buy_result.intent

vars == <<pc, left, asked, mine, worker, timer, sell, born, buy>>

Asks == [sell : BOOLEAN, buy : BOOLEAN, overlap : BOOLEAN]

Lesser(a, b) == IF a < b THEN a ELSE b

TypeOK ==
  /\ pc \in {"idle", "sell", "scan", "join", "fetch", "factory", "gate"}
  /\ left \in 0..Hard
  /\ asked \in Asks
  /\ mine \in BOOLEAN
  /\ worker \in {"none", "running", "ok", "failed"}
  /\ timer \in 0..Hard
  /\ sell \in BOOLEAN /\ buy \in BOOLEAN
  /\ born \in 0..Hard

Init ==
  /\ pc = "idle"
  /\ left = 0
  /\ asked = [sell |-> FALSE, buy |-> FALSE, overlap |-> FALSE]
  /\ mine = FALSE /\ worker = "none"
  /\ timer = 0
  /\ sell = FALSE /\ born = 0 /\ buy = FALSE

(* overlap_active: a cycle starts with its whole budget, above the floor. *)
Overlapping(a) == a.overlap /\ a.buy

(* Mutant: an outcome nobody collected keeps the next scan from starting. *)
Allowed_Unreaped == worker = "none"

(* try_start_scan: what a worker left behind is reaped and forgotten.  A   *)
(* running one, stale or not, refuses the scan.                            *)
Allowed == worker # "running"

Goto(label) == pc' = label

-----------------------------------------------------------------------------
StartCycle(a) ==
  /\ pc = "idle"
  /\ Goto("sell")
  /\ left' = Hard
  /\ asked' = a
  /\ mine' = (Overlapping(a) /\ Allowed)
  /\ worker' = IF mine' THEN "running" ELSE worker
  /\ sell' = FALSE /\ born' = 0 /\ buy' = FALSE
  /\ timer' = 0

(* SellLane.run when it is not due. *)
SellNotDue ==
  /\ pc = "sell" /\ ~asked.sell
  /\ Goto("scan")
  /\ UNCHANGED <<left, asked, mine, worker, timer, sell, born, buy>>

(* build_sell_intent_from_production walks the holdings, without a look at *)
(* the budget.  Its intent expires when the budget does, or a second after *)
(* it was made; the gate's budget check comes first in either case.        *)
SellEnds ==
  /\ pc = "sell" /\ asked.sell
  /\ Goto("scan")
  /\ sell' \in BOOLEAN
  /\ born' = IF sell' THEN left ELSE 0
  /\ UNCHANGED <<left, asked, mine, worker, timer, buy>>

(* The balance inquiry of the factory raises: no gate, no join.  The       *)
(* worker is left to the next cycle that starts a scan.                    *)
SellRaises ==
  /\ pc = "sell" /\ asked.sell
  /\ Goto("idle")
  /\ UNCHANGED <<left, asked, mine, worker, timer, sell, born, buy>>

-----------------------------------------------------------------------------
(* The BUY lane. *)
NoBuyDue ==
  /\ pc = "scan" /\ ~asked.buy
  /\ Goto("gate")
  /\ UNCHANGED <<left, asked, mine, worker, timer, sell, born, buy>>

(* _drain_started_prefetch: a join that does not wait. *)
Drained == IF mine /\ worker # "running" THEN "none" ELSE worker

(* cycle_budget_exceeded, cycle_budget_low *)
TooLateToBuy ==
  /\ pc = "scan" /\ asked.buy /\ left <= Floor
  /\ worker' = Drained
  /\ Goto("gate")
  /\ UNCHANGED <<left, asked, mine, timer, sell, born, buy>>

ScanRefused ==
  /\ pc = "scan" /\ asked.buy /\ left > Floor
  /\ IF asked.overlap THEN ~mine ELSE ~Allowed
  /\ Goto("gate")
  /\ UNCHANGED <<left, asked, mine, worker, timer, sell, born, buy>>

(* Mutant: the join may wait for all of the budget. *)
JoinTimeout_Whole == left

JoinTimeout == left - Floor

StartJoin ==
  /\ pc = "scan" /\ mine /\ left > Floor
  /\ timer' = JoinTimeout
  /\ Goto("join")
  /\ UNCHANGED <<left, asked, mine, worker, sell, born, buy>>

(* Quotes came, and the intent factory is called, or there are none. *)
QuotesOrNone ==
  \/ Goto("factory") /\ left > 0 /\ timer' = Factory
  \/ Goto("gate") /\ UNCHANGED timer

JoinReturns ==
  /\ pc = "join" /\ worker \in {"ok", "failed"}
  /\ worker' = "none"
  /\ IF worker = "ok" THEN QuotesOrNone ELSE Goto("gate") /\ UNCHANGED timer
  /\ UNCHANGED <<left, asked, mine, sell, born, buy>>

(* Mutant: a join that has timed out goes on waiting. *)
JoinTimesOut_Never ==
  /\ pc = "join" /\ timer = 0 /\ worker = "failed"
  /\ Goto("gate")
  /\ UNCHANGED <<left, asked, mine, worker, timer, sell, born, buy>>

(* The worker goes on, detached. *)
JoinTimesOut ==
  /\ pc = "join" /\ timer = 0 /\ worker = "running"
  /\ Goto("gate")
  /\ UNCHANGED <<left, asked, mine, worker, timer, sell, born, buy>>

(* prefetch_buy_scan_prices: the earlier of its deadline and the cycle's. *)
FetchTime == Lesser(Deadline, left)

(* BuyLane.run *)
StartFetch ==
  /\ pc = "scan" /\ asked.buy /\ ~asked.overlap /\ left > Floor
  /\ Allowed
  /\ worker' = "none"
  /\ timer' = FetchTime
  /\ Goto("fetch")
  /\ UNCHANGED <<left, asked, mine, sell, born, buy>>

(* Whatever it raises, BuyLane.run catches. *)
FetchEnds ==
  /\ pc = "fetch"
  /\ QuotesOrNone
  /\ UNCHANGED <<left, asked, mine, worker, sell, born, buy>>

(* build_buy_intent_from_production *)
FactoryEnds ==
  /\ pc = "factory"
  /\ buy' \in BOOLEAN
  /\ Goto("gate")
  /\ UNCHANGED <<left, asked, mine, worker, timer, sell, born>>

(* BuyLane.run catches what the factory raises, run_with_prefetched does   *)
(* not: with overlap the cycle ends there, and its SELL intent with it.    *)
FactoryRaises ==
  /\ pc = "factory"
  /\ Goto(IF asked.overlap THEN "idle" ELSE "gate")
  /\ UNCHANGED <<left, asked, mine, worker, timer, sell, born, buy>>

-----------------------------------------------------------------------------
(* process_ready_intents: SELL first.  How long its handlers take is of no *)
(* concern to the next cycle, which has a budget of its own.               *)
Gate ==
  /\ pc = "gate"
  /\ Goto("idle")
  /\ UNCHANGED <<left, asked, mine, worker, timer, sell, born, buy>>

WorkerEnds ==
  /\ worker = "running"
  /\ worker' \in {"ok", "failed"}
  /\ UNCHANGED <<pc, left, asked, mine, timer, sell, born, buy>>

(* A second passes while the scheduler waits for something. *)
Tick ==
  /\ \/ pc = "sell" /\ asked.sell /\ left > 0 /\ UNCHANGED timer
     \/ pc \in {"join", "fetch", "factory"} /\ timer > 0 /\ timer' = timer - 1
  /\ left' = IF left > 0 THEN left - 1 ELSE 0
  /\ UNCHANGED <<pc, asked, mine, worker, sell, born, buy>>

BuyLane ==
  \/ NoBuyDue \/ TooLateToBuy \/ ScanRefused \/ StartJoin \/ JoinReturns \/ JoinTimesOut
  \/ StartFetch \/ FetchEnds \/ FactoryEnds \/ FactoryRaises

Cycle == SellNotDue \/ SellEnds \/ SellRaises \/ BuyLane \/ Gate

Next == (\E a \in Asks : StartCycle(a)) \/ Cycle \/ WorkerEnds \/ Tick

Spec == Init /\ [][Next]_vars

(* The scheduler's thread runs, time passes, and overlapping cycles with   *)
(* BUY due come again and again.  Nothing is assumed about the worker.     *)
Fairness ==
  /\ WF_vars(Cycle) /\ WF_vars(Tick)
  /\ SF_vars(\E a \in Asks : Overlapping(a) /\ StartCycle(a))

FairSpec == Spec /\ Fairness

-----------------------------------------------------------------------------
(* What the BUY lane of this cycle may keep a SELL intent waiting for. *)
Patience ==
  IF asked.buy /\ ~asked.overlap /\ born > Floor THEN Deadline + Factory ELSE 0

(* The SELL intent of a cycle waits for its BUY scan (lane_scheduler.py    *)
(* :175-218), and the gate drops it once the budget is gone.  With overlap *)
(* the join leaves the floor, so that an intent made before the budget was *)
(* gone comes in time; without, only one made early enough for the whole   *)
(* prefetch does.                                                          *)
SellSurvivesTheScan == pc = "gate" /\ sell /\ born > Patience => left > 0

(* The join's timeout (lane_scheduler.py:192-197): a cycle ends although   *)
(* its worker may hang.                                                    *)
CycleEnds == pc # "idle" ~> pc = "idle"

(* A cycle whose BUY scan was refused, or that raised and left its worker  *)
(* behind (lane_scheduler.py:138-143), costs no later cycle its scan: if   *)
(* workers end, a scan starts again.                                       *)
ScanStartsAgain == []<>(worker # "running") => (pc = "sell" /\ Overlapping(asked) /\ ~mine ~> pc = "sell" /\ mine)
=============================================================================

------------------------------ MODULE OrderGate ------------------------------
(***************************************************************************)
(* The order gate of the lane pipeline (app/pipeline/order_gate.py).       *)
(*                                                                         *)
(* Every cycle builds a fresh OrderGate and hands it a batch of BUY/SELL   *)
(* intents.  The gate walks them in priority order and runs each one's     *)
(* handler on a one-thread executor, waiting at most for what is left of   *)
(* the cycle budget.  A handler that outlives the wait cannot be killed:   *)
(* it is entered in a process-wide registry of detached handlers, and a    *)
(* later gate refuses its whole batch while that handler is alive.         *)
(*                                                                         *)
(* Two kinds of actors interleave: the scheduler thread (pc) and one       *)
(* worker thread per submitted handler (future, callback).                 *)
(***************************************************************************)
EXTENDS Naturals, FiniteSets

CONSTANTS
  Intent,        \* order intents: records [type, priority, created, id]
  Worker,        \* handler threads that can exist side by side
  NoIntent,      \* no intent is being handled
  NoWorker,      \* the scheduler waits for no thread
  TimeoutModes,  \* the values of handler_timeout_enabled that gates are built with
  HandlerSets    \* the intent types gates are given a handler for

IntentTypes == {"SELL", "BUY"}

ASSUME IntentAssumption ==
  /\ \A i \in Intent : i.type \in IntentTypes /\ i.priority \in Nat
  /\ NoIntent \notin Intent
ASSUME WorkerAssumption == NoWorker \notin Worker
ASSUME GateAssumption ==
  /\ TimeoutModes \subseteq BOOLEAN
  /\ HandlerSets \subseteq SUBSET IntentTypes

VARIABLES
  pc,        \* where the scheduler thread is
  budget,    \* what is left of the cycle budget
  timed,     \* handler_timeout_enabled of the current gate
  handlers,  \* intent types that have a handler in the current gate
  batch,     \* ready_intents of the last gate
  queue,     \* intents of the batch no handler was called for and not skipped yet
  cur,       \* the intent being handled
  worker,    \* the thread that handles it
  decision,  \* what the last gate decided about each intent
  outcome,   \* how the handler of an intent ended, in the last gate it was run by
  future,    \* state of each thread's future
  task,      \* the intent each thread handles
  callback,  \* threads whose _drop_when_done has not run yet
  registry   \* _DETACHED_HANDLERS

config     == <<timed, handlers, batch>>
gateVars   == <<pc, config, queue, cur, worker, decision>>
workerVars == <<outcome, future, task, callback, registry>>
vars == <<budget, gateVars, workerVars>>

(* The budget as the gate reads it: above the BUY floor, at or below it, gone. *)
Budgets  == {"ample", "low", "expired"}
Statuses == {"none", "processed", "delegated", "failed", "handler_timeout",
             "budget_exceeded", "budget_skipped", "expired", "no_op",
             "blocked_detached_handler"}
Outcomes == {"none", "returned", "decided", "raised"}
Pcs      == {"idle", "loop", "call", "inline", "returned", "wait", "check_done",
             "register", "add_callback", "shutdown"}
Futures  == {"free", "pending", "running", "cancelled"} \cup (Outcomes \ {"none"})

TypeOK ==
  /\ pc \in Pcs
  /\ budget \in Budgets
  /\ timed \in BOOLEAN
  /\ handlers \subseteq IntentTypes
  /\ batch \subseteq Intent
  /\ queue \subseteq Intent
  /\ cur \in Intent \cup {NoIntent}
  /\ worker \in Worker \cup {NoWorker}
  /\ decision \in [Intent -> Statuses]
  /\ outcome \in [Intent -> Outcomes]
  /\ future \in [Worker -> Futures]
  /\ task \in [Worker -> Intent \cup {NoIntent}]
  /\ callback \subseteq Worker
  /\ registry \subseteq Worker

Init ==
  /\ pc = "idle"
  /\ budget = "ample"
  /\ timed \in TimeoutModes
  /\ handlers \in HandlerSets
  /\ batch = {}
  /\ queue = {}
  /\ cur = NoIntent
  /\ worker = NoWorker
  /\ decision = [i \in Intent |-> "none"]
  /\ outcome = [i \in Intent |-> "none"]
  /\ future = [w \in Worker |-> "free"]
  /\ task = [w \in Worker |-> NoIntent]
  /\ callback = {}
  /\ registry = {}

-----------------------------------------------------------------------------
(* Mutant: the oldest intent first, whatever its priority. *)
Before_Fifo(i, j) == i.created < j.created \/ (i.created = j.created /\ i.id < j.id)

(* sort_intents: higher priority first, then the older one, then the id. *)
Before(i, j) ==
  \/ i.priority > j.priority
  \/ /\ i.priority = j.priority
     /\ \/ i.created < j.created
        \/ i.created = j.created /\ i.id < j.id

(* The keys order any batch: it has a first intent. *)
ASSUME SortAssumption ==
  \A b \in SUBSET Intent : b # {} => \E i \in b : \A j \in b \ {i} : Before(i, j)

IsFirst(i) == i \in queue /\ \A j \in queue \ {i} : Before(i, j)

(* A thread that may still be writing: its future is not done(). *)
Live(w) == future[w] \in {"pending", "running"}

(* Mutant: a registry per gate instance, empty in every fresh gate. *)
LiveDetached_PerGate == {}

LiveDetached == {w \in registry : Live(w)}

(* A thread object that can stand for a new one: its work is over, and     *)
(* neither the registry nor a callback refers to it any more.              *)
Reusable(w) == ~Live(w) /\ w \notin registry \cup callback

-----------------------------------------------------------------------------
(* A new cycle builds a fresh budget; the clock runs it down at any time.  *)
NewCycle ==
  /\ pc = "idle"
  /\ budget' = "ample"
  /\ UNCHANGED <<gateVars, workerVars>>

Tick ==
  /\ \/ budget = "ample" /\ budget' = "low"
     \/ budget # "expired" /\ budget' = "expired"
  /\ UNCHANGED <<gateVars, workerVars>>

(* process_ready_intents up to its loop.  Purging drops finished handlers  *)
(* from the registry; one that is still alive blocks the whole batch.      *)
Blocked(b) ==
  /\ decision' = [i \in Intent |->
        IF i \in b THEN "blocked_detached_handler" ELSE "none"]
  /\ queue' = {}
  /\ UNCHANGED <<pc, outcome>>

Accepted(b) ==
  /\ decision' = [i \in Intent |-> "none"]
  /\ outcome' = [i \in Intent |-> "none"]
  /\ queue' = b
  /\ pc' = "loop"

StartGate(b, hs, mode) ==
  /\ pc = "idle"
  /\ registry' = LiveDetached
  /\ timed' = mode
  /\ handlers' = hs
  /\ batch' = b
  /\ IF LiveDetached # {} THEN Blocked(b) ELSE Accepted(b)
  /\ UNCHANGED <<budget, cur, worker, future, task, callback>>

Decide(i, status) == decision' = [decision EXCEPT ![i] = status]

(* The loop ran out of intents: the result is returned to the scheduler. *)
GateDone ==
  /\ pc = "loop" /\ queue = {}
  /\ pc' = "idle"
  /\ UNCHANGED <<budget, config, queue, cur, worker, decision, workerVars>>

(* An intent is skipped without running a handler, and the loop goes on. *)
SkipIntent(i, status) ==
  /\ Decide(i, status)
  /\ queue' = queue \ {i}
  /\ UNCHANGED <<pc, budget, config, cur, worker, workerVars>>

(* The budget stops the loop: this intent is told, the rest is dropped. *)
StopAt(i, status) ==
  /\ Decide(i, status)
  /\ queue' = {}
  /\ pc' = "idle"
  /\ UNCHANGED <<budget, config, cur, worker, workerVars>>

BudgetExceeded(i) ==
  /\ pc = "loop" /\ IsFirst(i)
  /\ budget = "expired"
  /\ StopAt(i, "budget_exceeded")

BuyBudgetLow(i) ==
  /\ pc = "loop" /\ IsFirst(i)
  /\ budget = "low" /\ i.type = "BUY"
  /\ StopAt(i, "budget_skipped")

(* The guards before a handler is looked up were passed for intent i. *)
Admitted(i) ==
  /\ pc = "loop" /\ IsFirst(i)
  /\ budget # "expired"
  /\ i.type = "BUY" => budget = "ample"

(* The gate looks at expires_at of each intent once, so that any of them   *)
(* may be late.                                                            *)
IntentExpired(i) ==
  /\ Admitted(i)
  /\ SkipIntent(i, "expired")

NoHandler(i) ==
  /\ Admitted(i)
  /\ i.type \notin handlers
  /\ SkipIntent(i, "no_op")

(* The intent reaches _run_handler. *)
Runnable(i) == Admitted(i) /\ i.type \in handlers

(* handler_timeout_enabled is off: the scheduler thread runs the handler. *)
CallInline(i) ==
  /\ Runnable(i) /\ ~timed
  /\ pc' = "inline"
  /\ cur' = i
  /\ queue' = queue \ {i}
  /\ UNCHANGED <<budget, config, worker, decision, workerVars>>

(* It is on: _run_handler reads the remaining budget once more. *)
CallTimed(i) ==
  /\ Runnable(i) /\ timed
  /\ pc' = "call"
  /\ cur' = i
  /\ UNCHANGED <<budget, timed, handlers, batch, queue, worker, decision, workerVars>>

(* The handler is submitted to an executor of its own. *)
Submit(w) ==
  /\ pc = "call" /\ budget # "expired"
  /\ Reusable(w)
  /\ future' = [future EXCEPT ![w] = "pending"]
  /\ task' = [task EXCEPT ![w] = cur]
  /\ pc' = "wait"
  /\ worker' = w
  /\ queue' = queue \ {cur}
  /\ UNCHANGED <<budget, config, cur, decision, outcome,
                 callback, registry>>

(* submit() raises (no thread can be started): the generic except branch. *)
SubmitFails ==
  /\ pc = "call" /\ budget # "expired"
  /\ Decide(cur, "failed")
  /\ pc' = "loop"
  /\ queue' = queue \ {cur}
  /\ cur' = NoIntent
  /\ UNCHANGED <<budget, config, worker, workerVars>>

(* Mutant: only the intent that timed out is told. *)
StopOnTimeout_Silent ==
  /\ Decide(cur, "handler_timeout")
  /\ queue' = {}
  /\ cur' = NoIntent /\ worker' = NoWorker
  /\ pc' = "idle"
  /\ UNCHANGED <<budget, config, outcome, task>>

(* The decisions after OrderGateHandlerTimeout: the loop is left for good. *)
StopOnTimeout ==
  /\ decision' = [j \in Intent |-> IF j = cur THEN "handler_timeout"
                                   ELSE IF j \in queue THEN "budget_exceeded"
                                   ELSE decision[j]]
  /\ queue' = {}
  /\ cur' = NoIntent /\ worker' = NoWorker
  /\ pc' = "idle"
  /\ UNCHANGED <<budget, config, outcome, task>>

(* The budget ran out between the loop's check and _run_handler's: the     *)
(* handler is never started, but the gate stops as if it had timed out.    *)
NoTimeLeft ==
  /\ pc = "call" /\ budget = "expired"
  /\ StopOnTimeout
  /\ UNCHANGED <<future, callback, registry>>

-----------------------------------------------------------------------------
(* A direct call ends; the gate has its result in hand. *)
InlineReturns(r) ==
  /\ pc = "inline"
  /\ outcome' = [outcome EXCEPT ![cur] = r]
  /\ pc' = "returned"
  /\ UNCHANGED <<budget, config, queue, cur, worker, decision,
                 future, task, callback, registry>>

(* The first intent after a handler that used up the budget is told so;    *)
(* the ones behind it are not.                                             *)
TellNext == [j \in Intent |-> IF j = cur THEN "processed"
                             ELSE IF IsFirst(j) THEN "budget_exceeded"
                             ELSE decision[j]]

(* The gate has the handler's result: a direct call returned, or           *)
(* future.result() returned or raised within the budget.                   *)
ResultReady ==
  /\ \/ pc = "returned"
     \/ pc = "wait" /\ ~Live(worker)
  /\ \/ /\ outcome[cur] = "raised"
        /\ Decide(cur, "failed")
        /\ pc' = "loop" /\ UNCHANGED queue
     \/ /\ outcome[cur] = "decided"
        /\ Decide(cur, "delegated")
        /\ pc' = "loop" /\ UNCHANGED queue
     \/ /\ outcome[cur] = "returned" /\ budget # "expired"
        /\ Decide(cur, "processed")
        /\ pc' = "loop" /\ UNCHANGED queue
     \/ /\ outcome[cur] = "returned" /\ budget = "expired"
        /\ decision' = TellNext
        /\ pc' = "idle" /\ queue' = {}
  /\ cur' = NoIntent /\ worker' = NoWorker
  /\ UNCHANGED <<budget, config, workerVars>>

(* Mutant: future.result() without a timeout. *)
WaitTimesOut_Never == FALSE /\ UNCHANGED vars

(* future.result() raises TimeoutError: the remaining budget has elapsed. *)
WaitTimesOut ==
  /\ pc = "wait"
  /\ budget = "expired" /\ Live(worker)
  /\ pc' = "check_done"
  /\ UNCHANGED <<budget, config, queue, cur, worker, decision, workerVars>>

(* "if future.done(): raise" -- the wait's own TimeoutError is re-raised   *)
(* when the handler ended after the wait gave up; the loop records failed. *)
DoneAfterTimeout ==
  /\ pc = "check_done" /\ ~Live(worker)
  /\ Decide(cur, "failed")
  /\ pc' = "loop"
  /\ cur' = NoIntent /\ worker' = NoWorker
  /\ UNCHANGED <<budget, config, queue, workerVars>>

(* Mutant: the executor is shut down without registering the handler. *)
StillRunning_Unregistered ==
  /\ pc = "check_done" /\ Live(worker)
  /\ pc' = "shutdown"
  /\ UNCHANGED <<budget, config, queue, cur, worker, decision, workerVars>>

StillRunning ==
  /\ pc = "check_done" /\ Live(worker)
  /\ pc' = "register"
  /\ UNCHANGED <<budget, config, queue, cur, worker, decision, workerVars>>

(* _register_detached_handler, first half: the entry, under the lock. *)
Register ==
  /\ pc = "register"
  /\ registry' = registry \cup {worker}
  /\ pc' = "add_callback"
  /\ UNCHANGED <<budget, config, queue, cur, worker, decision,
                 outcome, future, task, callback>>

(* Mutant: the callback is called instead of added. *)
AddCallback_CallsIt ==
  /\ pc = "add_callback"
  /\ registry' = registry \ {worker}
  /\ pc' = "shutdown"
  /\ UNCHANGED <<budget, config, queue, cur, worker, decision,
                 outcome, future, task, callback>>

(* Mutant: no callback runs for a future that is done already. *)
AddCallback_MissesDone ==
  /\ pc = "add_callback"
  /\ callback' = IF Live(worker) THEN callback \cup {worker} ELSE callback
  /\ pc' = "shutdown"
  /\ UNCHANGED <<budget, config, queue, cur, worker, decision,
                 outcome, future, task, registry>>

(* Second half: add_done_callback runs the callback at once on a future    *)
(* that is done already.                                                   *)
AddCallback ==
  /\ pc = "add_callback"
  /\ IF Live(worker)
     THEN callback' = callback \cup {worker} /\ UNCHANGED registry
     ELSE registry' = registry \ {worker} /\ UNCHANGED callback
  /\ pc' = "shutdown"
  /\ UNCHANGED <<budget, config, queue, cur, worker, decision,
                 outcome, future, task>>

(* shutdown(wait=False, cancel_futures=True) cancels a handler that has    *)
(* not started (its callback runs here); then the timeout is recorded.     *)
ShutdownAndStop ==
  /\ pc = "shutdown"
  /\ IF future[worker] = "pending"
     THEN /\ future' = [future EXCEPT ![worker] = "cancelled"]
          /\ callback' = callback \ {worker}
          /\ registry' = registry \ {worker}
     ELSE UNCHANGED <<future, callback, registry>>
  /\ StopOnTimeout

-----------------------------------------------------------------------------
(* The worker thread: it picks the handler up, ends it, and then runs the  *)
(* future's callbacks -- three steps the scheduler can come between.       *)
HandlerStarts(w) ==
  /\ future[w] = "pending"
  /\ future' = [future EXCEPT ![w] = "running"]
  /\ UNCHANGED <<budget, gateVars, outcome, task, callback, registry>>

HandlerEnds(w, r) ==
  /\ future[w] = "running"
  /\ future' = [future EXCEPT ![w] = r]
  /\ outcome' = [outcome EXCEPT ![task[w]] = r]
  /\ UNCHANGED <<budget, gateVars, task, callback, registry>>

DropWhenDone(w) ==
  /\ w \in callback /\ ~Live(w)
  /\ callback' = callback \ {w}
  /\ registry' = registry \ {w}
  /\ UNCHANGED <<budget, gateVars, outcome, future, task>>

-----------------------------------------------------------------------------
SchedulerWaiting ==
  \/ ResultReady \/ WaitTimesOut \/ DoneAfterTimeout \/ StillRunning
  \/ Register \/ AddCallback \/ ShutdownAndStop

SchedulerLoop ==
  \/ GateDone
  \/ \E i \in Intent :
       \/ BudgetExceeded(i) \/ BuyBudgetLow(i) \/ IntentExpired(i) \/ NoHandler(i)
       \/ CallInline(i) \/ CallTimed(i)
  \/ \E w \in Worker : Submit(w)
  \/ SubmitFails
  \/ NoTimeLeft

Scheduler == SchedulerLoop \/ SchedulerWaiting

HandlerResults == {"returned", "decided", "raised"}

WorkerStep(w) ==
  HandlerStarts(w) \/ DropWhenDone(w) \/ \E r \in HandlerResults : HandlerEnds(w, r)

Next ==
  \/ NewCycle
  \/ Tick
  \/ \E b \in SUBSET Intent, hs \in HandlerSets, mode \in TimeoutModes :
       StartGate(b, hs, mode)
  \/ Scheduler
  \/ \E r \in HandlerResults : InlineReturns(r)
  \/ \E w \in Worker : WorkerStep(w)

Spec == Init /\ [][Next]_vars

-----------------------------------------------------------------------------
(* Fairness.  The scheduler thread and the clock go on; a thread whose     *)
(* future is done gets to run its callbacks.  Nothing is assumed about     *)
(* how long a handler takes.                                               *)
GateFairness ==
  /\ WF_vars(Scheduler)
  /\ WF_vars(Tick)
  /\ \A w \in Worker : WF_vars(DropWhenDone(w))

FairSpec == Spec /\ GateFairness

-----------------------------------------------------------------------------
(* Someone writes orders: a live worker thread, or the scheduler inside a  *)
(* direct call.                                                            *)
Writers == {w \in Worker : Live(w)} \cup (IF pc = "inline" THEN {NoWorker} ELSE {})

(* "Single logical writer for same-process BUY/SELL order intents": no     *)
(* two handlers are alive at once, whatever gates timed out before.        *)
OneWriter == \A v, w \in Writers : v = w

(* A handler the scheduler no longer waits for is in the registry as long  *)
(* as it is alive, so that no fresh gate can miss it.                      *)
DetachedIsRegistered == \A w \in Worker : Live(w) => w \in registry \cup {worker}

(* sort_intents decides who goes first: once an intent's handler was       *)
(* called, every intent of a higher priority had its turn and did not stop *)
(* the gate -- an emergency sell is never overtaken by a buy.              *)
HadItsTurn == {"processed", "delegated", "failed", "expired", "no_op"}
Handled(i) == i = cur \/ decision[i] \in {"processed", "delegated", "failed"}

PriorityRespected ==
  \A i, j \in batch :
    Handled(i) /\ j.priority > i.priority => decision[j] \in HadItsTurn

(* A handler timeout leaves no intent of the batch without a decision, and *)
(* the gate is not handling another one.                                   *)
TimeoutIsAccounted ==
  (\E i \in batch : decision[i] = "handler_timeout") =>
    cur = NoIntent /\ \A j \in batch : decision[j] # "none"

(* An intent the gate returns without a decision was cut off by the        *)
(* budget: another intent of the batch carries the reason.                 *)
OnlyBudgetDrops ==
  pc = "idle" /\ (\E j \in batch : decision[j] = "none") =>
    \E i \in batch : decision[i] \in {"budget_exceeded", "budget_skipped"}

(* "processed" is never said of a handler that raised, timed out or never  *)
(* ran, although it may end while the gate gives it up.                    *)
ProcessedReturned ==
  \A i \in batch : decision[i] = "processed" => outcome[i] = "returned"

(* What the gate reports is what became of the intents: none is lost       *)
(* silently when a timeout or the budget cuts the batch short, and every   *)
(* success it reports is one (order_gate.py:201-247).                      *)
EveryIntentIsAccounted == TimeoutIsAccounted /\ OnlyBudgetDrops /\ ProcessedReturned

(* With timeouts enabled a gate returns to the scheduler even when its     *)
(* handler never ends.                                                     *)
GateReturns == (pc # "idle" /\ timed) ~> (pc = "idle")

(* A detached handler that has ended stops blocking: its registry entry    *)
(* goes, in whatever order the entry, the callback and the end came.       *)
BlockingEnds == \A w \in Worker : w \in registry /\ ~Live(w) ~> w \notin registry

=============================================================================

--------------------------- MODULE OrderGateProofs --------------------------
(***************************************************************************)
(* Proofs about OrderGate, for any set of intents and any number of        *)
(* threads: its types, the single-writer invariant, the order and the      *)
(* accounting of a batch, and that it implements SingleWriter.             *)
(***************************************************************************)
EXTENDS OrderGateRefinement, TLAPS

(* Where the scheduler holds a thread it submitted. *)
Holding == {"wait", "check_done", "register", "add_callback", "shutdown"}

(* Inside the gate but outside a wait nobody writes on a thread; during a  *)
(* wait only the awaited thread does; between gates a live thread is a     *)
(* registered one, and there is one at most.                               *)
NobodyElseWrites ==
  /\ pc \in {"loop", "call", "inline", "returned"} => \A w \in Worker : ~Live(w)
  /\ pc \in Holding => \A w \in Worker : Live(w) => w = worker

LiveIsKnown ==
  /\ pc = "idle" => \A w \in Worker : Live(w) => w \in registry
  /\ pc \in {"add_callback", "shutdown"} => (Live(worker) => worker \in registry)
  /\ \A v, w \in Worker : Live(v) /\ Live(w) => v = w

(* The control state fixes the gate's locals. *)
LocalsFitPc ==
  /\ worker \in Worker <=> pc \in Holding
  /\ pc \in {"idle", "loop"} <=> cur = NoIntent
  /\ pc \in Holding => task[worker] = cur
  /\ pc = "call" => cur \in queue
  /\ pc = "idle" => queue = {}
  /\ \A w \in Worker : Live(w) => task[w] \in Intent

IInv == TypeOK /\ NobodyElseWrites /\ LiveIsKnown /\ LocalsFitPc

-----------------------------------------------------------------------------
USE IntentAssumption, WorkerAssumption, GateAssumption DEF Live

(* The gate starts idle, with no thread in existence. *)
LEMMA InitIInv == Init => IInv
BY DEF Init, IInv, TypeOK, NobodyElseWrites, LiveIsKnown, LocalsFitPc, Holding, IntentTypes,
       Budgets, Statuses, Outcomes, Pcs, Futures

(* No step takes a variable out of its type. *)
LEMMA TypeStep == IInv /\ [Next]_vars => TypeOK'
<1> SUFFICES ASSUME IInv, [Next]_vars PROVE TypeOK'
  OBVIOUS
<1> USE DEF IInv, TypeOK, IntentTypes, Budgets, Statuses, Outcomes, Pcs, Futures, config
<1>1. CASE NewCycle
  BY <1>1 DEF NewCycle, gateVars, workerVars
<1>2. CASE Tick
  BY <1>2 DEF Tick, gateVars, workerVars
<1>3. ASSUME NEW b \in SUBSET Intent, NEW hs \in HandlerSets, NEW mode \in TimeoutModes,
             StartGate(b, hs, mode)
      PROVE  TypeOK'
  BY <1>3 DEF StartGate, Blocked, Accepted, LiveDetached
<1>4. CASE SchedulerLoop
  <2>1. CASE GateDone
    BY <2>1 DEF GateDone, workerVars
  <2>2. ASSUME NEW i \in Intent,
               \/ BudgetExceeded(i) \/ BuyBudgetLow(i) \/ IntentExpired(i) \/ NoHandler(i)
        PROVE  TypeOK'
    BY <2>2 DEF BudgetExceeded, BuyBudgetLow, IntentExpired, NoHandler, StopAt, SkipIntent,
                Decide, workerVars
  <2>3. ASSUME NEW i \in Intent, CallInline(i) \/ CallTimed(i)
        PROVE  TypeOK'
    BY <2>3 DEF CallInline, CallTimed, workerVars
  <2>4. ASSUME NEW w \in Worker, Submit(w)
        PROVE  TypeOK'
    BY <2>4 DEF Submit
  <2>5. CASE SubmitFails
    BY <2>5 DEF SubmitFails, Decide, workerVars
  <2>6. CASE NoTimeLeft
    BY <2>6 DEF NoTimeLeft, StopOnTimeout
  <2> QED
    BY <1>4, <2>1, <2>2, <2>3, <2>4, <2>5, <2>6 DEF SchedulerLoop
<1>5. CASE SchedulerWaiting
  <2>1. CASE ResultReady
    BY <2>1 DEF ResultReady, Decide, TellNext, workerVars
  <2>2. CASE WaitTimesOut \/ StillRunning
    BY <2>2 DEF WaitTimesOut, StillRunning, workerVars
  <2>3. CASE DoneAfterTimeout
    BY <2>3 DEF DoneAfterTimeout, Decide, workerVars
  <2>4. CASE Register
    BY <2>4 DEF Register, LocalsFitPc, Holding
  <2>5. CASE AddCallback
    BY <2>5 DEF AddCallback, LocalsFitPc, Holding
  <2>6. CASE ShutdownAndStop
    BY <2>6 DEF ShutdownAndStop, StopOnTimeout
  <2> QED
    BY <1>5, <2>1, <2>2, <2>3, <2>4, <2>5, <2>6 DEF SchedulerWaiting
<1>6. ASSUME NEW r \in HandlerResults, InlineReturns(r)
      PROVE  TypeOK'
  BY <1>6 DEF InlineReturns, HandlerResults
<1>7. ASSUME NEW w \in Worker, WorkerStep(w)
      PROVE  TypeOK'
  <2>1. CASE HandlerStarts(w)
    BY <2>1 DEF HandlerStarts, gateVars
  <2>2. ASSUME NEW r \in HandlerResults, HandlerEnds(w, r)
        PROVE  TypeOK'
    BY <2>2 DEF HandlerEnds, HandlerResults, gateVars
  <2>3. CASE DropWhenDone(w)
    BY <2>3 DEF DropWhenDone, gateVars
  <2> QED
    BY <1>7, <2>1, <2>2, <2>3 DEF WorkerStep
<1>8. CASE UNCHANGED vars
  BY <1>8 DEF vars, gateVars, workerVars
<1> QED
  BY <1>1, <1>2, <1>3, <1>4, <1>5, <1>6, <1>7, <1>8 DEF Next, Scheduler

(* The control part of the invariant: what the scheduler does to the       *)
(* thread it holds, and what threads do on their own.                      *)
Control == NobodyElseWrites /\ LiveIsKnown /\ LocalsFitPc

LEMMA ControlStep == IInv /\ [Next]_vars => Control'
<1> SUFFICES ASSUME IInv, [Next]_vars PROVE Control'
  OBVIOUS
<1> USE DEF IInv, TypeOK, Control, NobodyElseWrites, LiveIsKnown, LocalsFitPc, Holding,
            Pcs, config
<1>1. CASE NewCycle
  BY <1>1 DEF NewCycle, gateVars, workerVars
<1>2. CASE Tick
  BY <1>2 DEF Tick, gateVars, workerVars
<1>3. ASSUME NEW b \in SUBSET Intent, NEW hs \in HandlerSets, NEW mode \in TimeoutModes,
             StartGate(b, hs, mode)
      PROVE  Control'
  BY <1>3 DEF StartGate, Blocked, Accepted, LiveDetached
<1>4. CASE SchedulerLoop
  <2>1. CASE GateDone
    BY <2>1 DEF GateDone, workerVars
  <2>2. ASSUME NEW i \in Intent,
               \/ BudgetExceeded(i) \/ BuyBudgetLow(i) \/ IntentExpired(i) \/ NoHandler(i)
        PROVE  Control'
    BY <2>2 DEF BudgetExceeded, BuyBudgetLow, IntentExpired, NoHandler, Admitted, StopAt,
                SkipIntent, workerVars
  <2>3. ASSUME NEW i \in Intent, CallInline(i) \/ CallTimed(i)
        PROVE  Control'
    BY <2>3 DEF CallInline, CallTimed, Runnable, Admitted, IsFirst, workerVars
  <2>4. ASSUME NEW w \in Worker, Submit(w)
        PROVE  Control'
    BY <2>4 DEF Submit
  <2>5. CASE SubmitFails
    BY <2>5 DEF SubmitFails, workerVars
  <2>6. CASE NoTimeLeft
    BY <2>6 DEF NoTimeLeft, StopOnTimeout
  <2> QED
    BY <1>4, <2>1, <2>2, <2>3, <2>4, <2>5, <2>6 DEF SchedulerLoop
<1>5. CASE SchedulerWaiting
  <2>1. CASE ResultReady
    BY <2>1 DEF ResultReady, workerVars
  <2>2. CASE WaitTimesOut \/ StillRunning
    BY <2>2 DEF WaitTimesOut, StillRunning, workerVars
  <2>3. CASE DoneAfterTimeout
    BY <2>3 DEF DoneAfterTimeout, workerVars
  <2>4. CASE Register
    BY <2>4 DEF Register
  <2>5. CASE AddCallback
    BY <2>5 DEF AddCallback
  <2>6. CASE ShutdownAndStop
    BY <2>6 DEF ShutdownAndStop, StopOnTimeout
  <2> QED
    BY <1>5, <2>1, <2>2, <2>3, <2>4, <2>5, <2>6 DEF SchedulerWaiting
<1>6. ASSUME NEW r \in HandlerResults, InlineReturns(r)
      PROVE  Control'
  BY <1>6 DEF InlineReturns
<1>7. ASSUME NEW w \in Worker, WorkerStep(w)
      PROVE  Control'
  <2>1. CASE HandlerStarts(w)
    BY <2>1 DEF HandlerStarts, gateVars
  <2>2. ASSUME NEW r \in HandlerResults, HandlerEnds(w, r)
        PROVE  Control'
    BY <2>2 DEF HandlerEnds, HandlerResults, gateVars
  <2>3. CASE DropWhenDone(w)
    BY <2>3 DEF DropWhenDone, gateVars
  <2> QED
    BY <1>7, <2>1, <2>2, <2>3 DEF WorkerStep
<1>8. CASE UNCHANGED vars
  BY <1>8 DEF vars, gateVars, workerVars
<1> QED
  BY <1>1, <1>2, <1>3, <1>4, <1>5, <1>6, <1>7, <1>8 DEF Next, Scheduler

LEMMA Invariant == Spec => []IInv
<1>1. Init => IInv
  BY InitIInv
<1>2. IInv /\ [Next]_vars => IInv'
  BY TypeStep, ControlStep DEF IInv, Control
<1> QED
  BY <1>1, <1>2, PTL DEF Spec

(* Every variable keeps its type, for any intents and threads. *)
THEOREM TypeCorrect == Spec => []TypeOK
<1>1. IInv => TypeOK
  BY DEF IInv
<1> QED
  BY <1>1, Invariant, PTL

(* "Single logical writer": however many handlers were cut off by a budget *)
(* and go on detached, and whichever gates mix direct and timed calls, two *)
(* handlers are never alive together.                                      *)
THEOREM OneWriterAlways == Spec => []OneWriter
<1>1. IInv => OneWriter
  BY DEF IInv, NobodyElseWrites, LiveIsKnown, OneWriter, Writers
<1> QED
  BY <1>1, Invariant, PTL

(* No live handler escapes the registry that fresh gates consult. *)
THEOREM DetachedIsRegisteredAlways == Spec => []DetachedIsRegistered
<1>1. IInv => DetachedIsRegistered
  BY DEF IInv, TypeOK, Pcs, NobodyElseWrites, LiveIsKnown, Holding, DetachedIsRegistered
<1> QED
  BY <1>1, Invariant, PTL

-----------------------------------------------------------------------------
(* The batch at a control point: what is queued has no decision yet, what  *)
(* is neither queued nor in hand had its turn, and nothing queued is of a  *)
(* higher priority than what was taken out.                                *)
NothingOvertakes ==
  /\ cur \in batch \cup {NoIntent}
  /\ \A j \in queue : j \in batch /\ decision[j] = "none"
  /\ cur # NoIntent => decision[cur] = "none"
  /\ cur \in queue => pc = "call"
  /\ pc = "call" => \A j \in queue : ~(j.priority > cur.priority)
  /\ pc # "idle" =>
       \A i \in batch : i # cur /\ i \notin queue => decision[i] \in HadItsTurn
  /\ \A i \in batch, j \in queue : i \notin queue => ~(j.priority > i.priority)

(* A thread that is alive works on an intent no success was reported of. *)
LiveIsUndecided == \A w \in Worker : Live(w) => decision[task[w]] # "processed"

Accounts == NothingOvertakes /\ LiveIsUndecided /\ PriorityRespected /\ EveryIntentIsAccounted

(* The queue has a first intent, and none of those behind it has a higher  *)
(* priority.                                                               *)
LEMMA FirstIsTop ==
  ASSUME TypeOK, NEW i \in Intent, IsFirst(i)
  PROVE  i \in queue /\ \A j \in queue : ~(j.priority > i.priority)
BY DEF TypeOK, IsFirst, Before

LEMMA QueueHasFirst == TypeOK /\ queue # {} => \E i \in queue : IsFirst(i)
BY SortAssumption DEF TypeOK, IsFirst

(* Decide changes the decision of one intent and no other. *)
LEMMA OneDecision ==
  ASSUME TypeOK, NEW i \in Intent, NEW s, Decide(i, s)
  PROVE  \A j \in Intent : decision'[j] = IF j = i THEN s ELSE decision[j]
BY DEF TypeOK, Decide

LEMMA AccountsStep == IInv /\ Accounts /\ [Next]_vars => Accounts'
<1> SUFFICES ASSUME IInv, Accounts, [Next]_vars PROVE Accounts'
  OBVIOUS
<1> USE DEF IInv, TypeOK, NobodyElseWrites, LiveIsKnown, LocalsFitPc, Holding, Pcs, config,
            Accounts, NothingOvertakes, LiveIsUndecided, PriorityRespected, Handled, HadItsTurn,
            EveryIntentIsAccounted, TimeoutIsAccounted, OnlyBudgetDrops, ProcessedReturned
<1>a. ASSUME pc \in {"call", "shutdown"}, StopOnTimeout,
             \A w \in Worker : Live(w)' => Live(w)
      PROVE  Accounts'
  <2>1. cur \in batch /\ decision[cur] = "none"
    BY <1>a
  <2>2. \A j \in batch : IF j = cur \/ j \in queue
                          THEN decision'[j] \in {"handler_timeout", "budget_exceeded"}
                          ELSE decision'[j] = decision[j]
    BY <1>a DEF StopOnTimeout
  <2>3. NothingOvertakes' /\ LiveIsUndecided'
    BY <1>a, <2>1 DEF StopOnTimeout
  <2>4. PriorityRespected'
    BY <1>a, <2>1, <2>2 DEF StopOnTimeout
  <2>5. EveryIntentIsAccounted'
    BY <1>a, <2>1 DEF StopOnTimeout
  <2> QED
    BY <2>3, <2>4, <2>5
<1>1. CASE NewCycle \/ Tick
  BY <1>1 DEF NewCycle, Tick, gateVars, workerVars
<1>2. ASSUME NEW b \in SUBSET Intent, NEW hs \in HandlerSets, NEW mode \in TimeoutModes,
             StartGate(b, hs, mode)
      PROVE  Accounts'
  <2>1. CASE LiveDetached # {}
    BY <1>2, <2>1 DEF StartGate, Blocked
  <2>2. CASE LiveDetached = {}
    BY <1>2, <2>2 DEF StartGate, Accepted, LiveDetached
  <2> QED
    BY <2>1, <2>2
<1>3. CASE SchedulerLoop
  <2>1. CASE GateDone
    BY <2>1 DEF GateDone, workerVars
  <2>2. ASSUME NEW i \in Intent, BudgetExceeded(i) \/ BuyBudgetLow(i)
        PROVE  Accounts'
    BY <2>2, FirstIsTop DEF BudgetExceeded, BuyBudgetLow, StopAt, Decide, workerVars
  <2>3. ASSUME NEW i \in Intent, IntentExpired(i) \/ NoHandler(i)
        PROVE  Accounts'
    BY <2>3, FirstIsTop DEF IntentExpired, NoHandler, Admitted, SkipIntent, Decide, workerVars
  <2>4. ASSUME NEW i \in Intent, CallInline(i) \/ CallTimed(i)
        PROVE  Accounts'
    BY <2>4, FirstIsTop DEF CallInline, CallTimed, Runnable, Admitted, workerVars
  <2>5. ASSUME NEW w \in Worker, Submit(w)
        PROVE  Accounts'
    BY <2>5 DEF Submit
  <2>6. CASE SubmitFails
    BY <2>6 DEF SubmitFails, Decide, workerVars
  <2>7. CASE NoTimeLeft
    BY <1>a, <2>7 DEF NoTimeLeft
  <2> QED
    BY <1>3, <2>1, <2>2, <2>3, <2>4, <2>5, <2>6, <2>7 DEF SchedulerLoop
<1>4. CASE SchedulerWaiting
  <2>1. CASE ResultReady
    <3>1. cur \in batch /\ cur \notin queue /\ decision[cur] = "none"
      BY <2>1 DEF ResultReady
    <3>2. CASE pc' = "loop"
      <4>1. PICK s \in HadItsTurn :
              /\ \A i \in Intent : decision'[i] = IF i = cur THEN s ELSE decision[i]
              /\ s = "processed" => outcome[cur] = "returned"
        BY <2>1, <3>2, OneDecision DEF ResultReady
      <4>2. /\ UNCHANGED <<batch, queue, outcome, future, task>>
            /\ cur' = NoIntent /\ pc # "call"
            /\ \A w \in Worker : ~Live(w)
        BY <2>1, <3>2 DEF ResultReady, workerVars
      <4>3. NothingOvertakes' /\ LiveIsUndecided'
        BY <3>1, <3>2, <4>1, <4>2
      <4>4. PriorityRespected'
        BY <3>1, <3>2, <4>1, <4>2
      <4>5. EveryIntentIsAccounted'
        BY <3>1, <3>2, <4>1, <4>2
      <4> QED
        BY <4>3, <4>4, <4>5
    <3>3. CASE pc' = "idle"
      BY <2>1, <3>1, <3>3, QueueHasFirst, FirstIsTop DEF ResultReady, TellNext, IsFirst, workerVars
    <3> QED
      BY <2>1, <3>2, <3>3 DEF ResultReady
  <2>2. CASE WaitTimesOut \/ StillRunning
    BY <2>2 DEF WaitTimesOut, StillRunning, workerVars
  <2>3. CASE DoneAfterTimeout
    <3>1. cur \in batch /\ cur \notin queue /\ decision[cur] = "none"
      BY <2>3 DEF DoneAfterTimeout
    <3> QED
      BY <2>3, <3>1 DEF DoneAfterTimeout, Decide, workerVars
  <2>4. CASE Register \/ AddCallback
    BY <2>4 DEF Register, AddCallback
  <2>5. CASE ShutdownAndStop
    BY <1>a, <2>5 DEF ShutdownAndStop
  <2> QED
    BY <1>4, <2>1, <2>2, <2>3, <2>4, <2>5 DEF SchedulerWaiting
<1>5. ASSUME NEW r \in HandlerResults, InlineReturns(r)
      PROVE  Accounts'
  BY <1>5 DEF InlineReturns
<1>6. ASSUME NEW w \in Worker, WorkerStep(w)
      PROVE  Accounts'
  <2>1. CASE HandlerStarts(w) \/ DropWhenDone(w)
    BY <2>1 DEF HandlerStarts, DropWhenDone, gateVars
  <2>2. ASSUME NEW r \in HandlerResults, HandlerEnds(w, r)
        PROVE  Accounts'
    BY <2>2 DEF HandlerEnds, HandlerResults, gateVars
  <2> QED
    BY <1>6, <2>1, <2>2 DEF WorkerStep
<1>7. CASE UNCHANGED vars
  BY <1>7 DEF vars, gateVars, workerVars
<1> QED
  BY <1>1, <1>2, <1>3, <1>4, <1>5, <1>6, <1>7 DEF Next, Scheduler

LEMMA AccountsInvariant == Spec => []Accounts
<1>1. Init => Accounts
  BY DEF Init, Accounts, NothingOvertakes, LiveIsUndecided, PriorityRespected,
         EveryIntentIsAccounted, TimeoutIsAccounted, OnlyBudgetDrops, ProcessedReturned
<1>2. IInv /\ Accounts /\ [Next]_vars => Accounts'
  BY AccountsStep
<1> QED
  BY <1>1, <1>2, Invariant, PTL DEF Spec

(* Whatever times out, expires or fails: once an intent's handler was      *)
(* called, every intent of a higher priority had had its turn.             *)
THEOREM PriorityRespectedAlways == Spec => []PriorityRespected
<1>1. Accounts => PriorityRespected
  BY DEF Accounts
<1> QED
  BY <1>1, AccountsInvariant, PTL

(* For batches of any size: a timeout leaves no intent without a decision, *)
(* nothing but the budget drops one, and a reported success was one.       *)
THEOREM EveryIntentIsAccountedAlways == Spec => []EveryIntentIsAccounted
<1>1. Accounts => EveryIntentIsAccounted
  BY DEF Accounts
<1> QED
  BY <1>1, AccountsInvariant, PTL

-----------------------------------------------------------------------------
(* What the refinement mapping of OrderGateRefinement comes to in a state  *)
(* that satisfies the invariant: the live thread is unique, so the CHOOSE  *)
(* names it.                                                               *)
WriterFacts ==
  /\ pc = "inline" => WriterIntent = cur
  /\ pc # "inline" => \A w \in Worker : Live(w) => WriterIntent = task[w]
  /\ pc # "inline" /\ (\A w \in Worker : ~Live(w)) => WriterIntent = NoIntent

LEMMA WriterMapped == IInv => WriterFacts
<1> SUFFICES ASSUME IInv PROVE WriterFacts
  OBVIOUS
<1>1. pc = "inline" => WriterIntent = cur
  BY DEF WriterIntent
<1>2. ASSUME pc # "inline", NEW w \in Worker, Live(w) PROVE WriterIntent = task[w]
  <2> DEFINE v == CHOOSE x \in Worker : Live(x)
  <2>1. v \in Worker /\ Live(v)
    BY <1>2
  <2>2. v = w
    BY <1>2, <2>1 DEF IInv, LiveIsKnown
  <2> QED
    BY <1>2, <2>2 DEF WriterIntent
<1>3. pc # "inline" /\ (\A w \in Worker : ~Live(w)) => WriterIntent = NoIntent
  BY DEF WriterIntent
<1> QED
  BY <1>1, <1>2, <1>3 DEF WriterFacts

Mapped == IInv /\ WriterFacts

(* Every step of the gate and of its threads is an Offer, Discard, Begin   *)
(* or Finish of SingleWriter, or changes nothing it can see.               *)
LEMMA RefinementStep == Mapped /\ Mapped' /\ [Next]_vars => [Writer!Next]_(Writer!vars)
<1> SUFFICES ASSUME Mapped, Mapped', [Next]_vars PROVE [Writer!Next]_(Writer!vars)
  OBVIOUS
<1> USE DEF Mapped, IInv, TypeOK, NobodyElseWrites, LiveIsKnown, LocalsFitPc, WriterFacts,
            Holding, Pcs, config
<1> DEFINE Stutter == UNCHANGED <<queue, WriterIntent>>
<1>0. Stutter => UNCHANGED Writer!vars
  BY DEF Writer!vars
<1>1. CASE NewCycle \/ Tick
  BY <1>0, <1>1 DEF NewCycle, Tick, gateVars, workerVars
<1>2. ASSUME NEW b \in SUBSET Intent, NEW hs \in HandlerSets, NEW mode \in TimeoutModes,
             StartGate(b, hs, mode)
      PROVE  Writer!Offer(b) \/ Stutter
  <2>1. CASE LiveDetached # {}
    <3>1. pc = "idle" /\ UNCHANGED <<pc, cur, worker, future, task>> /\ queue' = {}
      BY <1>2, <2>1 DEF StartGate, Blocked
    <3>2. WriterIntent' = WriterIntent
      <4>1. CASE \A w \in Worker : ~Live(w)
        BY <3>1, <4>1
      <4>2. ASSUME NEW w \in Worker, Live(w) PROVE WriterIntent' = WriterIntent
        BY <3>1, <4>2
      <4> QED
        BY <4>1, <4>2
    <3> QED
      BY <3>1, <3>2
  <2>2. CASE LiveDetached = {}
    <3>1. WriterIntent = NoIntent
      BY <1>2, <2>2 DEF StartGate, LiveDetached
    <3>2. WriterIntent' = NoIntent
      BY <1>2, <2>2 DEF StartGate, Accepted, LiveDetached
    <3> QED
      BY <1>2, <2>2, <3>1, <3>2 DEF StartGate, Accepted, Writer!Offer
  <2> QED
    BY <2>1, <2>2
<1>3. CASE SchedulerLoop
  <2>1. CASE GateDone
    BY <1>0, <2>1 DEF GateDone, workerVars
  <2>2. ASSUME NEW i \in Intent,
               \/ BudgetExceeded(i) \/ BuyBudgetLow(i) \/ IntentExpired(i) \/ NoHandler(i)
        PROVE  Writer!Discard
    BY <2>2 DEF BudgetExceeded, BuyBudgetLow, IntentExpired, NoHandler, Admitted, StopAt,
                SkipIntent, workerVars, Writer!Discard
  <2>3. ASSUME NEW i \in Intent, CallInline(i)
        PROVE  Writer!Begin(i)
    BY <2>3 DEF CallInline, Runnable, Admitted, IsFirst, workerVars, Writer!Begin
  <2>4. ASSUME NEW i \in Intent, CallTimed(i)
        PROVE  Stutter
    BY <2>4 DEF CallTimed, Runnable, Admitted, workerVars
  <2>5. ASSUME NEW w \in Worker, Submit(w)
        PROVE  \E i \in Intent : Writer!Begin(i)
    <3>1. cur \in Intent
      BY <2>5 DEF Submit
    <3>2. Writer!Begin(cur)
      BY <2>5 DEF Submit, Writer!Begin
    <3> QED
      BY <3>1, <3>2
  <2>6. CASE SubmitFails \/ NoTimeLeft
    <3>1. pc = "call" /\ pc' \in {"loop", "idle"} /\ future' = future
      BY <2>6 DEF SubmitFails, NoTimeLeft, StopOnTimeout, workerVars
    <3>2. WriterIntent = NoIntent /\ WriterIntent' = NoIntent
      BY <3>1
    <3>3. queue' \subseteq queue
      BY <2>6 DEF SubmitFails, NoTimeLeft, StopOnTimeout
    <3> QED
      BY <3>2, <3>3 DEF Writer!Discard, Writer!Next
  <2> QED
    BY <1>0, <1>3, <2>1, <2>2, <2>3, <2>4, <2>5, <2>6 DEF SchedulerLoop, Writer!Next
<1>4. CASE SchedulerWaiting
  <2>1. CASE ResultReady
    BY <1>0, <2>1 DEF ResultReady, workerVars, Writer!Finish, Writer!Discard, Writer!Next
  <2>2. CASE WaitTimesOut \/ StillRunning
    BY <1>0, <2>2 DEF WaitTimesOut, StillRunning, workerVars
  <2>3. CASE DoneAfterTimeout
    BY <1>0, <2>3 DEF DoneAfterTimeout, workerVars
  <2>4. CASE Register
    BY <1>0, <2>4 DEF Register
  <2>5. CASE AddCallback
    BY <1>0, <2>5 DEF AddCallback
  <2>6. CASE ShutdownAndStop
    BY <1>0, <2>6 DEF ShutdownAndStop, StopOnTimeout, Writer!Finish, Writer!Discard, Writer!Next
  <2> QED
    BY <1>4, <2>1, <2>2, <2>3, <2>4, <2>5, <2>6 DEF SchedulerWaiting
<1>5. ASSUME NEW r \in HandlerResults, InlineReturns(r)
      PROVE  Writer!Finish
  BY <1>5 DEF InlineReturns, Writer!Finish
<1>6. ASSUME NEW w \in Worker, WorkerStep(w)
      PROVE  Writer!Finish \/ Stutter
  <2>1. CASE HandlerStarts(w)
    BY <2>1 DEF HandlerStarts, gateVars
  <2>2. ASSUME NEW r \in HandlerResults, HandlerEnds(w, r)
        PROVE  Writer!Finish
    BY <2>2 DEF HandlerEnds, HandlerResults, gateVars, Writer!Finish
  <2>3. CASE DropWhenDone(w)
    BY <2>3 DEF DropWhenDone, gateVars
  <2> QED
    BY <1>6, <2>1, <2>2, <2>3 DEF WorkerStep
<1>7. CASE UNCHANGED vars
  BY <1>0, <1>7 DEF vars, gateVars, workerVars
<1> QED
  BY <1>0, <1>1, <1>2, <1>3, <1>4, <1>5, <1>6, <1>7 DEF Next, Scheduler, Writer!Next

(* The gate, its detached handlers and its registry implement the          *)
(* promise of a single writer: a batch is only taken in, and a handler     *)
(* only started, when nothing is being written.                            *)
THEOREM Refinement == Spec => ImplementsSingleWriter
<1>1. Init => Writer!Init
  BY InitIInv, WriterMapped DEF Init, Writer!Init, WriterFacts
<1>2. Mapped /\ Mapped' /\ [Next]_vars => [Writer!Next]_(Writer!vars)
  BY RefinementStep
<1>3. IInv => Mapped
  BY WriterMapped DEF Mapped
<1> QED
  BY <1>1, <1>2, <1>3, Invariant, PTL DEF Spec, ImplementsSingleWriter, Writer!Spec
=============================================================================

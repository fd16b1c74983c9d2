---------------------------- MODULE SessionProofs ----------------------------
(***************************************************************************)
(* Proofs about the session: its loop, SessionLoop, for any intervals and  *)
(* backoffs, and the scripts around it, Session, for any number of starts  *)
(* and any mishaps.                                                        *)
(*                                                                         *)
(* The loop: a cooldown of the balance endpoint is never slept through     *)
(* inside a cycle, no request is made while a backoff runs, and what one   *)
(* hit after another has to wait doubles.                                  *)
(*                                                                         *)
(* The scripts: that a session is alone rests on its helper.  The shell    *)
(* that saw a ready file saw the one of its own helper, which has the lock *)
(* until the shell tells it to end.  What a power failure leaves lying     *)
(* does no harm, for the first start that goes out removes the ready file. *)
(***************************************************************************)
EXTENDS SessionLoop, Session, Integers, FiniteSetTheorems, SequenceTheorems, TLAPS

(* The fields the argument is about. *)
BudgetShape(b) == "source" \in DOMAIN b
CycleShape(c)  == "source" \in DOMAIN c /\ "drained" \in DOMAIN c

(* While a cooldown of the balance runs, its source is on its way from the *)
(* cycle that was limited to the budget the loop decides by, so that no    *)
(* later cycle begins in it.                                               *)
Cooling ==
  /\ pc \notin {"finalize", "sleep", "tick"} =>
       ~banned /\ cycle.source # "balance"
  /\ pc = "finalize" /\ banned => cycle.source = "balance"
  /\ pc \in {"sleep", "tick"} /\ banned => budget.source = "balance"
  /\ pc = "balance" => ~cycle.drained

IInv == BudgetShape(budget) /\ CycleShape(cycle) /\ Cooling

(* No operator on the budget but Recover and NoteHit changes its source. *)
LEMMA AgedKeeps ==
  ASSUME NEW b, BudgetShape(b), NEW k
  PROVE  BudgetShape(Aged(b, k)) /\ Aged(b, k).source = b.source
BY DEF BudgetShape, Aged

LEMMA ControlKeeps ==
  ASSUME NEW b, BudgetShape(b)
  PROVE  BudgetShape(RateControl(b)) /\ RateControl(b).source = b.source
BY DEF BudgetShape, RateControl

LEMMA NoteHitMakes ==
  ASSUME NEW b, BudgetShape(b), NEW source
  PROVE  BudgetShape(NoteHit(b, source)) /\ NoteHit(b, source).source = source
BY DEF BudgetShape, NoteHit

LEMMA NoteTransientKeeps ==
  ASSUME NEW b, BudgetShape(b)
  PROVE  BudgetShape(NoteTransient(b)) /\ NoteTransient(b).source = b.source
BY DEF BudgetShape, NoteTransient

LEMMA RecoverMakes ==
  ASSUME NEW b, BudgetShape(b), NEW source
  PROVE  BudgetShape(Recover(b, source)) /\ (source # "none" => Recover(b, source).source = source)
BY DEF BudgetShape, Recover

-----------------------------------------------------------------------------
LEMMA Initially == Init => IInv
BY DEF Init, IInv, BudgetShape, CycleShape, Cooling, NoCycle

LEMMA TickStep == ASSUME IInv, Tick PROVE IInv'
<1> DEFINE b   == RateControl(budget)
           due == Decision(b, age.sell >= SellInterval(b), age.buy >= BuyInterval(b))
<1>1. BudgetShape(b) /\ b.source = budget.source
  BY ControlKeeps DEF IInv
<1>2. /\ pc = "tick" /\ banned' = (banned /\ Active(b.backoff))
      /\ (due.sell \/ due.buy) =>
           /\ pc' = "gate" /\ budget' = b
           /\ cycle' = [NoCycle EXCEPT !.sell = due.sell, !.buy = due.buy]
      /\ ~(due.sell \/ due.buy) => budget' = Aged(b, TickLength) /\ UNCHANGED <<pc, cycle>>
  BY Zenon DEF Tick
<1>3. due.sell \/ due.buy => ~(Active(b.backoff) /\ b.source = "balance")
  BY DEF Decision
<1> HIDE DEF b, due
<1>4. banned => budget.source = "balance"
  BY <1>2 DEF IInv, Cooling
<1>5. CASE due.sell \/ due.buy
  <2>1. ~banned'
    BY <1>1, <1>2, <1>3, <1>4, <1>5, Zenon
  <2>2. CycleShape(cycle') /\ cycle'.source = "none" /\ cycle'.drained = FALSE
    BY <1>2, <1>5 DEF NoCycle, CycleShape
  <2> QED
    BY <1>1, <1>2, <1>5, <2>1, <2>2 DEF IInv, Cooling, BudgetShape, CycleShape
<1>6. CASE ~(due.sell \/ due.buy)
  <2>1. BudgetShape(budget') /\ budget'.source = budget.source
    BY <1>1, <1>2, <1>6, AgedKeeps
  <2> QED
    BY <1>2, <1>4, <1>6, <2>1 DEF IInv, Cooling, BudgetShape, CycleShape
<1> QED
  BY <1>5, <1>6

(* A phase that ends without a hit, after which the source is the same.    *)
LEMMA PhaseStep ==
  ASSUME IInv, pc \notin {"finalize", "sleep", "tick"}, UNCHANGED banned,
         NEW b, BudgetShape(b), NEW c, CycleShape(c), c.source = cycle.source,
         NEW k, NEW phase, phase \notin {"sleep", "tick"}, Leaves(b, c, k, phase),
         phase = "balance" => c.drained = FALSE
  PROVE  IInv'
<1>1. /\ budget' = b /\ pc' = phase /\ CycleShape(cycle')
      /\ cycle'.source = c.source /\ cycle'.drained = c.drained
  BY DEF Leaves, CycleShape
<1> QED
  BY <1>1 DEF IInv, Cooling, BudgetShape, CycleShape

(* A hit that is not one of the balance. *)
LEMMA LimitedStep ==
  ASSUME IInv, pc \notin {"finalize", "sleep", "tick"},
         NEW c, CycleShape(c), NEW k, NEW phase, phase \notin {"balance", "sleep", "tick"},
         NEW source, source # "balance" \/ phase = "finalize", Limited(c, source, k, phase)
  PROVE  IInv'
<1>1. BudgetShape(NoteHit(Aged(budget, k), source))
  BY AgedKeeps, NoteHitMakes DEF IInv
<1>2. /\ budget' = NoteHit(Aged(budget, k), source) /\ pc' = phase
      /\ banned' = (banned \/ source = "balance")
  BY Zenon DEF Limited, Leaves
<1>3. CycleShape(cycle') /\ cycle'.source = source
  <2> DEFINE d == [c EXCEPT !.source = source, !.notes = @ + 1]
  <2>1. CycleShape(d) /\ d.source = source
    BY DEF CycleShape
  <2>2. cycle' = [d EXCEPT !.elapsed = Spent(k)]
    BY DEF Limited, Leaves
  <2> HIDE DEF d
  <2> QED
    BY <2>1, <2>2 DEF CycleShape
<1>4. ~banned
  BY DEF IInv, Cooling
<1> QED
  BY <1>1, <1>2, <1>3, <1>4 DEF IInv, Cooling, BudgetShape, CycleShape

-----------------------------------------------------------------------------
LEMMA GateSteps == ASSUME IInv, MarketClosed \/ EnterCycle \/ BudgetUsedUp PROVE IInv'
<1>1. pc = "gate" /\ ~banned /\ CycleShape(cycle) /\ BudgetShape(budget)
  BY DEF IInv, Cooling, MarketClosed, EnterCycle, BudgetUsedUp
<1>2. /\ BudgetShape(Aged(budget, Drain)) /\ CycleShape(Drained(Drain))
      /\ Drained(Drain).source = cycle.source /\ Drained(Drain).drained = FALSE
  BY <1>1, AgedKeeps DEF Drained, CycleShape
<1>3. UNCHANGED banned
  BY DEF MarketClosed, EnterCycle, BudgetUsedUp, Calm
<1>4. CASE MarketClosed
  <2>1. Leaves(budget, cycle, 0, "finalize")
    BY <1>4 DEF MarketClosed
  <2> QED
    BY <1>1, <1>3, <2>1, PhaseStep
<1>5. CASE EnterCycle
  <2>1. Leaves(Aged(budget, Drain), Drained(Drain), Drain, "balance")
    BY <1>5 DEF EnterCycle
  <2> DEFINE b == Aged(budget, Drain)
             c == Drained(Drain)
  <2>2. /\ BudgetShape(b) /\ CycleShape(c) /\ c.source = cycle.source /\ c.drained = FALSE
        /\ Leaves(b, c, Drain, "balance")
    BY <1>2, <2>1
  <2> HIDE DEF b, c
  <2> QED
    BY <1>1, <1>3, <2>2, PhaseStep
<1>6. CASE BudgetUsedUp
  <2>1. Leaves(Aged(budget, Drain), Drained(Drain), Drain, "finalize")
    BY <1>6 DEF BudgetUsedUp
  <2> DEFINE b == Aged(budget, Drain)
             c == Drained(Drain)
  <2>2. /\ BudgetShape(b) /\ CycleShape(c) /\ c.source = cycle.source /\ c.drained = FALSE
        /\ Leaves(b, c, Drain, "finalize")
    BY <1>2, <2>1
  <2> HIDE DEF b, c
  <2> QED
    BY <1>1, <1>3, <2>2, PhaseStep
<1> QED
  BY <1>4, <1>5, <1>6

(* The phases from the balance to the BUY order. *)
LEMMA CycleSteps ==
  ASSUME IInv,
         \/ BalanceAnswered \/ WatchHoldings \/ WatchNotDue \/ OrdersEnd \/ NoSellOrder
         \/ RaiseTransient \/ EnterScan \/ NoScan \/ ScanAnswered \/ BuyOrderEnds
         \/ BuyTail \/ OrderAnswered
  PROVE  IInv'
<1>1. /\ pc \notin {"finalize", "sleep", "tick"} /\ UNCHANGED banned
      /\ BudgetShape(budget) /\ CycleShape(cycle)
  BY DEF IInv, BalanceAnswered, WatchHoldings, WatchNotDue, OrdersEnd, NoSellOrder,
         RaiseTransient, Raising, EnterScan, NoScan, ScanAnswered, BuyOrderEnds, BuyTail,
         OrderAnswered, Calm
<1>2. \A k : BudgetShape(Aged(budget, k))
  BY <1>1, AgedKeeps
<1>3. BudgetShape(NoteTransient(budget))
  BY <1>1, NoteTransientKeeps
<1>4. \A h, p :
        /\ CycleShape([cycle EXCEPT !.held = h, !.partial = p])
        /\ CycleShape([cycle EXCEPT !.held = h]) /\ CycleShape([cycle EXCEPT !.prefetch = p])
        /\ [cycle EXCEPT !.held = h, !.partial = p].source = cycle.source
        /\ [cycle EXCEPT !.held = h].source = cycle.source
        /\ [cycle EXCEPT !.prefetch = p].source = cycle.source
  BY <1>1 DEF CycleShape
<1>5. \A c \in Prefetching : CycleShape(c) /\ c.source = cycle.source
  <2>1. CycleShape([cycle EXCEPT !.prefetch = TRUE]) /\ CycleShape([cycle EXCEPT !.buy = FALSE])
        /\ [cycle EXCEPT !.prefetch = TRUE].source = cycle.source
        /\ [cycle EXCEPT !.buy = FALSE].source = cycle.source
    BY <1>1 DEF CycleShape
  <2> QED
    BY <1>1, <2>1, Zenon DEF Prefetching
<1>6. CASE BalanceAnswered
  <2>1. PICK c \in Prefetching, k \in 0..1 : Leaves(Aged(budget, k), c, k, "watch")
    BY <1>6 DEF BalanceAnswered
  <2> DEFINE b == Aged(budget, k)
  <2>2. BudgetShape(b) /\ CycleShape(c) /\ c.source = cycle.source /\ Leaves(b, c, k, "watch")
    BY <1>2, <1>5, <2>1
  <2> HIDE DEF b
  <2> QED
    BY <1>1, <2>2, PhaseStep
<1>7. CASE WatchHoldings
  <2>1. PICK h \in BOOLEAN, p \in BOOLEAN :
          Leaves(budget, [cycle EXCEPT !.held = h, !.partial = p], 0, "orders")
    BY <1>7 DEF WatchHoldings
  <2> DEFINE c == [cycle EXCEPT !.held = h, !.partial = p]
  <2>2. CycleShape(c) /\ c.source = cycle.source /\ Leaves(budget, c, 0, "orders")
    BY <1>4, <2>1
  <2> HIDE DEF c
  <2> QED
    BY <1>1, <2>2, PhaseStep
<1>8. CASE WatchNotDue
  <2>1. PICK h \in BOOLEAN : Leaves(budget, [cycle EXCEPT !.held = h], 0, "orders")
    BY <1>8 DEF WatchNotDue
  <2> DEFINE c == [cycle EXCEPT !.held = h]
  <2>2. CycleShape(c) /\ c.source = cycle.source /\ Leaves(budget, c, 0, "orders")
    BY <1>4, <2>1
  <2> HIDE DEF c
  <2> QED
    BY <1>1, <2>2, PhaseStep
<1>9. CASE OrdersEnd \/ NoSellOrder \/ BuyOrderEnds \/ OrderAnswered \/ RaiseTransient
  <2>1. PICK b \in {budget, NoteTransient(budget)}, phase \in {"finalize", "scan_entry"} :
          Leaves(b, cycle, 0, phase)
    BY <1>9 DEF OrdersEnd, NoSellOrder, BuyOrderEnds, OrderAnswered, RaiseTransient
  <2> QED
    BY <1>1, <1>3, <2>1, PhaseStep
<1>10. CASE EnterScan
  <2>1. PICK phase \in {"scan", "finalize"} :
          Leaves(Aged(budget, WatchDrain), cycle, WatchDrain, phase)
    BY <1>10 DEF EnterScan
  <2> QED
    BY <1>1, <1>2, <2>1, PhaseStep
<1>11. CASE NoScan
  <2>1. PICK p : Leaves(budget, [cycle EXCEPT !.prefetch = p], 0, "finalize")
    BY <1>11 DEF NoScan
  <2> DEFINE c == [cycle EXCEPT !.prefetch = p]
  <2>2. CycleShape(c) /\ c.source = cycle.source /\ Leaves(budget, c, 0, "finalize")
    BY <1>4, <2>1
  <2> HIDE DEF c
  <2> QED
    BY <1>1, <2>2, PhaseStep
<1>12. CASE ScanAnswered
  <2>1. PICK k : Leaves(Aged(budget, k), [cycle EXCEPT !.prefetch = FALSE], k, "buy_order")
    BY <1>12 DEF ScanAnswered
  <2> DEFINE b == Aged(budget, k)
             c == [cycle EXCEPT !.prefetch = FALSE]
  <2>2. /\ BudgetShape(b) /\ CycleShape(c) /\ c.source = cycle.source
        /\ Leaves(b, c, k, "buy_order")
    BY <1>2, <1>4, <2>1
  <2> HIDE DEF b, c
  <2> QED
    BY <1>1, <2>2, PhaseStep
<1>13. CASE BuyTail
  <2> DEFINE k == budget.backoff
  <2>1. PICK phase \in {"tail"} : Leaves(Aged(budget, k), cycle, k, phase)
    BY <1>13 DEF BuyTail
  <2> HIDE DEF k
  <2> QED
    BY <1>1, <1>2, <2>1, PhaseStep
<1> QED
  BY <1>6, <1>7, <1>8, <1>9, <1>10, <1>11, <1>12, <1>13

LEMMA HitSteps ==
  ASSUME IInv, BalanceLimited \/ WatchLimited \/ ScanLimited \/ RaiseLimited
  PROVE  IInv'
<1>1. pc \notin {"finalize", "sleep", "tick"} /\ CycleShape(cycle) /\ cycle.source # "balance"
  BY DEF IInv, Cooling, BalanceLimited, WatchLimited, ScanLimited, RaiseLimited, Raising
<1>2. \A c \in Prefetching : CycleShape(c)
  BY <1>1 DEF Prefetching, CycleShape
<1>3. CycleShape([cycle EXCEPT !.held = TRUE, !.partial = TRUE])
      /\ CycleShape([cycle EXCEPT !.prefetch = FALSE])
  BY <1>1 DEF CycleShape
<1>4. CASE BalanceLimited
  BY <1>1, <1>2, <1>4, LimitedStep DEF BalanceLimited
<1>5. CASE WatchLimited
  BY <1>1, <1>3, <1>5, LimitedStep DEF WatchLimited
<1>6. CASE ScanLimited
  BY <1>1, <1>3, <1>6, LimitedStep DEF ScanLimited
<1>7. CASE RaiseLimited
  BY <1>1, <1>7, LimitedStep DEF RaiseLimited
<1> QED
  BY <1>4, <1>5, <1>6, <1>7

LEMMA EndSteps == ASSUME IInv, Finalize \/ FinalizeLimited \/ Sleep PROVE IInv'
<1>1. CASE Finalize
  <2>1. BudgetShape(budget') /\ (cycle.source # "none" => budget'.source = cycle.source)
    BY <1>1, RecoverMakes DEF Finalize, Finalized, IInv
  <2>2. pc = "finalize" /\ pc' = "sleep" /\ UNCHANGED banned /\ CycleShape(cycle')
    BY <1>1 DEF Finalize, Finalized, IInv, CycleShape
  <2> QED
    BY <2>1, <2>2 DEF IInv, Cooling, BudgetShape, CycleShape
<1>2. CASE FinalizeLimited
  <2> DEFINE source == IF cycle.source = "none" THEN "buy_scan" ELSE cycle.source
  <2>1. Finalized(NoteHit(budget, "buy_scan"), source)
    BY <1>2 DEF FinalizeLimited
  <2>2. source # "none" /\ (cycle.source # "none" => source = cycle.source)
    OBVIOUS
  <2> HIDE DEF source
  <2>3. BudgetShape(budget') /\ budget'.source = source
    BY <2>1, <2>2, NoteHitMakes, RecoverMakes DEF Finalized, IInv
  <2>4. pc = "finalize" /\ pc' = "sleep" /\ UNCHANGED banned /\ CycleShape(cycle')
    BY <1>2, <2>1 DEF FinalizeLimited, Finalized, IInv, CycleShape
  <2> QED
    BY <2>2, <2>3, <2>4 DEF IInv, Cooling, BudgetShape, CycleShape
<1>3. CASE Sleep
  <2>1. BudgetShape(budget') /\ budget'.source = budget.source
    BY <1>3, AgedKeeps DEF Sleep, IInv
  <2>2. pc = "sleep" /\ pc' = "tick" /\ UNCHANGED banned /\ CycleShape(cycle')
    BY <1>3 DEF Sleep, NoCycle, CycleShape
  <2> QED
    BY <2>1, <2>2 DEF IInv, Cooling, BudgetShape, CycleShape
<1> QED
  BY <1>1, <1>2, <1>3

LEMMA Step == ASSUME IInv, [Next]_vars PROVE IInv'
<1>1. CASE UNCHANGED vars
  BY <1>1 DEF vars, IInv, Cooling, BudgetShape, CycleShape
<1> QED
  BY <1>1, TickStep, GateSteps, CycleSteps, HitSteps, EndSteps DEF Next, Hit

LEMMA Invariant == Spec => []IInv
<1>1. IInv /\ [Next]_vars => IInv'
  BY Step
<1> QED
  BY <1>1, Initially, PTL DEF Spec

(* No cycle that slept through a cooldown of the balance endpoint asks for *)
(* the balance (session_loop.py:170): whatever hits of other sources are   *)
(* noted, the loop lets such a cooldown run out before it starts a cycle.  *)
THEOREM CooldownIsKept == Spec => BalanceIsNotDrained
<1> DEFINE A == BalanceAnswered \/ BalanceLimited => ~cycle.drained
<1>1. IInv /\ [Next]_vars => [A]_vars
  BY DEF IInv, Cooling, BalanceAnswered, BalanceLimited
<1> QED
  BY <1>1, Invariant, PTL DEF Spec, BalanceIsNotDrained

-----------------------------------------------------------------------------
(* What the loop waits for.                                                *)
(* What the next hit will make the loop wait. *)
NextWait(b) == HitBackoff(Least(b.hits + 1, Doublings + 1))

BudgetTyped(b) ==
  /\ {"backoff", "hits"} \subseteq DOMAIN b
  /\ b.backoff \in Int /\ b.hits \in 0..Doublings + 1

(* A cycle without a source has noted no hit. *)
Counted(c) ==
  /\ {"source", "notes", "elapsed"} \subseteq DOMAIN c
  /\ c.notes \in Nat /\ (c.source = "none" => c.notes = 0)
  /\ c.elapsed \in Int

(* Where the loop asks, no backoff runs, and where one may have begun half- *)
(* way, it is one of the SELL watch, which the BUY scan sleeps through.     *)
Quiet ==
  /\ pc \in {"balance", "watch", "scan", "tail"} => ~Active(budget.backoff)
  /\ pc \in {"orders", "scan_entry"} /\ Active(budget.backoff) => cycle.source = "sell_watch"

(* What is owed is what the next hit brings, except between the end of a    *)
(* cycle without a hit, which resets the count, and the end of its sleep.   *)
Escalating ==
  \/ owed <= NextWait(budget)
  \/ pc = "sleep" /\ cycle.notes = 0 /\ ~Active(budget.backoff)

Waiting ==
  /\ BudgetTyped(budget) /\ Counted(cycle) /\ owed \in Int
  /\ Quiet /\ Escalating

Escalated == cycle'.notes > cycle.notes => budget'.backoff >= owed

LEMMA Constants ==
  /\ Doublings \in Nat /\ BaseBackoff \in Nat \ {0} /\ MaxBackoff \in Nat \ {0}
  /\ BaseBackoff <= MaxBackoff
BY SessionLoopAssumption

LEMMA HitBackoffType ==
  ASSUME NEW h \in 1..Doublings + 1
  PROVE  HitBackoff(h) \in BaseBackoff..MaxBackoff
<1> DEFINE n == Least(h - 1, Doublings)
           p == 2^n
<1>1. n \in 0..Doublings
  BY Constants DEF Least
<1>2. p \in Nat \ {0}
  BY <1>1, DoublingAssumption
<1>3. HitBackoff(h) = Least(BaseBackoff * p, MaxBackoff)
  BY DEF HitBackoff
<1> HIDE DEF p
<1>4. BaseBackoff * p \in Nat /\ BaseBackoff * p >= BaseBackoff
  <2>1. \A a, q \in Nat \ {0} : a * q \in Nat /\ a * q >= a
    OBVIOUS
  <2> QED
    BY <1>2, <2>1, Constants
<1> QED
  BY <1>3, <1>4, Constants DEF Least

(* A hit waits twice as long as the one before, or as long as any may.     *)
LEMMA HitDoubles ==
  ASSUME NEW h \in 1..Doublings + 1
  PROVE  Least(2 * HitBackoff(h), MaxBackoff) <= HitBackoff(Least(h + 1, Doublings + 1))
<1> DEFINE n == h - 1
           p == 2^n
           q == 2^(n + 1)
<1>1. n \in 0..Doublings /\ n \in Nat
  BY Constants
<1>2. p \in Nat \ {0} /\ q = 2 * p
  BY <1>1, DoublingAssumption
<1>3. HitBackoff(h) = Least(BaseBackoff * p, MaxBackoff)
  <2>1. Least(h - 1, Doublings) = n
    BY <1>1, Constants DEF Least
  <2> QED
    BY <2>1 DEF HitBackoff
<1>4. CASE n < Doublings
  <2>1. Least(h + 1, Doublings + 1) = h + 1
    BY <1>1, <1>4, Constants DEF Least
  <2>2. Least(h + 1 - 1, Doublings) = n + 1
    BY <1>1, <1>4, Constants DEF Least
  <2>3. HitBackoff(h + 1) = Least(BaseBackoff * q, MaxBackoff)
    BY <2>2 DEF HitBackoff
  <2> HIDE DEF n, p, q
  <2>4. BaseBackoff * q = 2 * (BaseBackoff * p) /\ BaseBackoff * p \in Nat
    <3>1. \A a, b \in Nat : a * (2 * b) = 2 * (a * b) /\ a * b \in Nat
      OBVIOUS
    <3> QED
      BY <1>2, <3>1, Constants
  <2> DEFINE x == BaseBackoff * p
  <2>5. x \in Nat /\ HitBackoff(h) = Least(x, MaxBackoff)
        /\ HitBackoff(h + 1) = Least(2 * x, MaxBackoff)
    BY <1>3, <2>3, <2>4
  <2> HIDE DEF x
  <2> QED
    BY <2>1, <2>5, Constants DEF Least
<1>5. CASE n = Doublings
  <2>1. h = Doublings + 1 /\ Least(h + 1, Doublings + 1) = h
    BY <1>1, <1>5, Constants DEF Least
  <2>2. BaseBackoff * p >= MaxBackoff
    BY <1>5, DoublingAssumption
  <2>3. BaseBackoff * p \in Nat
    <3> HIDE DEF p
    <3> QED
      BY <1>2, Constants
  <2> HIDE DEF n, p, q
  <2>4. HitBackoff(h) = MaxBackoff
    BY <1>3, <2>2, <2>3, Constants DEF Least
  <2> QED
    BY <2>1, <2>4, Constants DEF Least
<1> QED
  BY <1>1, <1>4, <1>5, Constants

-----------------------------------------------------------------------------
(* What the operators on the budget do to its backoff. *)

LEMMA AgedWaits ==
  ASSUME NEW b, BudgetTyped(b), NEW k \in Int
  PROVE  /\ BudgetTyped(Aged(b, k)) /\ Aged(b, k).hits = b.hits
         /\ k = b.backoff \/ (k \in Nat /\ ~Active(b.backoff)) => ~Active(Aged(b, k).backoff)
BY DEF BudgetTyped, Aged, Minus, Active

LEMMA ControlWaits ==
  ASSUME NEW b, BudgetTyped(b)
  PROVE  BudgetTyped(RateControl(b)) /\ RateControl(b).hits = b.hits
BY DEF BudgetTyped, RateControl

LEMMA TransientWaits ==
  ASSUME NEW b, BudgetTyped(b)
  PROVE  /\ BudgetTyped(NoteTransient(b)) /\ NoteTransient(b).hits = b.hits
         /\ NoteTransient(b).backoff = b.backoff
BY DEF BudgetTyped, NoteTransient

LEMMA NoteHitWaits ==
  ASSUME NEW b, BudgetTyped(b), NEW source
  PROVE  LET n == NoteHit(b, source)
         IN  /\ BudgetTyped(n) /\ n.backoff = NextWait(b)
             /\ Least(2 * n.backoff, MaxBackoff) \in Int
             /\ Least(2 * n.backoff, MaxBackoff) <= NextWait(n)
<1> DEFINE h == Least(b.hits + 1, Doublings + 1)
           n == NoteHit(b, source)
<1>1. h \in 1..Doublings + 1
  BY Constants DEF BudgetTyped, Least
<1>2. {"backoff", "hits"} \subseteq DOMAIN n /\ n.hits = h /\ n.backoff = HitBackoff(h)
  BY DEF BudgetTyped, NoteHit
<1> HIDE DEF n
<1>3. HitBackoff(h) \in BaseBackoff..MaxBackoff
  BY <1>1, HitBackoffType
<1>4. BudgetTyped(n) /\ n.backoff = NextWait(b)
  BY <1>1, <1>2, <1>3, Constants DEF BudgetTyped, NextWait
<1>5. NextWait(n) = HitBackoff(Least(h + 1, Doublings + 1))
  BY <1>2 DEF NextWait
<1>6. Least(2 * n.backoff, MaxBackoff) <= NextWait(n)
  BY <1>1, <1>2, <1>5, HitDoubles
<1>7. Least(2 * n.backoff, MaxBackoff) \in Int
  BY <1>2, <1>3, Constants DEF Least
<1> QED
  BY <1>4, <1>6, <1>7 DEF n

LEMMA RecoverWaits ==
  ASSUME NEW b, BudgetTyped(b), NEW source
  PROVE  LET r == Recover(b, source)
         IN  /\ BudgetTyped(r) /\ r.backoff = b.backoff
             /\ r.hits = b.hits \/ (source = "none" /\ ~Active(r.backoff))
             /\ source # "none" => r.hits = b.hits
BY Constants DEF BudgetTyped, Recover

LEMMA NextWaitType ==
  ASSUME NEW b, BudgetTyped(b)
  PROVE  NextWait(b) \in BaseBackoff..MaxBackoff
<1>1. Least(b.hits + 1, Doublings + 1) \in 1..Doublings + 1
  BY Constants DEF BudgetTyped, Least
<1> QED
  BY <1>1, HitBackoffType DEF NextWait
-----------------------------------------------------------------------------
LEMMA InitiallyWaiting == Init => Waiting
<1> SUFFICES ASSUME Init PROVE Waiting
  OBVIOUS
<1>1. BudgetTyped(budget) /\ Counted(cycle) /\ owed = BaseBackoff
  BY Constants DEF Init, BudgetTyped, Counted, NoCycle
<1>2. owed <= NextWait(budget)
  BY <1>1, NextWaitType, Constants
<1> QED
  BY <1>1, <1>2, Constants DEF Init, Waiting, Quiet, Escalating

LEMMA TickWaits == ASSUME Waiting, Tick PROVE Waiting' /\ Escalated
<1> DEFINE b   == RateControl(budget)
           due == Decision(b, age.sell >= SellInterval(b), age.buy >= BuyInterval(b))
           c   == [NoCycle EXCEPT !.sell = due.sell, !.buy = due.buy]
<1>1. BudgetTyped(b) /\ b.hits = budget.hits
  BY ControlWaits DEF Waiting
<1>2. /\ pc = "tick" /\ owed' = owed
      /\ (due.sell \/ due.buy) => pc' = "gate" /\ budget' = b /\ cycle' = c
      /\ ~(due.sell \/ due.buy) => budget' = Aged(b, TickLength) /\ UNCHANGED <<pc, cycle>>
  BY Zenon DEF Tick
<1>3. Counted(c) /\ c.notes = 0
  BY DEF Counted, NoCycle
<1> HIDE DEF b, due, c
<1>4. BudgetTyped(budget') /\ budget'.hits = budget.hits
  <2>1. TickLength \in Int
    BY SessionLoopAssumption
  <2>2. BudgetTyped(Aged(b, TickLength)) /\ Aged(b, TickLength).hits = b.hits
    BY <1>1, <2>1, AgedWaits
  <2> QED
    BY <1>1, <1>2, <2>2
<1>5. NextWait(budget') = NextWait(budget)
  BY <1>4 DEF NextWait
<1>6. Counted(cycle') /\ cycle'.notes <= cycle.notes /\ pc' \in {"tick", "gate"}
  BY <1>2, <1>3 DEF Waiting, Counted
<1>7. cycle'.notes \in Nat /\ cycle.notes \in Nat
  BY <1>6 DEF Waiting, Counted
<1> QED
  BY <1>2, <1>4, <1>5, <1>6, <1>7 DEF Waiting, Quiet, Escalating, Escalated

(* A phase that ends without a hit. *)
LEMMA PhaseWaits ==
  ASSUME Waiting, pc # "sleep", UNCHANGED owed,
         NEW b, BudgetTyped(b), b.hits = budget.hits,
         NEW c, Counted(c), c.notes = cycle.notes,
         NEW k \in Int, NEW phase, phase # "sleep", Leaves(b, c, k, phase),
         phase \in {"balance", "watch", "scan", "tail"} => ~Active(b.backoff),
         phase \in {"orders", "scan_entry"} /\ Active(b.backoff) => c.source = "sell_watch"
  PROVE  Waiting' /\ Escalated
<1>1. /\ budget' = b /\ pc' = phase /\ Counted(cycle')
      /\ cycle'.source = c.source /\ cycle'.notes = c.notes
  <2>1. Spent(k) \in Int
    BY SessionLoopAssumption DEF Waiting, Counted, Spent, Least
  <2> QED
    BY <2>1 DEF Leaves, Counted
<1>2. cycle'.notes = cycle.notes /\ cycle.notes \in Nat
  BY <1>1 DEF Waiting, Counted
<1>3. NextWait(budget') = NextWait(budget)
  BY <1>1 DEF NextWait
<1> QED
  BY <1>1, <1>2, <1>3 DEF Waiting, Quiet, Escalating, Escalated

(* A hit, whose backoff the next phase sleeps through or does not ask in.  *)
LEMMA LimitedWaits ==
  ASSUME Waiting, pc # "sleep",
         NEW c, Counted(c), NEW k \in Int, NEW source, source # "none",
         NEW phase, phase \notin {"balance", "watch", "scan", "tail", "sleep"},
         phase \in {"orders", "scan_entry"} => source = "sell_watch",
         Limited(c, source, k, phase)
  PROVE  Waiting' /\ Escalated
<1> DEFINE b == NoteHit(Aged(budget, k), source)
           d == [c EXCEPT !.source = source, !.notes = @ + 1]
<1>1. BudgetTyped(Aged(budget, k)) /\ NextWait(Aged(budget, k)) = NextWait(budget)
  BY AgedWaits DEF Waiting, NextWait
<1>2. /\ BudgetTyped(b) /\ b.backoff = NextWait(budget)
      /\ Least(2 * b.backoff, MaxBackoff) \in Int
      /\ Least(2 * b.backoff, MaxBackoff) <= NextWait(b)
  BY <1>1, NoteHitWaits
<1>3. Leaves(b, d, k, phase) /\ owed' = Least(2 * b.backoff, MaxBackoff)
  BY DEF Limited
<1>4. Counted(d) /\ d.source = source
  BY DEF Counted
<1> HIDE DEF b, d
<1>5. budget' = b /\ pc' = phase /\ Counted(cycle') /\ cycle'.source = source
  <2>1. Spent(k) \in Int
    BY SessionLoopAssumption DEF Waiting, Counted, Spent, Least
  <2> QED
    BY <1>3, <1>4, <2>1 DEF Leaves, Counted
<1>6. budget'.backoff >= owed
  BY <1>2, <1>5, NextWaitType DEF Waiting, Escalating
<1> QED
  BY <1>2, <1>3, <1>5, <1>6 DEF Waiting, Quiet, Escalating, Escalated

LEMMA GateWaits == ASSUME Waiting, MarketClosed \/ EnterCycle \/ BudgetUsedUp
                   PROVE  Waiting' /\ Escalated
<1>1. /\ pc = "gate" /\ UNCHANGED owed /\ Counted(cycle) /\ BudgetTyped(budget)
  BY DEF Waiting, MarketClosed, EnterCycle, BudgetUsedUp, Calm
<1>2. /\ BudgetTyped(Aged(budget, Drain)) /\ Aged(budget, Drain).hits = budget.hits
      /\ ~Active(Aged(budget, Drain).backoff)
  BY <1>1, AgedWaits DEF Drain, BudgetTyped
<1> Drain \in Int
  BY <1>1 DEF Drain, BudgetTyped
<1>3. Counted(Drained(Drain)) /\ Drained(Drain).notes = cycle.notes
  BY <1>1 DEF Drained, Counted
<1>4. CASE MarketClosed
  <2>1. Leaves(budget, cycle, 0, "finalize")
    BY <1>4 DEF MarketClosed
  <2> QED
    BY <1>1, <2>1, PhaseWaits
<1>5. CASE EnterCycle \/ BudgetUsedUp
  <2> DEFINE b == Aged(budget, Drain)
             c == Drained(Drain)
  <2>1. PICK phase \in {"balance", "finalize"} : Leaves(b, c, Drain, phase)
    BY <1>5 DEF EnterCycle, BudgetUsedUp
  <2>2. /\ BudgetTyped(b) /\ b.hits = budget.hits /\ ~Active(b.backoff)
        /\ Counted(c) /\ c.notes = cycle.notes
    BY <1>2, <1>3
  <2> HIDE DEF b, c
  <2> QED
    BY <1>1, <2>1, <2>2, PhaseWaits
<1> QED
  BY <1>4, <1>5

(* The phases from the balance to the BUY order. *)
LEMMA CycleWaits ==
  ASSUME Waiting,
         \/ BalanceAnswered \/ WatchHoldings \/ WatchNotDue \/ OrdersEnd \/ NoSellOrder
         \/ RaiseTransient \/ EnterScan \/ NoScan \/ ScanAnswered \/ BuyOrderEnds
         \/ BuyTail \/ OrderAnswered
  PROVE  Waiting' /\ Escalated
<1>1. /\ pc # "sleep" /\ UNCHANGED owed
      /\ BudgetTyped(budget) /\ Counted(cycle) /\ budget.backoff \in Int
  BY DEF Waiting, BudgetTyped, BalanceAnswered, WatchHoldings, WatchNotDue, OrdersEnd, NoSellOrder,
         RaiseTransient, Raising, EnterScan, NoScan, ScanAnswered, BuyOrderEnds, BuyTail,
         OrderAnswered, Calm
<1>2. \A k \in Int :
        /\ BudgetTyped(Aged(budget, k)) /\ Aged(budget, k).hits = budget.hits
        /\ k = budget.backoff \/ (k \in Nat /\ ~Active(budget.backoff))
             => ~Active(Aged(budget, k).backoff)
  BY <1>1, AgedWaits
<1>3. /\ BudgetTyped(NoteTransient(budget)) /\ NoteTransient(budget).hits = budget.hits
  BY <1>1, TransientWaits
<1>4. \A h, p :
        /\ Counted([cycle EXCEPT !.held = h, !.partial = p])
        /\ Counted([cycle EXCEPT !.held = h]) /\ Counted([cycle EXCEPT !.prefetch = p])
        /\ [cycle EXCEPT !.held = h, !.partial = p].notes = cycle.notes
        /\ [cycle EXCEPT !.held = h].notes = cycle.notes
        /\ [cycle EXCEPT !.prefetch = p].notes = cycle.notes
  BY <1>1 DEF Counted
<1>5. \A c \in Prefetching : Counted(c) /\ c.notes = cycle.notes
  <2>1. Counted([cycle EXCEPT !.prefetch = TRUE]) /\ Counted([cycle EXCEPT !.buy = FALSE])
        /\ [cycle EXCEPT !.prefetch = TRUE].notes = cycle.notes
        /\ [cycle EXCEPT !.buy = FALSE].notes = cycle.notes
    BY <1>1 DEF Counted
  <2> QED
    BY <1>1, <2>1, Zenon DEF Prefetching
<1>6. CASE BalanceAnswered
  <2>1. PICK c \in Prefetching, k \in 0..1 : Leaves(Aged(budget, k), c, k, "watch")
    BY <1>6 DEF BalanceAnswered
  <2>2. ~Active(budget.backoff)
    BY <1>6 DEF BalanceAnswered, Waiting, Quiet
  <2> DEFINE b == Aged(budget, k)
  <2>3. /\ BudgetTyped(b) /\ b.hits = budget.hits /\ ~Active(b.backoff)
        /\ Counted(c) /\ c.notes = cycle.notes /\ Leaves(b, c, k, "watch")
    BY <1>2, <1>5, <2>1, <2>2
  <2> HIDE DEF b
  <2> QED
    BY <1>1, <2>3, PhaseWaits
<1>7. CASE WatchHoldings
  <2>1. PICK h \in BOOLEAN, p \in BOOLEAN :
          Leaves(budget, [cycle EXCEPT !.held = h, !.partial = p], 0, "orders")
    BY <1>7 DEF WatchHoldings
  <2> DEFINE c == [cycle EXCEPT !.held = h, !.partial = p]
  <2>2. Counted(c) /\ c.notes = cycle.notes /\ Leaves(budget, c, 0, "orders")
    BY <1>4, <2>1
  <2>3. ~Active(budget.backoff)
    BY <1>7 DEF WatchHoldings, Waiting, Quiet
  <2> HIDE DEF c
  <2> QED
    BY <1>1, <2>2, <2>3, PhaseWaits
<1>8. CASE WatchNotDue
  <2>1. PICK h \in BOOLEAN : Leaves(budget, [cycle EXCEPT !.held = h], 0, "orders")
    BY <1>8 DEF WatchNotDue
  <2> DEFINE c == [cycle EXCEPT !.held = h]
  <2>2. Counted(c) /\ c.notes = cycle.notes /\ Leaves(budget, c, 0, "orders")
    BY <1>4, <2>1
  <2>3. ~Active(budget.backoff)
    BY <1>8 DEF WatchNotDue, Waiting, Quiet
  <2> HIDE DEF c
  <2> QED
    BY <1>1, <2>2, <2>3, PhaseWaits
<1>9. CASE OrdersEnd \/ BuyOrderEnds \/ OrderAnswered \/ RaiseTransient
  <2>1. PICK b \in {budget, NoteTransient(budget)} : Leaves(b, cycle, 0, "finalize")
    BY <1>9 DEF OrdersEnd, BuyOrderEnds, OrderAnswered, RaiseTransient
  <2> QED
    BY <1>1, <1>3, <2>1, PhaseWaits
<1>10. CASE NoSellOrder
  <2>1. Leaves(budget, cycle, 0, "scan_entry")
    BY <1>10 DEF NoSellOrder
  <2>2. Active(budget.backoff) => cycle.source = "sell_watch"
    BY <1>10 DEF NoSellOrder, Waiting, Quiet
  <2> QED
    BY <1>1, <2>1, <2>2, PhaseWaits
<1>11. CASE EnterScan
  <2> DEFINE b == Aged(budget, WatchDrain)
  <2>1. PICK phase \in {"scan", "finalize"} : Leaves(b, cycle, WatchDrain, phase)
    BY <1>11 DEF EnterScan
  <2>2. Active(budget.backoff) => cycle.source = "sell_watch"
    BY <1>11 DEF EnterScan, Waiting, Quiet
  <2>3. BudgetTyped(b) /\ b.hits = budget.hits /\ ~Active(b.backoff) /\ WatchDrain \in Int
    BY <1>1, <1>2, <2>2 DEF WatchDrain
  <2> HIDE DEF b
  <2> QED
    BY <1>1, <2>1, <2>3, PhaseWaits
<1>12. CASE NoScan
  <2>1. PICK p : Leaves(budget, [cycle EXCEPT !.prefetch = p], 0, "finalize")
    BY <1>12 DEF NoScan
  <2> DEFINE c == [cycle EXCEPT !.prefetch = p]
  <2>2. Counted(c) /\ c.notes = cycle.notes /\ Leaves(budget, c, 0, "finalize")
    BY <1>4, <2>1
  <2> HIDE DEF c
  <2> QED
    BY <1>1, <2>2, PhaseWaits
<1>13. CASE ScanAnswered
  <2>1. PICK k \in 0..1 :
          Leaves(Aged(budget, k), [cycle EXCEPT !.prefetch = FALSE], k, "buy_order")
    BY <1>13 DEF ScanAnswered
  <2> DEFINE b == Aged(budget, k)
             c == [cycle EXCEPT !.prefetch = FALSE]
  <2>2. /\ BudgetTyped(b) /\ b.hits = budget.hits /\ Counted(c) /\ c.notes = cycle.notes
        /\ k \in Int /\ Leaves(b, c, k, "buy_order")
    <3>1. k \in Int
      BY <2>1
    <3> QED
      BY <1>2, <1>4, <2>1, <3>1
  <2> HIDE DEF b, c
  <2> QED
    BY <1>1, <2>2, PhaseWaits
<1>14. CASE BuyTail
  <2> DEFINE k == budget.backoff
             b == Aged(budget, k)
  <2>1. Leaves(b, cycle, k, "tail")
    BY <1>14 DEF BuyTail
  <2>2. BudgetTyped(b) /\ b.hits = budget.hits /\ ~Active(b.backoff) /\ k \in Int
    BY <1>1, <1>2
  <2> HIDE DEF b, k
  <2> QED
    BY <1>1, <2>1, <2>2, PhaseWaits
<1> QED
  BY <1>6, <1>7, <1>8, <1>9, <1>10, <1>11, <1>12, <1>13, <1>14

LEMMA HitWaits ==
  ASSUME Waiting, BalanceLimited \/ WatchLimited \/ ScanLimited \/ RaiseLimited
  PROVE  Waiting' /\ Escalated
<1>1. pc # "sleep" /\ Counted(cycle) /\ 0 \in Int
  BY DEF Waiting, BalanceLimited, WatchLimited, ScanLimited, RaiseLimited, Raising
<1>2. \A c \in Prefetching : Counted(c)
  BY <1>1 DEF Prefetching, Counted
<1>3. Counted([cycle EXCEPT !.held = TRUE, !.partial = TRUE])
      /\ Counted([cycle EXCEPT !.prefetch = FALSE])
  BY <1>1 DEF Counted
<1>4. CASE BalanceLimited
  <2>1. PICK c \in Prefetching, k \in 0..1 : Limited(c, "balance", k, "finalize")
    BY <1>4 DEF BalanceLimited
  <2> QED
    BY <1>1, <1>2, <2>1, LimitedWaits
<1>5. CASE WatchLimited
  BY <1>1, <1>3, <1>5, LimitedWaits DEF WatchLimited
<1>6. CASE ScanLimited
  <2>1. PICK k \in 0..1 : Limited([cycle EXCEPT !.prefetch = FALSE], "buy_scan", k, "buy_order")
    BY <1>6 DEF ScanLimited
  <2> QED
    BY <1>1, <1>3, <2>1, LimitedWaits
<1>7. CASE RaiseLimited
  <2>1. PICK source : source # "none" /\ Limited(cycle, source, 0, "finalize")
    BY <1>7 DEF RaiseLimited
  <2> QED
    BY <1>1, <2>1, LimitedWaits
<1> QED
  BY <1>4, <1>5, <1>6, <1>7

LEMMA EndWaits == ASSUME Waiting, Finalize \/ FinalizeLimited \/ Sleep
                  PROVE  Waiting' /\ Escalated
<1>1. BudgetTyped(budget) /\ Counted(cycle) /\ cycle.notes \in Nat /\ owed \in Int
  BY DEF Waiting, Counted
<1>2. CASE Finalize
  <2> DEFINE r == Recover(budget, cycle.source)
  <2>1. /\ BudgetTyped(r) /\ r.backoff = budget.backoff
        /\ r.hits = budget.hits \/ (cycle.source = "none" /\ ~Active(r.backoff))
    BY <1>1, RecoverWaits
  <2>2. pc = "finalize" /\ pc' = "sleep" /\ owed' = owed /\ budget' = r
    BY <1>2 DEF Finalize, Finalized
  <2>3. Counted(cycle') /\ cycle'.notes = cycle.notes
    BY <1>1, <1>2 DEF Finalize, Counted
  <2> HIDE DEF r
  <2>4. r.hits = budget.hits => NextWait(r) = NextWait(budget)
    BY DEF NextWait
  <2>5. cycle.source = "none" => cycle'.notes = 0
    BY <1>1, <2>3 DEF Counted
  <2>6. Escalating'
    BY <2>1, <2>2, <2>4, <2>5 DEF Waiting, Escalating
  <2> QED
    BY <1>1, <2>1, <2>2, <2>3, <2>6 DEF Waiting, Quiet, Escalated
<1>3. CASE FinalizeLimited
  <2> DEFINE b      == NoteHit(budget, "buy_scan")
             source == IF cycle.source = "none" THEN "buy_scan" ELSE cycle.source
             r      == Recover(b, source)
  <2>1. Finalized(b, source) /\ owed' = Least(2 * b.backoff, MaxBackoff)
        /\ cycle' = [cycle EXCEPT !.prefetch = FALSE, !.source = source, !.notes = @ + 1]
    BY <1>3 DEF FinalizeLimited
  <2>2. source # "none"
    OBVIOUS
  <2> HIDE DEF source
  <2>3. /\ BudgetTyped(b) /\ b.backoff = NextWait(budget)
        /\ Least(2 * b.backoff, MaxBackoff) \in Int
        /\ Least(2 * b.backoff, MaxBackoff) <= NextWait(b)
    BY <1>1, NoteHitWaits
  <2> HIDE DEF b
  <2>4. BudgetTyped(r) /\ r.backoff = b.backoff /\ r.hits = b.hits
    BY <2>2, <2>3, RecoverWaits
  <2>5. pc = "finalize" /\ pc' = "sleep" /\ budget' = r
    BY <2>1 DEF Finalized
  <2> HIDE DEF r
  <2>6. Counted(cycle') /\ NextWait(r) = NextWait(b)
    BY <1>1, <2>1, <2>2, <2>4 DEF Counted, NextWait
  <2>7. budget'.backoff >= owed
    BY <1>1, <2>3, <2>4, <2>5, NextWaitType DEF Waiting, Escalating
  <2> QED
    BY <2>1, <2>3, <2>4, <2>5, <2>6, <2>7 DEF Waiting, Quiet, Escalating, Escalated
<1>4. CASE Sleep
  <2> DEFINE k == Minus(TickLength, cycle.elapsed)
             b == Aged(budget, k)
  <2>1. /\ pc = "sleep" /\ pc' = "tick" /\ budget' = b /\ cycle' = NoCycle
        /\ owed' = IF cycle.notes = 0 /\ ~Active(budget.backoff) THEN BaseBackoff ELSE owed
    BY <1>4 DEF Sleep
  <2>2. Counted(NoCycle) /\ NoCycle.notes = 0
    BY DEF NoCycle, Counted
  <2>3. BudgetTyped(b) /\ b.hits = budget.hits
    <3>1. k \in Int
      BY <1>1, SessionLoopAssumption DEF Counted, Minus
    <3> QED
      BY <1>1, <3>1, AgedWaits
  <2> HIDE DEF b, k
  <2>4. NextWait(b) = NextWait(budget) /\ NextWait(b) \in BaseBackoff..MaxBackoff
    BY <2>3, NextWaitType DEF NextWait
  <2>5. owed' \in Int /\ owed' <= NextWait(b)
    BY <1>1, <2>1, <2>4, Constants DEF Waiting, Escalating
  <2> QED
    BY <1>1, <2>1, <2>2, <2>3, <2>5 DEF Waiting, Quiet, Escalating, Escalated
<1> QED
  BY <1>2, <1>3, <1>4

-----------------------------------------------------------------------------
LEMMA StillWaiting == Waiting /\ [Next]_vars => Waiting' /\ Escalated
<1>1. ASSUME Waiting, UNCHANGED vars PROVE Waiting' /\ Escalated
  <2>1. cycle.notes \in Nat
    BY <1>1 DEF Waiting, Counted
  <2> QED
    BY <1>1, <2>1 DEF vars, Waiting, Quiet, Escalating, Escalated, NextWait, Counted
<1> QED
  BY <1>1, TickWaits, GateWaits, CycleWaits, HitWaits, EndWaits DEF Next, Hit

LEMMA AlwaysWaiting == Spec => []Waiting
<1>1. Waiting /\ [Next]_vars => Waiting'
  BY StillWaiting
<1> QED
  BY <1>1, InitiallyWaiting, PTL DEF Spec

(* While a rate-limit backoff runs, no request is made: run_budget_gate,     *)
(* run_buy_scan_phase and the BUY flow sleep through whatever of it may run  *)
(* where they stand, for any intervals, backoffs and lengths of a tick.      *)
THEOREM RequestsWaitAlways == Spec => RequestsWait
<1> DEFINE A == (BalanceAnswered \/ BalanceLimited \/ WatchHoldings \/ WatchLimited
                 \/ OrderAnswered \/ (pc = "tail" /\ (RaiseLimited \/ RaiseTransient))
                 \/ ((ScanAnswered \/ ScanLimited) /\ ~cycle.prefetch))
                  => ~Active(budget.backoff)
<1>1. Waiting /\ [Next]_vars => [A]_vars
  BY DEF Waiting, Quiet, BalanceAnswered, BalanceLimited, WatchHoldings, WatchLimited,
         OrderAnswered, ScanAnswered, ScanLimited
<1> QED
  BY <1>1, AlwaysWaiting, PTL DEF Spec, RequestsWait

(* note_rate_limit_backoff makes every hit wait twice as long as the hit     *)
(* before, up to the maximum, until a cycle without a hit has ended after    *)
(* the backoff, however hits and ends of backoffs fall into the cycles.      *)
THEOREM HitsEscalateAlways == Spec => HitsEscalate
<1> DEFINE A == cycle'.notes > cycle.notes => budget'.backoff >= owed
<1>1. Waiting /\ [Next]_vars => [A]_vars
  BY StillWaiting DEF Escalated
<1> QED
  BY <1>1, AlwaysWaiting, PTL DEF Spec, HitsEscalate

-----------------------------------------------------------------------------
(* What the loop's variables can be.                                       *)

(* A cycle notes the watch's hit, the scan's and one that ends it, where a *)
(* worker that was not joined does not add to those of a scan in line.     *)
NotesFit(phase, c) ==
  /\ phase \in {"gate", "balance", "watch"} => c.notes = 0
  /\ phase \in {"orders", "scan_entry", "scan"} => c.notes <= 1
  /\ phase \in {"buy_order", "tail"} => c.notes <= 2 /\ ~c.prefetch
  /\ phase = "finalize" /\ c.prefetch => c.notes <= 2

LoopTyped == TypeOK /\ NotesFit(pc, cycle)

LEMMA LoopConstants ==
  /\ TickLength \in Nat /\ MaxAge \in Nat /\ Window \in Nat
  /\ BaseTransient \in Nat /\ MaxTransient \in Nat /\ TransientDoublings \in Nat
  /\ DegradedHits \in Nat \ {0} /\ DegradedCycles \in Nat /\ DegradedFor \in Nat
<1>1. \A a, b \in Nat : a * b \in Nat /\ a + b \in Nat /\ Most(a, b) \in Nat
  BY DEF Most
<1>2. /\ {SellEvery, DegradedSell, PartialFactor, WatchFactor, BuyEvery, DegradedBuy} \subseteq Nat
  BY SessionLoopAssumption
<1>3. /\ Most(SellEvery, DegradedSell) \in Nat /\ Most(PartialFactor, WatchFactor) \in Nat
      /\ Most(BuyEvery, DegradedBuy) \in Nat
  BY <1>1, <1>2
<1>4. MaxAge \in Nat
  BY <1>1, <1>3 DEF MaxAge
<1> QED
  BY <1>4, SessionLoopAssumption

(* The sequences of ages. *)
LEMMA NewestType ==
  ASSUME NEW s \in Seq(0..Window + 1), NEW n \in Nat
  PROVE  /\ Newest(s, n) \in Seq(0..Window + 1)
         /\ Len(Newest(s, n)) <= n /\ Len(Newest(s, n)) <= Len(s)
         /\ s # <<>> /\ n > 0 => Len(Newest(s, n)) > 0
<1> DEFINE k == Minus(Len(s), n) + 1
<1>1. Len(s) \in Nat /\ (s # <<>> => Len(s) > 0)
  OBVIOUS
<1>2. k \in 1..Len(s) + 1 /\ Len(s) - k + 1 <= n /\ (Len(s) > 0 /\ n > 0 => k <= Len(s))
  BY <1>1 DEF Minus
<1> HIDE DEF k
<1>3. SubSeq(s, k, Len(s)) \in Seq(0..Window + 1) /\ Len(SubSeq(s, k, Len(s))) = Len(s) - k + 1
  <2>1. \A i \in 1..Len(s) : s[i] \in 0..Window + 1
    BY ElementOfSeq
  <2>2. k \in Int /\ Len(s) \in Int /\ \A i \in k..Len(s) : s[i] \in 0..Window + 1
    BY <1>1, <1>2, <2>1
  <2>3. /\ SubSeq(s, k, Len(s)) \in Seq(0..Window + 1)
        /\ Len(SubSeq(s, k, Len(s))) = IF k <= Len(s) THEN Len(s) - k + 1 ELSE 0
    BY <2>2, SubSeqProperties
  <2> QED
    BY <1>1, <1>2, <2>3
<1>4. Newest(s, n) = SubSeq(s, k, Len(s))
  BY DEF Newest, k
<1> QED
  BY <1>1, <1>2, <1>3, <1>4

LEMMA RecentType ==
  ASSUME NEW s \in Seq(0..Window + 1)
  PROVE  Recent(s) \in Seq(0..Window + 1) /\ Len(Recent(s)) <= Len(s)
<1> DEFINE T == {i \in DOMAIN s : s[i] <= Window}
<1>1. DOMAIN s = 1..Len(s) /\ Len(s) \in Nat
  OBVIOUS
<1>2. IsFiniteSet(1..Len(s))
  BY <1>1, FS_Interval
<1>3. T \in SUBSET (1..Len(s))
  BY <1>1
<1>4. Cardinality(T) \in Nat
  BY <1>2, <1>3, FS_Subset, FS_CardinalityType
<1> HIDE DEF T
<1>5. Recent(s) = Newest(s, Cardinality(T))
  BY DEF Recent, T
<1> QED
  BY <1>4, <1>5, NewestType

(* A hit or an error more. *)
LEMMA NotedType ==
  ASSUME NEW s \in Seq(0..Window + 1), NEW n \in Nat \ {0}
  PROVE  LET m == Newest(Append(Recent(s), 0), n)
         IN  m \in Ages(n) /\ Len(m) \in 1..n
<1> DEFINE a == Append(Recent(s), 0)
<1>1. a \in Seq(0..Window + 1) /\ a # <<>>
  <2>1. Recent(s) \in Seq(0..Window + 1) /\ 0 \in 0..Window + 1
    BY RecentType, LoopConstants
  <2> QED
    BY <2>1
<1> HIDE DEF a
<1>2. /\ Newest(a, n) \in Seq(0..Window + 1)
      /\ Len(Newest(a, n)) <= n /\ Len(Newest(a, n)) > 0
  BY <1>1, NewestType
<1> QED
  BY <1>2 DEF Ages, a

(* The operators on the budget. *)
LEMMA AgedType ==
  ASSUME NEW b \in Budgets, NEW k \in Nat
  PROVE  Aged(b, k) \in Budgets
<1> DEFINE Older(s) == [i \in DOMAIN s |-> Least(s[i] + k, Window + 1)]
<1>1. ASSUME NEW n \in Nat, NEW s \in Ages(n) PROVE Older(s) \in Ages(n)
  <2>1. /\ s \in Seq(0..Window + 1) /\ Len(s) <= n /\ DOMAIN s = 1..Len(s) /\ Len(s) \in Nat
        /\ \A i \in 1..Len(s) : s[i] \in 0..Window + 1
    <3>1. s \in Seq(0..Window + 1) /\ Len(s) <= n
      BY <1>1 DEF Ages
    <3>2. \A i \in 1..Len(s) : s[i] \in 0..Window + 1
      BY <3>1, ElementOfSeq
    <3> QED
      BY <3>1, <3>2
  <2>2. \A i \in 1..Len(s) : Least(s[i] + k, Window + 1) \in 0..Window + 1
    BY <2>1, LoopConstants DEF Least
  <2>3. Older(s) = [i \in 1..Len(s) |-> Least(s[i] + k, Window + 1)]
    BY <2>1
  <2> HIDE DEF Older
  <2>4. Older(s) \in Seq(0..Window + 1) /\ Len(Older(s)) = Len(s)
    BY <2>1, <2>2, <2>3
  <2> QED
    BY <2>1, <2>4 DEF Ages
<1>2. Older(b.recent) \in Ages(DegradedHits) /\ Older(b.errors) \in Ages(TransientDoublings + 1)
  BY <1>1, LoopConstants DEF Budgets
<1>3. Aged(b, k) = [b EXCEPT !.backoff   = Minus(b.backoff, k),
                             !.transient = Minus(b.transient, k),
                             !.degraded  = Minus(b.degraded, k),
                             !.recent    = Older(b.recent),
                             !.errors    = Older(b.errors)]
  BY DEF Aged, Budgets
<1> HIDE DEF Older
<1>4. /\ Minus(b.backoff, k) \in 0..MaxBackoff
      /\ Minus(b.transient, k) \in 0..MaxTransient
      /\ Minus(b.degraded, k) \in 0..DegradedFor
  <2>1. \A a \in Nat : \A x \in 0..a : Minus(x, k) \in 0..a
    BY DEF Minus
  <2> QED
    BY <2>1, Constants, LoopConstants DEF Budgets
<1> QED
  BY <1>2, <1>3, <1>4 DEF Budgets

LEMMA ControlType == ASSUME NEW b \in Budgets PROVE RateControl(b) \in Budgets
<1>1. Recent(b.recent) \in Ages(DegradedHits)
  <2>1. b.recent \in Seq(0..Window + 1) /\ Len(b.recent) <= DegradedHits
    BY DEF Budgets, Ages
  <2>2. Recent(b.recent) \in Seq(0..Window + 1) /\ Len(Recent(b.recent)) <= Len(b.recent)
    BY <2>1, RecentType
  <2> QED
    BY <2>1, <2>2, LoopConstants DEF Ages
<1>2. Least(b.consecutive + 1, DegradedCycles) \in 0..DegradedCycles
  BY LoopConstants DEF Budgets, Least
<1>3. DegradedFor \in 0..DegradedFor /\ 0 \in 0..DegradedCycles
  BY LoopConstants
<1> QED
  BY <1>1, <1>2, <1>3 DEF RateControl, Budgets

LEMMA TransientType == ASSUME NEW b \in Budgets PROVE NoteTransient(b) \in Budgets
<1> DEFINE errors == Newest(Append(Recent(b.errors), 0), TransientDoublings + 1)
           n      == Least(Len(errors) - 1, TransientDoublings)
           wait   == Least(BaseTransient * 2^n, MaxTransient)
<1>1. errors \in Ages(TransientDoublings + 1) /\ Len(errors) \in 1..TransientDoublings + 1
  <2>1. b.errors \in Seq(0..Window + 1)
    BY DEF Budgets, Ages
  <2>2. TransientDoublings + 1 \in Nat \ {0}
    BY LoopConstants
  <2> QED
    BY <2>1, <2>2, NotedType
<1>2. n \in 0..TransientDoublings
  BY <1>1, LoopConstants DEF Least
<1>3. wait \in 0..MaxTransient
  <2>1. 2^n \in Nat
    BY <1>2, DoublingAssumption
  <2>2. \A a, q \in Nat : a * q \in Nat
    OBVIOUS
  <2>3. BaseTransient * 2^n \in Nat
    BY <2>1, <2>2, LoopConstants
  <2> QED
    BY <2>3, LoopConstants DEF Least
<1>4. NoteTransient(b) = [b EXCEPT !.errors = errors, !.transient = wait]
  BY DEF NoteTransient
<1> HIDE DEF errors, wait
<1> QED
  BY <1>1, <1>3, <1>4 DEF Budgets

LEMMA HitType ==
  ASSUME NEW b \in Budgets, NEW source \in Sources
  PROVE  /\ NoteHit(b, source) \in Budgets
         /\ Least(2 * NoteHit(b, source).backoff, MaxBackoff) \in 0..MaxBackoff
<1> DEFINE h      == Least(b.hits + 1, Doublings + 1)
           recent == Newest(Append(Recent(b.recent), 0), DegradedHits)
           n      == NoteHit(b, source)
<1>1. h \in 1..Doublings + 1
  BY Constants, LoopConstants DEF Budgets, Least
<1>2. HitBackoff(h) \in 0..MaxBackoff
  BY <1>1, HitBackoffType, Constants, LoopConstants
<1>3. recent \in Ages(DegradedHits)
  <2>1. b.recent \in Seq(0..Window + 1)
    BY DEF Budgets, Ages
  <2> QED
    BY <2>1, NotedType, Constants, LoopConstants
<1>4. n = [b EXCEPT !.recent = recent, !.source = source, !.hits = h, !.backoff = HitBackoff(h)]
  BY DEF NoteHit, Budgets
<1> DEFINE wait == HitBackoff(h)
<1> HIDE DEF h, recent, n, wait
<1>5. n \in Budgets
  <2>1. h \in 0..Doublings + 1 /\ wait \in 0..MaxBackoff
    BY <1>1, <1>2, Constants DEF wait
  <2>2. n = [b EXCEPT !.recent = recent, !.source = source, !.hits = h, !.backoff = wait]
    BY <1>4 DEF wait
  <2> QED
    BY <1>3, <2>1, <2>2 DEF Budgets
<1>6. Least(2 * n.backoff, MaxBackoff) \in 0..MaxBackoff
  <2>1. n.backoff \in 0..MaxBackoff
    BY <1>5 DEF Budgets
  <2> QED
    BY <2>1, Constants DEF Least
<1> QED
  BY <1>5, <1>6 DEF n

LEMMA RecoverType ==
  ASSUME NEW b \in Budgets, NEW source \in Sources
  PROVE  Recover(b, source) \in Budgets
<1>1. Recover(b, source) \in {b, [b EXCEPT !.source = source], [b EXCEPT !.source = "none", !.hits = 0]}
  BY DEF Recover
<1>2. "none" \in Sources /\ 0 \in 0..Doublings + 1
  BY Constants DEF Sources
<1> QED
  BY <1>1, <1>2 DEF Budgets

LEMMA LaterType ==
  ASSUME NEW a \in [sell : 0..MaxAge, buy : 0..MaxAge], NEW k \in Nat
  PROVE  Later(a, k) \in [sell : 0..MaxAge, buy : 0..MaxAge]
<1>1. \A x \in 0..MaxAge : Least(x + k, MaxAge) \in 0..MaxAge
  BY LoopConstants DEF Least
<1> QED
  BY <1>1 DEF Later

(* The ways a phase goes on. *)
LEMMA LeavesType ==
  ASSUME LoopTyped, NEW b \in Budgets, NEW c \in Cycles, NEW k \in Nat,
         NEW phase \in Phases, NotesFit(phase, c), Leaves(b, c, k, phase),
         owed' \in 0..MaxBackoff, banned' \in BOOLEAN, UNCHANGED memory
  PROVE  LoopTyped'
<1>1. Spent(k) \in 0..TickLength
  <2>1. cycle.elapsed \in 0..TickLength
    BY DEF LoopTyped, TypeOK, Cycles
  <2> QED
    BY <2>1, LoopConstants DEF Spent, Least
<1>2. /\ [c EXCEPT !.elapsed = Spent(k)] \in Cycles
      /\ [c EXCEPT !.elapsed = Spent(k)].notes = c.notes
      /\ [c EXCEPT !.elapsed = Spent(k)].prefetch = c.prefetch
  BY <1>1 DEF Cycles
<1>3. age' \in [sell : 0..MaxAge, buy : 0..MaxAge]
  BY LaterType DEF Leaves, LoopTyped, TypeOK
<1>4. pc' = phase /\ budget' = b /\ cycle' = [c EXCEPT !.elapsed = Spent(k)]
  BY DEF Leaves
<1>5. NotesFit(pc', cycle')
  BY <1>2, <1>4 DEF NotesFit
<1> QED
  BY <1>2, <1>3, <1>4, <1>5 DEF LoopTyped, TypeOK

LEMMA CalmType ==
  ASSUME LoopTyped, Calm
  PROVE  owed' \in 0..MaxBackoff /\ banned' \in BOOLEAN /\ UNCHANGED memory
BY DEF LoopTyped, TypeOK, Calm

LEMMA LimitedType ==
  ASSUME LoopTyped, NEW c \in Cycles, NEW source \in Sources, NEW k \in Nat,
         NEW phase \in Phases, c.notes < 3,
         NotesFit(phase, [c EXCEPT !.source = source, !.notes = @ + 1]),
         Limited(c, source, k, phase)
  PROVE  LoopTyped'
<1> DEFINE b == NoteHit(Aged(budget, k), source)
           d == [c EXCEPT !.source = source, !.notes = @ + 1]
<1>1. b \in Budgets /\ Least(2 * b.backoff, MaxBackoff) \in 0..MaxBackoff
  BY AgedType, HitType DEF LoopTyped, TypeOK
<1>2. d \in Cycles
  <2>1. c.notes + 1 \in 0..3
    BY DEF Cycles
  <2> QED
    BY <2>1 DEF Cycles
<1>3. /\ Leaves(b, d, k, phase) /\ owed' = Least(2 * b.backoff, MaxBackoff)
      /\ banned' \in BOOLEAN /\ UNCHANGED memory
  BY DEF Limited, LoopTyped, TypeOK
<1>4. NotesFit(phase, d)
  OBVIOUS
<1> HIDE DEF b, d
<1> QED
  BY <1>1, <1>2, <1>3, <1>4, LeavesType

(* Every kind of step. *)
LEMMA InitTyped == Init => LoopTyped
<1> SUFFICES ASSUME Init PROVE LoopTyped
  OBVIOUS
<1>1. <<>> \in Ages(DegradedHits) /\ <<>> \in Ages(TransientDoublings + 1)
  BY LoopConstants DEF Ages
<1>2. budget \in Budgets
  BY <1>1, Constants, LoopConstants DEF Init, Budgets, Sources
<1>3. cycle \in Cycles /\ cycle.notes = 0
  BY LoopConstants DEF Init, Cycles, NoCycle, Sources
<1>4. owed \in 0..MaxBackoff /\ age \in [sell : 0..MaxAge, buy : 0..MaxAge]
  BY Constants, LoopConstants DEF Init
<1> QED
  BY <1>2, <1>3, <1>4 DEF Init, LoopTyped, TypeOK, NotesFit, Phases

LEMMA DecisionType ==
  ASSUME NEW b, NEW sell \in BOOLEAN, NEW buy \in BOOLEAN
  PROVE  Decision(b, sell, buy).sell \in BOOLEAN /\ Decision(b, sell, buy).buy \in BOOLEAN
<1> DEFINE barred == Active(b.transient) \/ (Active(b.backoff) /\ b.source = "balance")
           both   == buy /\ ~Active(b.backoff)
<1>1. both \in BOOLEAN
  OBVIOUS
<1>2. Decision(b, sell, buy) = IF barred THEN [sell |-> FALSE, buy |-> FALSE]
                               ELSE [sell |-> sell, buy |-> both]
  BY Zenon DEF Decision
<1> HIDE DEF barred, both
<1>3. CASE barred
  BY <1>2, <1>3
<1>4. CASE ~barred
  <2>1. Decision(b, sell, buy) = [sell |-> sell, buy |-> both]
    BY <1>2, <1>4
  <2>2. [sell |-> sell, buy |-> both] \in [sell : BOOLEAN, buy : BOOLEAN]
    BY <1>1
  <2>3. \A d \in [sell : BOOLEAN, buy : BOOLEAN] : d.sell \in BOOLEAN /\ d.buy \in BOOLEAN
    OBVIOUS
  <2> QED
    BY <2>1, <2>2, <2>3
<1> QED
  BY <1>3, <1>4

LEMMA TickTyped == ASSUME LoopTyped, Tick PROVE LoopTyped'
<1> DEFINE b   == RateControl(budget)
           due == Decision(b, age.sell >= SellInterval(b), age.buy >= BuyInterval(b))
           c   == [NoCycle EXCEPT !.sell = due.sell, !.buy = due.buy]
<1>1. b \in Budgets /\ Aged(b, TickLength) \in Budgets
  BY ControlType, AgedType, LoopConstants DEF LoopTyped, TypeOK
<1>2. due.sell \in BOOLEAN /\ due.buy \in BOOLEAN
  <2>1. (age.sell >= SellInterval(b)) \in BOOLEAN /\ (age.buy >= BuyInterval(b)) \in BOOLEAN
    OBVIOUS
  <2> QED
    BY <2>1, DecisionType
<1> HIDE DEF due
<1>3. c \in Cycles /\ c.notes = 0
  <2>1. NoCycle \in Cycles /\ NoCycle.notes = 0
    BY LoopConstants DEF NoCycle, Cycles, Sources
  <2> QED
    BY <1>2, <2>1 DEF Cycles
<1>4. /\ UNCHANGED <<memory, owed>> /\ banned' \in BOOLEAN /\ pc = "tick"
      /\ \/ /\ pc' = "gate" /\ budget' = b /\ cycle' = c
            /\ age' = [sell |-> IF due.sell THEN 0 ELSE age.sell,
                       buy  |-> IF due.buy THEN 0 ELSE age.buy]
         \/ budget' = Aged(b, TickLength) /\ age' = Later(age, TickLength) /\ UNCHANGED <<pc, cycle>>
  BY DEF Tick, LoopTyped, TypeOK, Active, due
<1> HIDE DEF b, c
<1>5. age' \in [sell : 0..MaxAge, buy : 0..MaxAge]
  <2>1. age \in [sell : 0..MaxAge, buy : 0..MaxAge]
    BY DEF LoopTyped, TypeOK
  <2>2. Later(age, TickLength) \in [sell : 0..MaxAge, buy : 0..MaxAge]
    BY <2>1, LaterType, LoopConstants
  <2>3. /\ (IF due.sell THEN 0 ELSE age.sell) \in 0..MaxAge
        /\ (IF due.buy THEN 0 ELSE age.buy) \in 0..MaxAge
    BY <2>1, LoopConstants
  <2> QED
    BY <1>4, <2>2, <2>3
<1>6. budget' \in Budgets /\ cycle' \in Cycles /\ NotesFit(pc', cycle') /\ pc' \in Phases
  BY <1>1, <1>3, <1>4 DEF LoopTyped, TypeOK, NotesFit, Phases
<1> QED
  BY <1>4, <1>5, <1>6 DEF LoopTyped, TypeOK

LEMMA GateTyped ==
  ASSUME LoopTyped, MarketClosed \/ EnterCycle \/ BudgetUsedUp
  PROVE  LoopTyped'
<1>1. budget \in Budgets /\ cycle \in Cycles /\ pc = "gate" /\ cycle.notes = 0
  BY DEF LoopTyped, TypeOK, NotesFit, MarketClosed, EnterCycle, BudgetUsedUp
<1>2. Calm
  BY DEF MarketClosed, EnterCycle, BudgetUsedUp
<1>3. Drain \in Nat /\ Aged(budget, Drain) \in Budgets
  <2>1. Drain \in Nat
    BY <1>1, Constants DEF Drain, Budgets
  <2> QED
    BY <1>1, <2>1, AgedType
<1>4. Drained(Drain) \in Cycles /\ Drained(Drain).notes = 0
  <2>1. (banned /\ Drain > 0) \in BOOLEAN
    OBVIOUS
  <2> QED
    BY <1>1, <2>1 DEF Drained, Cycles, LoopTyped, TypeOK
<1>5. CASE MarketClosed
  <2>1. NotesFit("finalize", cycle) /\ Leaves(budget, cycle, 0, "finalize")
    BY <1>1, <1>5 DEF NotesFit, MarketClosed
  <2> QED
    BY <1>1, <1>2, <2>1, LeavesType, CalmType DEF Phases
<1>6. CASE EnterCycle \/ BudgetUsedUp
  <2>1. PICK phase \in {"balance", "finalize"} :
          Leaves(Aged(budget, Drain), Drained(Drain), Drain, phase)
    BY <1>6 DEF EnterCycle, BudgetUsedUp
  <2>2. NotesFit(phase, Drained(Drain)) /\ phase \in Phases
    BY <1>4 DEF NotesFit, Phases
  <2> QED
    BY <1>2, <1>3, <1>4, <2>1, <2>2, LeavesType, CalmType
<1> QED
  BY <1>5, <1>6

(* The phases that note no hit of a rate limit. *)
LEMMA PhasesTyped ==
  ASSUME LoopTyped,
         \/ BalanceAnswered \/ WatchHoldings \/ WatchNotDue
         \/ OrdersEnd \/ NoSellOrder \/ RaiseTransient
         \/ EnterScan \/ NoScan \/ ScanAnswered
         \/ BuyOrderEnds \/ BuyTail \/ OrderAnswered
  PROVE  LoopTyped'
<1>1. budget \in Budgets /\ cycle \in Cycles /\ NotesFit(pc, cycle) /\ cycle.notes \in 0..3
  BY DEF LoopTyped, TypeOK, Cycles
<1>2. Calm
  BY DEF BalanceAnswered, WatchHoldings, WatchNotDue, OrdersEnd, NoSellOrder, RaiseTransient,
         EnterScan, NoScan, ScanAnswered, BuyOrderEnds, BuyTail, OrderAnswered
<1>3. /\ owed' \in 0..MaxBackoff /\ banned' \in BOOLEAN /\ UNCHANGED memory
  BY <1>2, CalmType
<1>4. ASSUME NEW b \in Budgets, NEW c \in Cycles, NEW k \in Nat, NEW phase \in Phases,
             NotesFit(phase, c), Leaves(b, c, k, phase)
      PROVE  LoopTyped'
  BY <1>3, <1>4, LeavesType
<1>5. 0 \in Nat /\ 1 \in Nat /\ budget.backoff \in Nat
  BY <1>1, Constants DEF Budgets
<1>6. CASE BalanceAnswered
  <2>1. PICK c \in Prefetching, k \in 0..1 : Leaves(Aged(budget, k), c, k, "watch")
    BY <1>6 DEF BalanceAnswered
  <2>2. c \in Cycles /\ c.notes = cycle.notes
    BY <1>1 DEF Prefetching, Cycles
  <2>3. NotesFit("watch", c) /\ "watch" \in Phases
    BY <1>1, <1>6, <2>2 DEF NotesFit, BalanceAnswered, Phases
  <2>4. k \in Nat /\ Aged(budget, k) \in Budgets
    BY <1>1, AgedType
  <2> QED
    BY <1>4, <2>1, <2>2, <2>3, <2>4
<1>7. CASE WatchHoldings
  <2>1. PICK held \in BOOLEAN, partial \in BOOLEAN :
          Leaves(budget, [cycle EXCEPT !.held = held, !.partial = partial], 0, "orders")
    BY <1>7 DEF WatchHoldings
  <2> DEFINE c == [cycle EXCEPT !.held = held, !.partial = partial]
  <2>2. c \in Cycles /\ c.notes = cycle.notes
    BY <1>1 DEF Cycles
  <2> HIDE DEF c
  <2>3. cycle.notes = 0
    BY <1>1, <1>7 DEF NotesFit, WatchHoldings
  <2>4. NotesFit("orders", c) /\ "orders" \in Phases
    BY <2>2, <2>3 DEF NotesFit, Phases
  <2> USE DEF c
  <2> QED
    BY <1>1, <1>4, <1>5, <2>1, <2>2, <2>4
<1>8. CASE WatchNotDue
  <2>1. PICK held \in BOOLEAN : Leaves(budget, [cycle EXCEPT !.held = held], 0, "orders")
    BY <1>8 DEF WatchNotDue
  <2> DEFINE c == [cycle EXCEPT !.held = held]
  <2>2. c \in Cycles /\ c.notes = cycle.notes
    BY <1>1 DEF Cycles
  <2>3. NotesFit("orders", c) /\ "orders" \in Phases
    BY <1>1, <1>8, <2>2 DEF NotesFit, WatchNotDue, Phases
  <2> QED
    BY <1>1, <1>4, <1>5, <2>1, <2>2, <2>3
<1>9. CASE OrdersEnd \/ NoSellOrder \/ BuyOrderEnds \/ OrderAnswered
  <2>1. PICK phase \in {"finalize", "scan_entry"} :
          /\ Leaves(budget, cycle, 0, phase)
          /\ phase = "scan_entry" => pc = "orders"
          /\ pc \in {"orders", "buy_order", "tail"}
    BY <1>9 DEF OrdersEnd, NoSellOrder, BuyOrderEnds, OrderAnswered
  <2>2. NotesFit(phase, cycle) /\ phase \in Phases
    BY <1>1, <2>1 DEF NotesFit, Phases
  <2> QED
    BY <1>1, <1>4, <1>5, <2>1, <2>2
<1>10. CASE RaiseTransient
  <2>1. /\ Leaves(NoteTransient(budget), cycle, 0, "finalize")
        /\ pc \in {"balance", "orders", "tail"}
    BY <1>10 DEF RaiseTransient, Raising
  <2>2. NotesFit("finalize", cycle) /\ "finalize" \in Phases
    BY <1>1, <2>1 DEF NotesFit, Phases
  <2> QED
    BY <1>1, <1>4, <1>5, <2>1, <2>2, TransientType
<1>11. CASE EnterScan
  <2>1. WatchDrain \in Nat /\ Aged(budget, WatchDrain) \in Budgets
    BY <1>1, <1>5, AgedType DEF WatchDrain
  <2>2. PICK phase \in {"scan", "finalize"} :
          Leaves(Aged(budget, WatchDrain), cycle, WatchDrain, phase)
    BY <1>11 DEF EnterScan
  <2>3. NotesFit(phase, cycle) /\ phase \in Phases
    BY <1>1, <1>11, <2>2 DEF NotesFit, Phases, EnterScan
  <2> QED
    BY <1>1, <1>4, <2>1, <2>2, <2>3
<1>12. CASE NoScan
  <2>1. PICK pending \in {cycle.prefetch, FALSE} :
          Leaves(budget, [cycle EXCEPT !.prefetch = pending], 0, "finalize")
    BY <1>12 DEF NoScan
  <2> DEFINE c == [cycle EXCEPT !.prefetch = pending]
  <2>2. c \in Cycles /\ c.notes = cycle.notes
    BY <1>1 DEF Cycles
  <2>3. NotesFit("finalize", c) /\ "finalize" \in Phases
    BY <1>1, <1>12, <2>2 DEF NotesFit, NoScan, Phases, Cycles
  <2> QED
    BY <1>1, <1>4, <1>5, <2>1, <2>2, <2>3
<1>13. CASE ScanAnswered
  <2> DEFINE c == [cycle EXCEPT !.prefetch = FALSE]
  <2>1. PICK k \in 0..1 : Leaves(Aged(budget, k), c, k, "buy_order")
    BY <1>13 DEF ScanAnswered
  <2>2. c \in Cycles /\ c.notes = cycle.notes /\ ~c.prefetch
    BY <1>1 DEF Cycles
  <2>3. NotesFit("buy_order", c) /\ "buy_order" \in Phases
    BY <1>1, <1>13, <2>2 DEF NotesFit, ScanAnswered, Phases, Cycles
  <2>4. k \in Nat /\ Aged(budget, k) \in Budgets
    BY <1>1, AgedType
  <2> QED
    BY <1>4, <2>1, <2>2, <2>3, <2>4
<1>14. CASE BuyTail
  <2>1. Leaves(Aged(budget, budget.backoff), cycle, budget.backoff, "tail")
    BY <1>14 DEF BuyTail
  <2>2. NotesFit("tail", cycle) /\ "tail" \in Phases
    BY <1>1, <1>14 DEF NotesFit, Phases, BuyTail
  <2> QED
    BY <1>1, <1>4, <1>5, <2>1, <2>2, AgedType
<1> QED
  BY <1>6, <1>7, <1>8, <1>9, <1>10, <1>11, <1>12, <1>13, <1>14

(* The phases that end with a hit. *)
LEMMA HitsTyped ==
  ASSUME LoopTyped, BalanceLimited \/ WatchLimited \/ ScanLimited \/ RaiseLimited
  PROVE  LoopTyped'
<1>1. cycle \in Cycles /\ NotesFit(pc, cycle) /\ cycle.notes \in 0..3
  BY DEF LoopTyped, TypeOK, Cycles
<1>2. ASSUME NEW c \in Cycles, NEW source \in Sources, NEW k \in Nat, NEW phase \in Phases,
             c.notes < 3, phase \in {"orders", "buy_order", "finalize"},
             phase = "orders" => c.notes = 0,
             phase = "buy_order" => c.notes <= 1 /\ ~c.prefetch,
             c.prefetch => c.notes <= 1,
             Limited(c, source, k, phase)
      PROVE  LoopTyped'
  <2>1. /\ [c EXCEPT !.source = source, !.notes = @ + 1].notes = c.notes + 1
        /\ [c EXCEPT !.source = source, !.notes = @ + 1].prefetch = c.prefetch
        /\ c.notes \in 0..3
    BY DEF Cycles
  <2>2. NotesFit(phase, [c EXCEPT !.source = source, !.notes = @ + 1])
    BY <1>2, <2>1 DEF NotesFit
  <2> QED
    BY <1>2, <2>2, LimitedType
<1>3. {"balance", "sell_watch", "buy_scan", "unknown"} \subseteq Sources
  BY DEF Sources
<1>4. {"orders", "buy_order", "finalize"} \subseteq Phases /\ 0 \in Nat /\ 0..1 \subseteq Nat
  BY DEF Phases
<1>5. CASE BalanceLimited
  <2>1. PICK c \in Prefetching, k \in 0..1 : Limited(c, "balance", k, "finalize")
    BY <1>5 DEF BalanceLimited
  <2>2. c \in Cycles /\ c.notes = 0
    BY <1>1, <1>5 DEF Prefetching, Cycles, NotesFit, BalanceLimited
  <2> QED
    BY <1>2, <1>3, <1>4, <2>1, <2>2
<1>6. CASE WatchLimited
  <2> DEFINE c == [cycle EXCEPT !.held = TRUE, !.partial = TRUE]
  <2>1. Limited(c, "sell_watch", 0, "orders")
    BY <1>6 DEF WatchLimited
  <2>2. c \in Cycles /\ c.notes = 0
    BY <1>1, <1>6 DEF Cycles, NotesFit, WatchLimited
  <2> HIDE DEF c
  <2> QED
    BY <1>2, <1>3, <1>4, <2>1, <2>2
<1>7. CASE ScanLimited
  <2> DEFINE c == [cycle EXCEPT !.prefetch = FALSE]
  <2>1. PICK k \in 0..1 : Limited(c, "buy_scan", k, "buy_order")
    BY <1>7 DEF ScanLimited
  <2>2. c \in Cycles /\ c.notes = cycle.notes /\ ~c.prefetch
    BY <1>1 DEF Cycles
  <2> HIDE DEF c
  <2>3. c.notes < 3 /\ c.notes <= 1
    BY <1>1, <1>7, <2>2 DEF NotesFit, ScanLimited
  <2>4. k \in Nat
    BY <1>4
  <2> QED
    BY <1>2, <1>3, <1>4, <2>1, <2>2, <2>3, <2>4
<1>8. CASE RaiseLimited
  <2>1. PICK source \in {cycle.source, "unknown"} \ {"none"} :
          Limited(cycle, source, 0, "finalize")
    BY <1>8 DEF RaiseLimited
  <2>2. source \in Sources
    BY <1>1, <1>3 DEF Cycles
  <2>3. cycle.notes < 3 /\ (cycle.prefetch => cycle.notes <= 1)
    BY <1>1, <1>8 DEF Cycles, NotesFit, RaiseLimited, Raising
  <2> QED
    BY <1>1, <1>2, <1>4, <2>1, <2>2, <2>3
<1> QED
  BY <1>5, <1>6, <1>7, <1>8

(* The end of a cycle. *)
LEMMA EndTyped == ASSUME LoopTyped, Finalize \/ FinalizeLimited \/ Sleep PROVE LoopTyped'
<1>1. /\ budget \in Budgets /\ cycle \in Cycles /\ NotesFit(pc, cycle)
      /\ memory \in [held : BOOLEAN, partial : BOOLEAN]
      /\ age \in [sell : 0..MaxAge, buy : 0..MaxAge]
      /\ owed \in 0..MaxBackoff /\ banned \in BOOLEAN
  BY DEF LoopTyped, TypeOK
<1>2. ASSUME NEW b \in Budgets, NEW source \in Sources, Finalized(b, source),
             cycle' \in Cycles, owed' \in 0..MaxBackoff
      PROVE  LoopTyped'
  <2>1. Recover(b, source) \in Budgets
    BY RecoverType
  <2>2. memory' \in [held : BOOLEAN, partial : BOOLEAN]
    BY <1>1, <1>2 DEF Finalized, Cycles
  <2>3. pc' = "sleep" /\ budget' \in Budgets /\ UNCHANGED <<age, banned>>
    BY <1>2, <2>1 DEF Finalized
  <2> QED
    BY <1>1, <1>2, <2>2, <2>3 DEF LoopTyped, TypeOK, NotesFit, Phases
<1>3. CASE Finalize
  <2>1. cycle' \in Cycles /\ cycle.source \in Sources
    BY <1>1, <1>3 DEF Finalize, Cycles
  <2> QED
    BY <1>1, <1>2, <1>3, <2>1 DEF Finalize
<1>4. CASE FinalizeLimited
  <2> DEFINE b      == NoteHit(budget, "buy_scan")
             source == IF cycle.source = "none" THEN "buy_scan" ELSE cycle.source
  <2>1. b \in Budgets /\ Least(2 * b.backoff, MaxBackoff) \in 0..MaxBackoff
    BY <1>1, HitType DEF Sources
  <2>2. source \in Sources
    BY <1>1 DEF Sources, Cycles
  <2>3. cycle.notes + 1 \in 0..3
    BY <1>1, <1>4 DEF NotesFit, Cycles, FinalizeLimited, Finalized
  <2>4. /\ Finalized(b, source) /\ owed' = Least(2 * b.backoff, MaxBackoff)
        /\ cycle' = [cycle EXCEPT !.prefetch = FALSE, !.source = source, !.notes = cycle.notes + 1]
    BY <1>1, <1>4 DEF FinalizeLimited, Cycles
  <2> HIDE DEF b, source
  <2>5. cycle' \in Cycles
    BY <1>1, <2>2, <2>3, <2>4 DEF Cycles
  <2> QED
    BY <1>2, <2>1, <2>2, <2>4, <2>5
<1>5. CASE Sleep
  <2> DEFINE k == Minus(TickLength, cycle.elapsed)
  <2>1. k \in Nat
    BY <1>1, LoopConstants DEF Minus, Cycles
  <2>2. Aged(budget, k) \in Budgets /\ Later(age, k) \in [sell : 0..MaxAge, buy : 0..MaxAge]
    BY <1>1, <2>1, AgedType, LaterType
  <2>3. /\ pc' = "tick" /\ budget' = Aged(budget, k) /\ age' = Later(age, k)
        /\ cycle' = NoCycle /\ owed' \in {owed, BaseBackoff} /\ UNCHANGED <<memory, banned>>
    BY <1>5 DEF Sleep
  <2>4. NoCycle \in Cycles /\ NotesFit("tick", NoCycle) /\ "tick" \in Phases
    BY LoopConstants DEF NoCycle, Cycles, Sources, NotesFit, Phases
  <2>5. BaseBackoff \in 0..MaxBackoff
    BY Constants
  <2> HIDE DEF k
  <2> QED
    BY <1>1, <2>2, <2>3, <2>4, <2>5 DEF LoopTyped, TypeOK
<1> QED
  BY <1>3, <1>4, <1>5

LEMMA StillTyped == LoopTyped /\ [Next]_vars => LoopTyped'
<1> SUFFICES ASSUME LoopTyped, [Next]_vars PROVE LoopTyped'
  OBVIOUS
<1>1. CASE UNCHANGED vars
  BY <1>1 DEF vars, LoopTyped, TypeOK, NotesFit
<1>2. CASE Next
  BY <1>2, TickTyped, GateTyped, PhasesTyped, HitsTyped, EndTyped DEF Next, Hit
<1> QED
  BY <1>1, <1>2

(* TypeOK is an invariant: a backoff and a degraded mode never outlast       *)
(* their longest, the memories of hits and errors stay as short as the code  *)
(* trims them, and a cycle notes at most three hits, whatever it meets.      *)
THEOREM LoopTypeCorrect == Spec => []TypeOK
<1>1. LoopTyped => TypeOK
  BY DEF LoopTyped
<1> QED
  BY <1>1, InitTyped, StillTyped, PTL DEF Spec

-----------------------------------------------------------------------------
(* The scripts around the loop.                                            *)

(* The lock is a helper's from the moment it gets it to its finally clause.*)
Locker(s) == helper[s] \in {"locked", "holding", "ending"}

LockIsTheHelpers == \A s \in Start : Locker(s) <=> lock = s

(* While a shell is out, the ready file is there for a helper that has     *)
(* announced itself and has not removed it again.                          *)
ReadyIsAnnounced ==
  (\E t \in Start : shell[t] # "off") /\ ready # NoStart => helper[ready] \in {"holding", "ending"}

(* Where a shell relies on the lock. *)
Relying(s) == shell[s] \in {"saw_ready", "held", "running", "stopping", "exit"}

(* Where it does not any more. *)
Leaving(s) == shell[s] \in {"remove_pid", "off"}

Held == \A s \in Start : Relying(s) => lock = s /\ helper[s] = "holding" /\ s \notin told

EndsLate == \A s \in Start : s \in told \/ helper[s] = "ending" => Leaving(s)

OwnPid == \A s \in Start : shell[s] \in {"running", "stopping"} => appPid \in {s, NoStart}

Alone == ~crossed => Held /\ EndsLate /\ OwnPid

ScriptsInv == SessionTypeOK /\ LockIsTheHelpers /\ ReadyIsAnnounced /\ Alone

-----------------------------------------------------------------------------
USE StartAssumption, MishapAssumption
    DEF shells, helpers, files, control, ghosts, ShellAt, HelperAt, Mishap

(* Every step keeps every variable in its type.                            *)
LEMMA ScriptsTypeStep == SessionTypeOK /\ [SessionNext]_sessionVars => SessionTypeOK'
<1> SUFFICES ASSUME SessionTypeOK, [SessionNext]_sessionVars PROVE SessionTypeOK'
  OBVIOUS
<1> USE DEF SessionTypeOK, Pcs, Helpers, Apps, Locks, Ctls
<1>1. ASSUME NEW s \in Start, AcquireLock(s) PROVE SessionTypeOK'
  BY <1>1 DEF AcquireLock
<1>2. ASSUME NEW s \in Start, SeesReady(s) PROVE SessionTypeOK'
  BY <1>2 DEF SeesReady
<1>3. ASSUME NEW s \in Start, TakesReady(s) PROVE SessionTypeOK'
  BY <1>3 DEF TakesReady
<1>4. ASSUME NEW s \in Start, Refused(s) \/ TimesOut(s) PROVE SessionTypeOK'
  BY <1>4 DEF Refused, TimesOut
<1>5. ASSUME NEW s \in Start, Forks(s) PROVE SessionTypeOK'
  BY <1>5 DEF Forks
<1>6. ASSUME NEW s \in Start, Aborts(s) \/ StopTime(s) \/ EngineGone(s) PROVE SessionTypeOK'
  BY <1>6 DEF Aborts, StopTime, EngineGone
<1>7. ASSUME NEW s \in Start, Stops(s) PROVE SessionTypeOK'
  BY <1>7 DEF Stops
<1>8. ASSUME NEW s \in Start, ReleasesLock(s) PROVE SessionTypeOK'
  BY <1>8 DEF ReleasesLock, Terminate
<1>9. ASSUME NEW s \in Start, RemovesPid(s) PROVE SessionTypeOK'
  BY <1>9 DEF RemovesPid
<1>10. ASSUME NEW s \in Start, Tries(s) \/ Announces(s) PROVE SessionTypeOK'
  BY <1>10 DEF Tries, Announces
<1>11. ASSUME NEW s \in Start, Notices(s) \/ Unlocks(s) \/ EngineEnds(s) PROVE SessionTypeOK'
  BY <1>11 DEF Notices, Unlocks, EngineEnds
<1>12. ASSUME NEW s \in Start, FindsEngine(s) PROVE SessionTypeOK'
  BY <1>12 DEF FindsEngine
<1>13. CASE RemovesStale \/ RemovesByHand \/ LooksAtLock
  BY <1>13 DEF RemovesStale, RemovesByHand, LooksAtLock
<1>14. CASE StopsByHand \/ RestartTerms
  BY <1>14 DEF StopsByHand, RestartTerms
<1>15. Mishap => mishaps' \in 0..MaxMishaps
  OBVIOUS
<1> HIDE DEF Mishap
<1>16. ASSUME NEW s \in Start, Killed(s) PROVE SessionTypeOK'
  BY <1>15, <1>16 DEF Killed
<1>17. ASSUME NEW s \in Start, HeartbeatFails(s) PROVE SessionTypeOK'
  BY <1>15, <1>17 DEF HeartbeatFails
<1>18. CASE PowerFails
  BY <1>15, <1>18 DEF PowerFails
<1>19. CASE UNCHANGED sessionVars
  BY <1>19 DEF sessionVars
<1> HIDE DEF SessionTypeOK
<1> QED
  BY <1>1, <1>2, <1>3, <1>4, <1>5, <1>6, <1>7, <1>8, <1>9, <1>10, <1>11, <1>12, <1>13, <1>14,
     <1>16, <1>17, <1>18, <1>19
  DEF SessionNext, ShellStep, ShellEnds, HelperStep, ControlStep

(* The lock moves with the helper that has it.                             *)
LEMMA LockStep == ScriptsInv /\ [SessionNext]_sessionVars => LockIsTheHelpers'
<1> SUFFICES ASSUME ScriptsInv, [SessionNext]_sessionVars PROVE LockIsTheHelpers'
  OBVIOUS
<1> USE DEF ScriptsInv, SessionTypeOK, Pcs, Helpers, Locks, LockIsTheHelpers, Locker
<1>1. ASSUME NEW s \in Start, AcquireLock(s) PROVE LockIsTheHelpers'
  BY <1>1 DEF AcquireLock
<1>2. ASSUME NEW s \in Start, SeesReady(s) PROVE LockIsTheHelpers'
  BY <1>2 DEF SeesReady
<1>3. ASSUME NEW s \in Start, TakesReady(s) PROVE LockIsTheHelpers'
  BY <1>3 DEF TakesReady
<1>4. ASSUME NEW s \in Start, Refused(s) \/ TimesOut(s) PROVE LockIsTheHelpers'
  BY <1>4 DEF Refused, TimesOut
<1>5. ASSUME NEW s \in Start, Forks(s) PROVE LockIsTheHelpers'
  BY <1>5 DEF Forks
<1>6. ASSUME NEW s \in Start, Aborts(s) \/ StopTime(s) \/ EngineGone(s) PROVE LockIsTheHelpers'
  BY <1>6 DEF Aborts, StopTime, EngineGone
<1>7. ASSUME NEW s \in Start, Stops(s) PROVE LockIsTheHelpers'
  BY <1>7 DEF Stops
<1>8. ASSUME NEW s \in Start, ReleasesLock(s) PROVE LockIsTheHelpers'
  BY <1>8 DEF ReleasesLock, Terminate
<1>9. ASSUME NEW s \in Start, RemovesPid(s) PROVE LockIsTheHelpers'
  BY <1>9 DEF RemovesPid
<1>10. ASSUME NEW s \in Start, Tries(s) PROVE LockIsTheHelpers'
  BY <1>10 DEF Tries
<1>11. ASSUME NEW s \in Start, Announces(s) PROVE LockIsTheHelpers'
  BY <1>11 DEF Announces
<1>12. ASSUME NEW s \in Start, Notices(s) \/ EngineEnds(s) PROVE LockIsTheHelpers'
  BY <1>12 DEF Notices, EngineEnds
<1>13. ASSUME NEW s \in Start, Unlocks(s) PROVE LockIsTheHelpers'
  BY <1>13 DEF Unlocks
<1>14. ASSUME NEW s \in Start, Killed(s) PROVE LockIsTheHelpers'
  BY <1>14 DEF Killed
<1>15. ASSUME NEW s \in Start, HeartbeatFails(s) PROVE LockIsTheHelpers'
  BY <1>15 DEF HeartbeatFails
<1>16. ASSUME NEW s \in Start, FindsEngine(s) PROVE LockIsTheHelpers'
  BY <1>16 DEF FindsEngine
<1>17. CASE RemovesStale \/ RemovesByHand \/ LooksAtLock
  BY <1>17 DEF RemovesStale, RemovesByHand, LooksAtLock
<1>18. CASE StopsByHand \/ RestartTerms
  BY <1>18 DEF StopsByHand, RestartTerms
<1>19. CASE PowerFails
  BY <1>19 DEF PowerFails
<1>20. CASE UNCHANGED sessionVars
  BY <1>20 DEF sessionVars
<1> HIDE DEF ScriptsInv, SessionTypeOK, Pcs, Helpers, Locks, LockIsTheHelpers, Locker
<1> QED
  BY <1>1, <1>2, <1>3, <1>4, <1>5, <1>6, <1>7, <1>8, <1>9, <1>10, <1>11, <1>12,
     <1>13, <1>14, <1>15, <1>16, <1>17, <1>18, <1>19, <1>20
  DEF SessionNext, ShellStep, ShellEnds, HelperStep, ControlStep

(* Nobody but a helper that holds the lock leaves a ready file behind.     *)
LEMMA ReadyStep == ScriptsInv /\ [SessionNext]_sessionVars => ReadyIsAnnounced'
<1> SUFFICES ASSUME ScriptsInv, [SessionNext]_sessionVars PROVE ReadyIsAnnounced'
  OBVIOUS
<1> USE DEF ScriptsInv, SessionTypeOK, Pcs, Helpers, Locks, LockIsTheHelpers, Locker, ReadyIsAnnounced
<1>1. ASSUME NEW s \in Start, AcquireLock(s) PROVE ReadyIsAnnounced'
  BY <1>1 DEF AcquireLock
<1>2. ASSUME NEW s \in Start, SeesReady(s) PROVE ReadyIsAnnounced'
  BY <1>2 DEF SeesReady
<1>3. ASSUME NEW s \in Start, TakesReady(s) PROVE ReadyIsAnnounced'
  BY <1>3 DEF TakesReady
<1>4. ASSUME NEW s \in Start, Refused(s) \/ TimesOut(s) PROVE ReadyIsAnnounced'
  BY <1>4 DEF Refused, TimesOut
<1>5. ASSUME NEW s \in Start, Forks(s) PROVE ReadyIsAnnounced'
  BY <1>5 DEF Forks
<1>6. ASSUME NEW s \in Start, Aborts(s) \/ StopTime(s) \/ EngineGone(s) PROVE ReadyIsAnnounced'
  BY <1>6 DEF Aborts, StopTime, EngineGone
<1>7. ASSUME NEW s \in Start, Stops(s) PROVE ReadyIsAnnounced'
  BY <1>7 DEF Stops
<1>8. ASSUME NEW s \in Start, ReleasesLock(s) PROVE ReadyIsAnnounced'
  BY <1>8 DEF ReleasesLock, Terminate
<1>9. ASSUME NEW s \in Start, RemovesPid(s) PROVE ReadyIsAnnounced'
  BY <1>9 DEF RemovesPid
<1>10. ASSUME NEW s \in Start, Tries(s) PROVE ReadyIsAnnounced'
  BY <1>10 DEF Tries
<1>11. ASSUME NEW s \in Start, Announces(s) PROVE ReadyIsAnnounced'
  BY <1>11 DEF Announces
<1>12. ASSUME NEW s \in Start, Notices(s) \/ EngineEnds(s) PROVE ReadyIsAnnounced'
  BY <1>12 DEF Notices, EngineEnds
<1>13. ASSUME NEW s \in Start, Unlocks(s) PROVE ReadyIsAnnounced'
  BY <1>13 DEF Unlocks
<1>14. ASSUME NEW s \in Start, Killed(s) PROVE ReadyIsAnnounced'
  BY <1>14 DEF Killed
<1>15. ASSUME NEW s \in Start, HeartbeatFails(s) PROVE ReadyIsAnnounced'
  BY <1>15 DEF HeartbeatFails
<1>16. ASSUME NEW s \in Start, FindsEngine(s) PROVE ReadyIsAnnounced'
  BY <1>16 DEF FindsEngine
<1>17. CASE RemovesStale \/ RemovesByHand \/ LooksAtLock
  BY <1>17 DEF RemovesStale, RemovesByHand, LooksAtLock
<1>18. CASE StopsByHand \/ RestartTerms
  BY <1>18 DEF StopsByHand, RestartTerms
<1>19. CASE PowerFails
  BY <1>19 DEF PowerFails
<1>20. CASE UNCHANGED sessionVars
  BY <1>20 DEF sessionVars
<1> HIDE DEF ScriptsInv, SessionTypeOK, Pcs, Helpers, Locks, LockIsTheHelpers, Locker, ReadyIsAnnounced
<1> QED
  BY <1>1, <1>2, <1>3, <1>4, <1>5, <1>6, <1>7, <1>8, <1>9, <1>10, <1>11, <1>12,
     <1>13, <1>14, <1>15, <1>16, <1>17, <1>18, <1>19, <1>20
  DEF SessionNext, ShellStep, ShellEnds, HelperStep, ControlStep

(* Two shells that rely on the lock would be one: neither can end the      *)
(* other's helper, nor name its engine.                                    *)
LEMMA AloneStep == ScriptsInv /\ [SessionNext]_sessionVars => Alone'
<1> SUFFICES ASSUME ScriptsInv, [SessionNext]_sessionVars PROVE Alone'
  OBVIOUS
<1> USE DEF ScriptsInv, SessionTypeOK, Pcs, Helpers, Locks, LockIsTheHelpers, Locker, ReadyIsAnnounced,
            Alone, Relying, Leaving, Held, EndsLate, OwnPid
<1>1. ASSUME NEW s \in Start, AcquireLock(s) PROVE Alone'
  BY <1>1 DEF AcquireLock
<1>2. ASSUME NEW s \in Start, SeesReady(s) PROVE Alone'
  BY <1>2 DEF SeesReady
<1>3. ASSUME NEW s \in Start, TakesReady(s) PROVE Alone'
  BY <1>3 DEF TakesReady
<1>4. ASSUME NEW s \in Start, Refused(s) \/ TimesOut(s) PROVE Alone'
  BY <1>4 DEF Refused, TimesOut
<1>5. ASSUME NEW s \in Start, Forks(s) PROVE Alone'
  BY <1>5 DEF Forks
<1>6. ASSUME NEW s \in Start, Aborts(s) \/ StopTime(s) \/ EngineGone(s) PROVE Alone'
  BY <1>6 DEF Aborts, StopTime, EngineGone
<1>7. ASSUME NEW s \in Start, Stops(s) PROVE Alone'
  BY <1>7 DEF Stops
<1>8. ASSUME NEW s \in Start, ReleasesLock(s) PROVE Alone'
  BY <1>8 DEF ReleasesLock, Terminate
<1>9. ASSUME NEW s \in Start, RemovesPid(s) PROVE Alone'
  BY <1>9 DEF RemovesPid
<1>10. ASSUME NEW s \in Start, Tries(s) PROVE Alone'
  BY <1>10 DEF Tries
<1>11. ASSUME NEW s \in Start, Announces(s) PROVE Alone'
  BY <1>11 DEF Announces
<1>12. ASSUME NEW s \in Start, Notices(s) \/ EngineEnds(s) PROVE Alone'
  BY <1>12 DEF Notices, EngineEnds
<1>13. ASSUME NEW s \in Start, Unlocks(s) PROVE Alone'
  BY <1>13 DEF Unlocks
<1>14. ASSUME NEW s \in Start, Killed(s) PROVE Alone'
  BY <1>14 DEF Killed
<1>15. ASSUME NEW s \in Start, HeartbeatFails(s) PROVE Alone'
  BY <1>15 DEF HeartbeatFails
<1>16. ASSUME NEW s \in Start, FindsEngine(s) PROVE Alone'
  BY <1>16 DEF FindsEngine
<1>17. CASE RemovesStale \/ RemovesByHand \/ LooksAtLock
  BY <1>17 DEF RemovesStale, RemovesByHand, LooksAtLock
<1>18. CASE StopsByHand \/ RestartTerms
  BY <1>18 DEF StopsByHand, RestartTerms
<1>19. CASE PowerFails
  BY <1>19 DEF PowerFails
<1>20. CASE UNCHANGED sessionVars
  BY <1>20 DEF sessionVars
<1> HIDE DEF ScriptsInv, SessionTypeOK, Pcs, Helpers, Locks, LockIsTheHelpers, Locker, ReadyIsAnnounced,
            Alone, Relying, Leaving, Held, EndsLate, OwnPid
<1> QED
  BY <1>1, <1>2, <1>3, <1>4, <1>5, <1>6, <1>7, <1>8, <1>9, <1>10, <1>11, <1>12,
     <1>13, <1>14, <1>15, <1>16, <1>17, <1>18, <1>19, <1>20
  DEF SessionNext, ShellStep, ShellEnds, HelperStep, ControlStep

-----------------------------------------------------------------------------
LEMMA ScriptsInvariant == SessionSpec => []ScriptsInv
<1>1. SessionInit => ScriptsInv
  <2> SUFFICES ASSUME SessionInit PROVE ScriptsInv
    OBVIOUS
  <2>1. SessionTypeOK
    <3>1. mishaps \in 0..MaxMishaps
      BY DEF SessionInit
    <3>2. shell \in [Start -> Pcs] /\ helper \in [Start -> Helpers] /\ app \in [Start -> Apps]
      BY Zenon DEF SessionInit, Pcs, Helpers, Apps
    <3> QED
      BY <3>1, <3>2, Zenon DEF SessionInit, SessionTypeOK, Locks, Ctls
  <2>2. LockIsTheHelpers /\ ReadyIsAnnounced
    BY DEF SessionInit, LockIsTheHelpers, Locker, ReadyIsAnnounced
  <2>3. Alone
    BY DEF SessionInit, Alone, Relying, Leaving, Held, EndsLate, OwnPid
  <2> QED
    BY <2>1, <2>2, <2>3 DEF ScriptsInv
<1>2. ScriptsInv /\ [SessionNext]_sessionVars => ScriptsInv'
  BY ScriptsTypeStep, LockStep, ReadyStep, AloneStep DEF ScriptsInv
<1> QED
  BY <1>1, <1>2, PTL DEF SessionSpec

(* Every variable of the scripts keeps its type.                           *)
THEOREM ScriptsTypeCorrect == SessionSpec => []SessionTypeOK
<1>1. ScriptsInv => SessionTypeOK
  BY DEF ScriptsInv
<1> QED
  BY <1>1, ScriptsInvariant, PTL

(* However many starts overlap, whatever is killed and however often the   *)
(* power fails: as long as no two starts mix up their ready files and no   *)
(* helper fails, a session is alone, its helper has the lock, and what it  *)
(* ends is its own engine (run_session.sh:9, run_session.sh:500).          *)
THEOREM OneSessionAlways == SessionSpec => []OneSession
<1>1. ScriptsInv => OneSession
  BY DEF ScriptsInv, OneSession, InSession, Alone, Relying, Held, OwnPid
<1> QED
  BY <1>1, ScriptsInvariant, PTL
=============================================================================

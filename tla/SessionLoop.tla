---------------------------- MODULE SessionLoop ----------------------------
(***************************************************************************)
(* The loop that drives every cycle (app/runtime/session_loop.py) and the  *)
(* memory of API trouble it schedules by, api_budget_state                 *)
(* (app/core/runtime_budget.py): the backoff after a rate limit and its    *)
(* source, the backoff after a transient error, the degraded mode with its *)
(* longer intervals.  The phases of a cycle are modelled by the requests   *)
(* they make, the trouble they note and the time they sleep, in the order  *)
(* of the sequential cycle of app/main.py in a trading mode (scan_only,    *)
(* which scans within the SELL order phase, is left out).                  *)
(*                                                                         *)
(* Time is counted in units of about a minute.  Every deadline is a        *)
(* countdown and every timestamp an age, so behaviours go on for ever in   *)
(* finitely many states.                                                   *)
(***************************************************************************)
EXTENDS Naturals, Sequences, FiniteSets

CONSTANTS
  TickLength,                    \* base_tick_seconds
  SellEvery, BuyEvery,           \* the intervals of the two checks
  DegradedSell, DegradedBuy,     \* their least values in degraded mode
  PartialFactor, WatchFactor,    \* what stretches the SELL interval (2..4, 4 or 6)
  BaseBackoff, MaxBackoff,       \* 60 s and 600 s
  Doublings,                     \* 4
  BaseTransient, MaxTransient,   \* 60 s and 300 s
  TransientDoublings,            \* 3
  Window,                        \* 600 s, how long a hit or an error counts
  DegradedHits, DegradedCycles,  \* what turns the degraded mode on
  DegradedFor                    \* degraded_mode_duration_seconds

Sources == {"none", "balance", "sell_watch", "buy_scan", "unknown"}

ASSUME SessionLoopAssumption ==
  /\ {TickLength, SellEvery, BuyEvery, DegradedSell, DegradedBuy, PartialFactor,
      WatchFactor, BaseBackoff, MaxBackoff, BaseTransient, MaxTransient,
      DegradedHits, DegradedCycles, DegradedFor} \subseteq Nat \ {0}
  /\ {Doublings, TransientDoublings, Window} \subseteq Nat
  /\ BaseBackoff <= MaxBackoff
  /\ BaseTransient <= MaxTransient

(* The doublings reach the longest backoff, as 60 s * 2^4 reach 600 s.  The *)
(* rest is arithmetic that the provers do not know of.                      *)
ASSUME DoublingAssumption ==
  /\ BaseBackoff * 2^Doublings >= MaxBackoff
  /\ \A n \in 0..Doublings : 2^n \in Nat \ {0} /\ 2^(n + 1) = 2 * 2^n
  /\ \A n \in 0..TransientDoublings : 2^n \in Nat \ {0}

VARIABLES
  pc,      \* the phase the loop's thread is in
  budget,  \* api_budget_state
  age,     \* time since the last SELL check and BUY scan began
  memory,  \* what the last observed SELL watch left: holdings, partial
  cycle,   \* ctx of the running cycle
  owed,    \* history: the least wait that the next hit has to bring
  banned   \* history: a balance request was limited, and its cooldown still runs

vars == <<pc, budget, age, memory, cycle, owed, banned>>

Least(a, b)   == IF a < b THEN a ELSE b
Most(a, b)    == IF a > b THEN a ELSE b
Minus(a, b)   == IF a > b THEN a - b ELSE 0
Newest(s, n)  == SubSeq(s, Minus(Len(s), n) + 1, Len(s))

MaxAge == Most(SellEvery, DegradedSell) * Most(PartialFactor, WatchFactor)
          + Most(BuyEvery, DegradedBuy)

Phases  == {"tick", "gate", "balance", "watch", "orders", "scan_entry", "scan",
            "buy_order", "tail", "finalize", "sleep"}
Ages(n) == {s \in Seq(0..Window + 1) : Len(s) <= n}

Budgets ==
  [backoff : 0..MaxBackoff, hits : 0..Doublings + 1, source : Sources,
   recent : Ages(DegradedHits), transient : 0..MaxTransient,
   errors : Ages(TransientDoublings + 1), consecutive : 0..DegradedCycles,
   degraded : 0..DegradedFor]

Cycles ==
  [sell : BOOLEAN, buy : BOOLEAN, open : BOOLEAN, held : BOOLEAN, partial : BOOLEAN,
   source : Sources, prefetch : BOOLEAN, notes : 0..3, drained : BOOLEAN,
   elapsed : 0..TickLength]

TypeOK ==
  /\ pc \in Phases
  /\ budget \in Budgets
  /\ age \in [sell : 0..MaxAge, buy : 0..MaxAge]
  /\ memory \in [held : BOOLEAN, partial : BOOLEAN]
  /\ cycle \in Cycles
  /\ owed \in 0..MaxBackoff
  /\ banned \in BOOLEAN

-----------------------------------------------------------------------------
(* api_budget_state. *)

Active(deadline) == deadline > 0

(* What k units of time make of it. *)
Aged(b, k) ==
  LET Older(s) == [i \in DOMAIN s |-> Least(s[i] + k, Window + 1)]
  IN  [b EXCEPT !.backoff   = Minus(@, k),
                !.transient = Minus(@, k),
                !.degraded  = Minus(@, k),
                !.recent    = Older(@),
                !.errors    = Older(@)]

(* prune_recent_rate_limit_hits and prune_recent_transient_api_errors: the *)
(* hits are in their order, so that those that still count are the newest. *)
Recent(ages) == Newest(ages, Cardinality({i \in DOMAIN ages : ages[i] <= Window}))

HitBackoff(hits) == Least(BaseBackoff * 2^Least(hits - 1, Doublings), MaxBackoff)

(* note_rate_limit_backoff. *)
NoteHit(b, source) ==
  LET hits == Least(b.hits + 1, Doublings + 1)
  IN  [b EXCEPT !.recent  = Newest(Append(Recent(@), 0), DegradedHits),
                !.source  = source,
                !.hits    = hits,
                !.backoff = HitBackoff(hits)]

(* api_budget_note_transient_api_error; its source is only printed. *)
NoteTransient(b) ==
  LET errors == Newest(Append(Recent(b.errors), 0), TransientDoublings + 1)
  IN  [b EXCEPT !.errors    = errors,
                !.transient = Least(BaseTransient * 2^Least(Len(errors) - 1, TransientDoublings),
                                    MaxTransient)]

(* Mutant: a cycle without a hit resets the count while a backoff runs. *)
Recover_Always(b, source) ==
  IF source # "none" THEN [b EXCEPT !.source = source]
  ELSE [b EXCEPT !.source = "none", !.hits = 0]

(* Mutant: the source of a cycle that was limited is not written back. *)
Recover_Unsourced(b, source) ==
  IF source # "none" \/ Active(b.backoff) THEN b ELSE [b EXCEPT !.source = "none", !.hits = 0]

(* api_budget_update_rate_limit_recovery_state. *)
Recover(b, source) ==
  IF source # "none" THEN [b EXCEPT !.source = source]
  ELSE IF Active(b.backoff) THEN b
  ELSE [b EXCEPT !.source = "none", !.hits = 0]

(* The state part of build_runtime_rate_control: backoff ticks are counted *)
(* and the degraded mode is entered, or entered again once it has run out. *)
RateControl(b) ==
  LET recent      == Recent(b.recent)
      consecutive == IF Active(b.backoff) THEN Least(b.consecutive + 1, DegradedCycles) ELSE 0
      sustained   == Len(recent) >= DegradedHits \/ consecutive >= DegradedCycles
  IN  [b EXCEPT !.recent      = recent,
                !.consecutive = consecutive,
                !.degraded    = IF ~Active(@) /\ sustained THEN DegradedFor ELSE @]

(* compute_effective_sell_check_interval_seconds over the interval of the mode. *)
SellInterval(b) ==
  (IF Active(b.degraded) THEN Most(SellEvery, DegradedSell) ELSE SellEvery)
  * (IF ~memory.held THEN 1
     ELSE IF b.source = "sell_watch" THEN WatchFactor
     ELSE IF memory.partial THEN PartialFactor ELSE 1)

BuyInterval(b) == IF Active(b.degraded) THEN Most(BuyEvery, DegradedBuy) ELSE BuyEvery

(* Mutant: the source alone decides, though its backoff is over. *)
Decision_Source(b, sell, buy) ==
  IF Active(b.transient) \/ b.source = "balance" THEN [sell |-> FALSE, buy |-> FALSE]
  ELSE [sell |-> sell, buy |-> buy /\ ~Active(b.backoff)]

(* Mutant: one check a tick, SELL first. *)
Decision_One(b, sell, buy) ==
  IF Active(b.transient) \/ (Active(b.backoff) /\ b.source = "balance")
  THEN [sell |-> FALSE, buy |-> FALSE]
  ELSE [sell |-> sell, buy |-> buy /\ ~sell /\ ~Active(b.backoff)]

(* build_scheduler_tick_decision.  Its quote budget never defers BUY: the  *)
(* quotes of a tick are zero when it is asked.                             *)
Decision(b, sell, buy) ==
  IF Active(b.transient) \/ (Active(b.backoff) /\ b.source = "balance")
  THEN [sell |-> FALSE, buy |-> FALSE]
  ELSE [sell |-> sell, buy |-> buy /\ ~Active(b.backoff)]

-----------------------------------------------------------------------------
(* The loop and the cycle. *)

NoCycle == [sell |-> FALSE, buy |-> FALSE, held |-> FALSE, partial |-> FALSE,
            open |-> FALSE, source |-> "none", prefetch |-> FALSE, notes |-> 0,
            drained |-> FALSE, elapsed |-> 0]

Init ==
  /\ pc = "tick"
  /\ budget = [backoff |-> 0, hits |-> 0, source |-> "none", recent |-> <<>>,
               transient |-> 0, errors |-> <<>>, consecutive |-> 0, degraded |-> 0]
  /\ age = [sell |-> MaxAge, buy |-> MaxAge]
  /\ memory = [held |-> FALSE, partial |-> FALSE]
  /\ cycle = NoCycle
  /\ owed = BaseBackoff
  /\ banned = FALSE

Later(ages, k) == [c \in DOMAIN ages |-> Least(ages[c] + k, MaxAge)]
Spent(k)       == Least(cycle.elapsed + k, TickLength)

(* A phase that takes k units and leaves b and c. *)
Leaves(b, c, k, phase) ==
  /\ pc' = phase
  /\ budget' = b
  /\ cycle' = [c EXCEPT !.elapsed = Spent(k)]
  /\ age' = Later(age, k)

(* A phase of k units whose end is a rate limit of this source. *)
Limited(c, source, k, phase) ==
  LET b == NoteHit(Aged(budget, k), source)
  IN  /\ Leaves(b, [c EXCEPT !.source = source, !.notes = @ + 1], k, phase)
      /\ owed' = Least(2 * b.backoff, MaxBackoff)
      /\ banned' = (banned \/ source = "balance")
      /\ UNCHANGED memory

Calm == UNCHANGED <<memory, owed, banned>>

(* The top of the loop.  A check counts from the tick that began it, which *)
(* the code writes down after the cycle, whatever became of it.            *)
Tick ==
  LET b      == RateControl(budget)
      due    == Decision(b, age.sell >= SellInterval(b), age.buy >= BuyInterval(b))
  IN  /\ pc = "tick"
      /\ IF due.sell \/ due.buy
         THEN /\ pc' = "gate"
              /\ budget' = b
              /\ cycle' = [NoCycle EXCEPT !.sell = due.sell, !.buy = due.buy]
              /\ age' = [sell |-> IF due.sell THEN 0 ELSE age.sell,
                         buy  |-> IF due.buy THEN 0 ELSE age.buy]
         ELSE /\ budget' = Aged(b, TickLength)
              /\ age' = Later(age, TickLength)
              /\ UNCHANGED <<pc, cycle>>
      /\ banned' = (banned /\ Active(b.backoff))
      /\ UNCHANGED <<memory, owed>>

(* run_session_gate: nothing is asked while orders are not allowed. *)
MarketClosed ==
  /\ pc = "gate"
  /\ Leaves(budget, cycle, 0, "finalize")
  /\ Calm

(* run_budget_gate: a SELL check that is due sleeps through the backoff. *)
Drain == budget.backoff

Drained(k) == [cycle EXCEPT !.open = TRUE, !.drained = banned /\ k > 0]

EnterCycle ==
  /\ pc = "gate"
  /\ Leaves(Aged(budget, Drain), Drained(Drain), Drain, "balance")
  /\ Calm

(* run_budget_gate: the request window of the tick is full. *)
BudgetUsedUp ==
  /\ pc = "gate"
  /\ Leaves(Aged(budget, Drain), Drained(Drain), Drain, "finalize")
  /\ Calm

(* run_account_snapshot_phase: what becomes of the BUY scan when its quotes *)
(* are to be prefetched: fetched in line, by a worker, or not at all, since *)
(* another worker is still running or the cycle is short of time.           *)
Prefetching ==
  IF cycle.buy
  THEN {cycle, [cycle EXCEPT !.prefetch = TRUE], [cycle EXCEPT !.buy = FALSE]}
  ELSE {cycle}

BalanceAnswered ==
  /\ pc = "balance"
  /\ \E c \in Prefetching, k \in 0..1 : Leaves(Aged(budget, k), c, k, "watch")
  /\ Calm

BalanceLimited ==
  /\ pc = "balance"
  /\ \E c \in Prefetching, k \in 0..1 : Limited(c, "balance", k, "finalize")

(* run_sell_watch_phase.  A partial watch is one that its budget cut short. *)
WatchHoldings ==
  /\ pc = "watch"
  /\ cycle.sell
  /\ \E held \in BOOLEAN, partial \in BOOLEAN :
       /\ partial => held
       /\ Leaves(budget, [cycle EXCEPT !.held = held, !.partial = partial], 0, "orders")
  /\ Calm

WatchLimited ==
  /\ pc = "watch"
  /\ cycle.sell
  /\ Limited([cycle EXCEPT !.held = TRUE, !.partial = TRUE], "sell_watch", 0, "orders")

WatchNotDue ==
  /\ pc = "watch"
  /\ ~cycle.sell
  /\ \E held \in BOOLEAN : Leaves(budget, [cycle EXCEPT !.held = held], 0, "orders")
  /\ Calm

(* The regime and the SELL order.  An order, one that is deferred since the *)
(* watch was limited, and an error without a name end the cycle.            *)
OrdersEnd ==
  /\ pc = "orders"
  /\ Leaves(budget, cycle, 0, "finalize")
  /\ Calm

NoSellOrder ==
  /\ pc = "orders"
  /\ Leaves(budget, cycle, 0, "scan_entry")
  /\ Calm

(* The exception handler of run_cycle: the phases' own calls may raise a    *)
(* rate limit, which keeps the source the cycle has, or a transient error.  *)
(* The BUY flow puts a source of its own in its place ("orderable",         *)
(* "buy_order"), which nothing tells from "unknown".                        *)
Raising == {"balance", "orders", "tail"}

RaiseLimited ==
  /\ pc \in Raising
  /\ \E source \in {cycle.source, "unknown"} \ {"none"} :
       /\ source # cycle.source => pc = "tail" \/ cycle.source = "none"
       /\ Limited(cycle, source, 0, "finalize")

RaiseTransient ==
  /\ pc \in Raising
  /\ Leaves(NoteTransient(budget), cycle, 0, "finalize")
  /\ Calm

(* Mutant: the scan begins at once. *)
WatchDrain_None == 0

(* run_buy_scan_phase sleeps through a backoff of this cycle's SELL watch. *)
WatchDrain == IF cycle.source = "sell_watch" THEN budget.backoff ELSE 0

EnterScan ==
  /\ pc = "scan_entry"
  /\ Leaves(Aged(budget, WatchDrain), cycle, WatchDrain, IF cycle.buy THEN "scan" ELSE "finalize")
  /\ Calm

(* The cycle's own budget is short, or the worker is: it is left behind. *)
NoScan ==
  /\ pc = "scan"
  /\ \E pending \in {cycle.prefetch, FALSE} :
       Leaves(budget, [cycle EXCEPT !.prefetch = pending], 0, "finalize")
  /\ Calm

ScanAnswered ==
  /\ pc = "scan"
  /\ \E k \in 0..1 :
       Leaves(Aged(budget, k), [cycle EXCEPT !.prefetch = FALSE], k, "buy_order")
  /\ Calm

ScanLimited ==
  /\ pc = "scan"
  /\ \E k \in 0..1 : Limited([cycle EXCEPT !.prefetch = FALSE], "buy_scan", k, "buy_order")

(* run_buy_order_phase without a candidate that may be ordered. *)
BuyOrderEnds ==
  /\ pc = "buy_order"
  /\ Leaves(budget, cycle, 0, "finalize")
  /\ Calm

(* The BUY flow sleeps through whatever backoff runs, then asks for the     *)
(* orderable cash and orders.                                               *)
BuyTail ==
  /\ pc = "buy_order"
  /\ Leaves(Aged(budget, budget.backoff), cycle, budget.backoff, "tail")
  /\ Calm

OrderAnswered ==
  /\ pc = "tail"
  /\ Leaves(budget, cycle, 0, "finalize")
  /\ Calm

(* finalize_cycle: what the SELL watch left is remembered, and a cycle that *)
(* saw no rate limit ends the count of hits, unless a backoff still runs.   *)
Finalized(b, source) ==
  /\ pc = "finalize"
  /\ pc' = "sleep"
  /\ budget' = Recover(b, source)
  /\ memory' = [held    |-> cycle.held,
                partial |-> IF cycle.sell /\ cycle.open /\ cycle.held
                            THEN cycle.partial ELSE memory.partial]
  /\ UNCHANGED <<age, banned>>

Finalize ==
  /\ Finalized(budget, cycle.source)
  /\ cycle' = [cycle EXCEPT !.prefetch = FALSE]
  /\ UNCHANGED owed

(* The worker that nobody joined is done now, and was limited: its hit keeps *)
(* the source the cycle has.                                                 *)
FinalizeLimited ==
  LET b      == NoteHit(budget, "buy_scan")
      source == IF cycle.source = "none" THEN "buy_scan" ELSE cycle.source
  IN  /\ cycle.prefetch
      /\ Finalized(b, source)
      /\ cycle' = [cycle EXCEPT !.prefetch = FALSE, !.source = source, !.notes = @ + 1]
      /\ owed' = Least(2 * b.backoff, MaxBackoff)

(* compute_next_tick_sleep_seconds: what the cycle left of the tick. *)
Sleep ==
  LET k == Minus(TickLength, cycle.elapsed)
  IN  /\ pc = "sleep"
      /\ pc' = "tick"
      /\ budget' = Aged(budget, k)
      /\ age' = Later(age, k)
      /\ cycle' = NoCycle
      /\ owed' = IF cycle.notes = 0 /\ ~Active(budget.backoff) THEN BaseBackoff ELSE owed
      /\ UNCHANGED <<memory, banned>>

Hit == BalanceLimited \/ WatchLimited \/ ScanLimited \/ RaiseLimited \/ FinalizeLimited

Next ==
  \/ Tick \/ MarketClosed \/ EnterCycle \/ BudgetUsedUp
  \/ BalanceAnswered \/ WatchHoldings \/ WatchNotDue
  \/ OrdersEnd \/ NoSellOrder \/ RaiseTransient
  \/ EnterScan \/ NoScan \/ ScanAnswered
  \/ BuyOrderEnds \/ BuyTail \/ OrderAnswered
  \/ Finalize \/ Sleep \/ Hit

Spec == Init /\ [][Next]_vars

(* The thread of the loop keeps running: its calls time out, its sleeps end. *)
FairSpec == Spec /\ WF_vars(Next)

-----------------------------------------------------------------------------
(* Properties. *)

(* While a rate-limit backoff runs no request is made: not the balance, not *)
(* a quote of the SELL watch or of a BUY scan in line, not the orderable    *)
(* cash or the order.  A cycle that begins in a backoff sleeps it out, and  *)
(* one that is limited half-way sleeps before it scans or orders.           *)
(* (A prefetch worker uses an account of its own.)                          *)
RequestsWait ==
  [][(BalanceAnswered \/ BalanceLimited \/ WatchHoldings \/ WatchLimited
      \/ OrderAnswered \/ (pc = "tail" /\ (RaiseLimited \/ RaiseTransient))
      \/ ((ScanAnswered \/ ScanLimited) /\ ~cycle.prefetch)) => ~Active(budget.backoff)]_vars

(* session_loop.py:170: sleeping through a backoff of the balance "would     *)
(* immediately retry the same endpoint at the cooldown boundary".  After     *)
(* such a hit the next balance request is made by a cycle that began after   *)
(* the cooldown, whatever hits of other sources that cycle noted later.      *)
BalanceIsNotDrained ==
  [][BalanceAnswered \/ BalanceLimited => ~cycle.drained]_vars

(* Every hit waits twice as long as the hit before, up to the maximum, until *)
(* a cycle that noted none has ended after the backoff was over.  A cycle    *)
(* that ends in the middle of a backoff, since the market is closed, does    *)
(* not make the next wait short again.                                       *)
HitsEscalate == [][cycle'.notes > cycle.notes => budget'.backoff >= owed]_vars

(* What may go on keeping a check from being done. *)
Trouble ==
  Hit \/ RaiseTransient \/ MarketClosed \/ BudgetUsedUp

NoBuyScan == (BalanceAnswered /\ cycle.buy /\ ~cycle'.buy) \/ OrdersEnd \/ NoScan

(* Once the trouble is over the holdings are watched again and again: no     *)
(* backoff, source, interval or degraded mode outlives its cause.            *)
SellChecksResume == <>[][~Trouble]_vars => []<><<WatchHoldings>>_vars

(* The same for BUY scans, which SELL checks never crowd out. *)
BuyScansResume == <>[][~Trouble /\ ~NoBuyScan]_vars => []<><<ScanAnswered>>_vars
=============================================================================

# TLA+ models of the KIS trader

TLA+ specifications of the trading engine in `src/app` and of the scripts that
start it, the TLC runs that check them on small instances, and TLAPS proofs of
what matters most for every instance. Everything here is translated from the
code; where a comment, a docstring or a plan under `docs/` says something else,
the code is what is modelled, and the disagreement is described in
[section 4](#4-findings).

    tlc -workers 2 -config OrderGate.cfg MCOrderGate     # a run; see the table of runs
    tlapm OrderGateProofs.tla                            # the proofs of a module

## 1. The system

The engine is one Python process per account. A session loop wakes up every
tick and runs a *cycle*: load the runtime state from its file, look at the
balance, watch the holdings for SELL signals, perhaps scan the market for BUY
candidates, send at most a few orders, save the state. Cycles run on one
scheduler thread, on one of two paths chosen by the settings:

* **legacy**: `app/main.py` calls the phases under `app/runtime/cycle_phases/`
  one after the other;
* **lane**: `app/pipeline/lane_scheduler.py` runs a SELL lane and a BUY lane
  under one deadline, collects *intents*, and hands them to an *order gate*.

Shell scripts start one session a day, watch it and stop it; a helper process
holds the session's lock for its shell.

Concurrency is small and sharp: the scheduler thread, one worker thread that
prefetches BUY quotes and may outlive its cycle, and one worker thread per
order handler, which in Python cannot be killed and so outlives a timeout.
Beyond the process there are other processes (a second start, the control
commands, other senders of alerts), the broker (accepts, refuses, fills
partially, answers late or never), the account's owner (trades by hand), the
clock, and kills followed by restarts.

### 1.1 Components

`PROJECT.json` lists every component with its sources. Those with state of
their own:

| component | state it keeps | operations | interacts by | modelled in |
|---|---|---|---|---|
| order gate (`pipeline/order_gate.py`) | registry of detached handlers (process-wide, under a lock) | `process_ready_intents`, `_run_handler`, `_register_detached_handler`, `_drop_when_done` | called by the lane scheduler; calls order handlers on a thread; future callbacks | `OrderGate` |
| BUY scan controller (`pipeline/buy_lane.py`, `scan_lock.py`) | active prefetch, last completed one, run guard | `reap_completed`, `try_start_scan`, `start_quote_prefetch`, `join_active_prefetch`, the done callback, TTL | called by both paths; worker threads; callbacks | `BuyScan` |
| lane scheduler (`pipeline/lane_scheduler.py`) | none between cycles but the controller's worker | `run_cycle`: SELL lane, BUY scan, gate, one deadline | calls the gate and the controller | `LaneCycle` |
| SELL reservations (`execution/sell_flow.py`, `order_guard.py`, `core/reconciliation.py`, `runtime_state.py`) | pending SELL quantities with stamp and trigger, last outcomes, last synced positions, day flags | load, reconcile, guard, reserve, resolve, prune, save | the state dictionary of the cycle; its file; the broker | `SellIntents` (partly) |
| SELL watch (`core/sell_watch_cursor.py`, `sell_watch_budget.py`, `cycle_phases/sell_watch_phase.py`) | cursor, retry anchor and partial flag (saved), memory of partial walks and rate limits (process) | plan, walk, hit the rate limit, defer, finalize | the same state dictionary; the request budget | `SellWatch` |
| order log, daily limits (`core/order_log.py`, `order_log_rotation.py`, `risk/guards.py`) | an append-only file | append, rotate at start-up, count today | the BUY flow appends, the risk guards read | `OrderDay` |
| runtime state file, re-entry and BUY guards, BUY order flow (`runtime_state.py`, `strategy/reentry.py`, `execution/buy_flow.py`) | JSON written in place; today's orders and exits in it | load with trust rules, day rollover, guard, submit, save | every cycle | `OrderDay` (partly) |
| session loop, API budget (`runtime/session_loop.py`, `core/runtime_budget.py`) | due times, backoff and its source, degraded mode | tick, run a cycle, back off, recover, sleep | calls cycles; reads what they report | `SessionLoop` |
| request throttle (`core/throttle.py`) | rolling ledger of request times, without a lock | wait, record, make room for an order, penalty | shared by all threads | `Throttle` |
| notifications (`notifications/slack.py`, `slack_outbox.py`) | a file of unsent messages | send, resend, enqueue, expire | several threads and processes | `Outbox` (partly) |
| process locks (`core/session_lock.py`, `scripts/*.sh`) | lock file, ready file, two pid files | start, hold, look, release, stop, restart | between processes, by files and signals | `Session` (partly) |
| cycle driver, cycle phases, lane runtime adapters (`main.py`, `cycle_phases/`, `pipeline/runtime_adapters.py`) | the dictionary of a cycle | the order in which all of the above is called | | the modules above, each as far as it needs them (partly) |
| PnL brake (`risk/pnl_brake.py`), autotuner (`autotuner/approval.py`), rebalancing, Slack bot and control | pauses and overrides; proposals; plans; confirmations | trip, expire, approve, override | files that the cycle reads | not modelled, see 6 |

The scanner and the strategy are numeric rules over market data without
state between cycles; the dashboard, the reports, the overseas dry-run stack,
research, backtests and design assets decide nothing about live domestic
orders. They are not modelled.

### 1.2 What is hard, and what must hold

* **Order gate.** A handler that timed out goes on sending orders while the
  next cycle builds a fresh gate. It must never happen that two handlers send
  orders at once, and every race between the handler's end, its entry in the
  registry, the callback and the cancellation must leave the gate neither
  blocked for good nor blind. The scheduler thread itself must return within
  its budget even if a handler hangs. No intent may disappear without a
  decision, except behind a budget break.
* **BUY scan, lane cycle.** A worker may finish before its handle is published,
  between the join's timeout and its report, cycles later, or after its guard was
  freed by the TTL. Scans must not overlap; a join must not return another
  cycle's quotes; an outcome (a rate limit) must not be counted twice; the
  guard must come back. The SELL intent of a cycle waits for the BUY scan, and must
  reach the gate before the budget is gone.
* **SELL reservations.** A stop-loss bypasses the order cooldown, so a
  reservation is the only thing between a symbol and a second sale of the same
  shares. It must survive loading, saving, partial fills, pruning; and it must
  end, or the stop-loss of the remaining shares stays refused.
* **SELL watch.** The list is re-sorted and shrinks between cycles, budgets
  are small, and three mechanisms compete for where the walk starts. No holding may
  be left without its stop-loss evaluation for ever, and one that hit the
  rate limit keeps its turn.
* **A day's BUY orders.** Nothing reserves them: three stores written at
  different times (log, dictionary, file) have to remember them through kills, torn
  writes, rotation, eviction, a change of day and a handler that outlives its cycle.
* **Rate limits.** A backoff must stop every request, must not be slept through
  into the same endpoint, must grow while it is of no use and vanish with its
  cause. The throttle computes, sleeps and records without a lock.
* **Alerts, sessions.** Files are rewritten by several processes without a lock,
  and files with fixed names carry what one process wants to say to another.

Every hazard is listed at its line in `PROJECT.json` under `hazards`, with the
properties that cover it.

## 2. Modules

| module | what it is |
|---|---|
| `OrderGate` | the gate, its registry, the handler threads, the clock |
| `SingleWriter` | what the gate promises, abstractly: one order intent is written at a time |
| `OrderGateRefinement` | the mapping: `OrderGate` implements `SingleWriter` |
| `BuyScan` | the BUY scan controller, run guard and prefetch workers |
| `ScanHandoff` | what the controller promises, abstractly: one scan at a time, its outcome to its own cycle, once |
| `BuyScanRefinement` | the mapping: `BuyScan` implements `ScanHandoff` |
| `LaneCycle` | SELL lane, BUY lane and gate under one budget |
| `SellIntents` | one symbol's SELL reservation through cycles, broker, clock, restarts |
| `SellWatch` | the watch's walk over holdings, on both paths |
| `OrderDay` | a day's BUY orders in the log, the state file and the cycle's dictionary |
| `SessionLoop` | ticks, phases, backoffs, degraded mode |
| `Throttle` | the ledger of requests and the threads that race over it |
| `Outbox` | the outbox of alerts |
| `Session` | starts, stops and restarts of a session, its lock and its files |
| `MCOrderGate`, `MCSellWatch`, `MCOrderDay`, `MCThrottle` | the instances for TLC that need definitions |
| `OrderGateProofs`, `BuyScanProofs`, `TimingProofs`, `SellIntentsProofs`, `SellWatchProofs`, `OrderDayProofs`, `SessionProofs`, `OutboxProofs` | TLAPS, see 5 |

In the modules, a comment that begins with `Mutant:` introduces a wrong
variant of the definition below it. No specification uses one: each shows,
when put in place of the right one, that some property notices.

`Session` and `Throttle` prefix the names of their specification (`SessionSpec`,
`ThrottleTypeOK`), because each is extended together with another model by the module of
its proofs: the scripts with the loop they run, the throttle with the lanes it paces.

The modules compose by what they take from each other. `LaneCycle` sees the worker of
`BuyScan` from the scheduler's side only (runs, outcome ready, none), and
reduces the gate to its budget check; that a cycle may end at any moment while
handler or worker goes on is in turn what `OrderGate` and `BuyScan` let happen.
`SellIntents` and `OrderDay` let the gate leave a handler behind (`detached`,
`TimesOut`) exactly where `OrderGate` does; `SellWatch` decides *whether* a signal is
found and `SellIntents` whether it becomes an order, and lets a signal come in
any cycle. `SessionLoop` drives both paths' cycles and calls their phases by the
requests they make; each request goes through `Throttle`. Every model that
restarts the process takes one engine at a time as given: `app.main`'s
account lock, which `Session!Forks` models.

### 2.1 OrderGate

`pc` is the scheduler thread inside `process_ready_intents` and `_run_handler`;
`future`, `task` and `callback` are the handler threads, of which each executor
has one; `registry` is `_DETACHED_HANDLERS`. The remaining budget has the three
ranges the gate distinguishes: above the BUY floor, at or below it, gone. `Tick`
lowers it at any moment.

| action | code (`app/pipeline/order_gate.py`) |
|---|---|
| `StartGate` | a fresh gate: purge of the registry, refusal of the whole batch while a detached handler lives, sorting |
| `BudgetExceeded`, `BuyBudgetLow`, `IntentExpired`, `NoHandler` | the checks of the loop, in its order; the first two break, the others continue |
| `CallInline`, `InlineReturns` | a handler without timeout, on the scheduler thread |
| `CallTimed`, `NoTimeLeft`, `Submit`, `SubmitFails` | `_run_handler` up to `future.result` |
| `ResultReady`, `WaitTimesOut`, `DoneAfterTimeout`, `StillRunning` | the wait, and `future.done()` after it |
| `Register`, `AddCallback`, `ShutdownAndStop` | detaching: entry, callback, cancellation, decisions for the rest of the batch |
| `HandlerStarts`, `HandlerEnds`, `DropWhenDone` | the worker thread: three steps the scheduler can come between |

A `Worker` stands for a thread object and is used again when nothing refers to
it, so that a bounded set of them covers unbounded cycles. Whether an intent has
expired when the gate comes to it is left open. Reasons, payloads
and timing figures of decisions are left out: no code reads them back.

### 2.2 BuyScan

Each region under the controller's lock is one action, and what happens between two
regions is where other threads come in (`ReapDone`/`Reaped`, `Submit`/`Publish`/
`AddCallback`, `JoinWaits`/`JoinTimesOut`/`ReportTimeout`). A scan id stands for
its handle, future and executor. `EndCycle` is possible at any moment after the
start, joined or not, because both clients may be cut short by an exception, and
a cycle may join twice, as the buy phase and `finalize_cycle` do. A worker past
its TTL is one of the two branches of `ReapRunning`: whether the TTL is over is left open.

`ScanHandoff` is the controller as its clients see it: which scan runs, whose outcome the open cycle waits
for, and what its last join brought. Guard, handle, callback and TTL do not occur in it. It is also what
`LaneCycle` takes the worker for.

### 2.3 SellIntents

One symbol; `file` is the saved state, `mem` the dictionary of the current cycle, `h`
the order handler, `holding` and `open` the broker's truth. `OpenCycle` is the
load, the balance inquiry, and on the legacy path `sync_reconciliation_state` and
`prune_stale_sell_intents`, which nothing can interrupt; `Sell` is the guard,
`Submit` the reservation before the request, `BrokerAccepts`/`BrokerRejects` the
broker, `HandlerEnds` the release or the record; `EndCycle` is the prune and save of
`finalize_cycle`. What a handler detached by the gate writes goes into a
dictionary nobody reads (`detached`). The constant `Mishaps` says what else may go
wrong, so that a property can be stated under exactly the conditions it needs.

A take-profit sells half of the position; other triggers that do so are the
same to the reservation. Cooldowns are left out, because they only refuse more and
a signal may come at any time. The file is saved or not; a file truncated by a kill
and the change of day are in `OrderDay`.

### 2.4 SellWatch

A cycle finds one of the lists of `Orders` (sorted by priority scores, which are not
modelled, except whether the top one reaches 1.0) and a limit of at most
`SoftCap`, the part of `build_sell_watch_budget_plan` that depends on earlier
cycles; the rest of that plan (requests left, reserves, degraded mode) may lower
it to anything. `Start` is the cursor plan with anchor and risk-first override,
`Evaluate`, `QuoteFails` and `RateLimited` are the loop's three outcomes for a holding,
`EndLoop` the cursor after the walk, `DeferSell` the SELL signal put off by a rate
limit, `Remember` the process's memory of the walk. `SkipCycle`, `EmptyCycle` and
`ClosedCycle` are the cycles that do not walk. `owed` and `kept` are history variables:
the holding whose evaluation the rate limit prevented, until it is visited again or sold, and what
still brings the next walk to it: the anchor, only the cursor (`Plans`: the plan has used the anchor up, and
`CursorMisses` says when that is not enough), or nothing.

### 2.5 OrderDay

Three stores: `log`, the count of `order_submitted` records of each day with `torn` for
a line that does not parse; `file`, missing, cut or whole, with the day of its
mtime; and the dictionaries, `state` of the running cycle and `orphan` of a handler
that was left behind.

| action | code |
|---|---|
| `Start`, `Crash` | `main()` with the rotation of an oversized log; a kill, perhaps inside an append or inside `write_text` |
| `LoadState` | `load_runtime_state` with its trust rules: a file that cannot be trusted blocks the day's orders |
| `SellExit`, `NoSell` | what the SELL flow leaves for re-entry: the exit, and records that push older ones out of `recent_orders` |
| `StartBuy`, `NoBuy`, `TimesOut` | the gate's BUY handler, and the gate that goes on without it |
| `Clear`, `Refuse` | `run_buy_order_flow` up to its submission: re-entry, order guard, daily limits |
| `Submit`, `SendSucceeds`, `SendFails` | the record in log and dictionary, which comes before the request, and its outcome |
| `SaveSucceeds`, `SaveFails`, `SaveTears` | the one save of a cycle, in place |

An order carries, as history, who still remembers it (`kept`); the
properties say what is promised for which orders. Sizes, prices and the other
reasons not to buy are `Refuse`. A save leaves a handler that outlived its cycle with the
dictionary it was given. `RecentMax` is at least two (the code keeps 50): with one, the
record of a failed send would push its own order's record out.

### 2.6 SessionLoop

`budget` is `api_budget_state`; deadlines are countdowns and timestamps ages, so that
behaviours go on for ever in finitely many states. `Tick` is the scheduler's decision; then
the phases of the sequential cycle in their order, each with the outcomes that
matter here (answered, rate limited, a transient error that raises): `Drained` and
`EnterCycle` (budget gate), `BalanceAnswered` and `BalanceLimited`,
`WatchHoldings` and `WatchLimited`, `OrdersEnd`, `WatchDrain` inside `EnterScan`, `ScanAnswered`
and `ScanLimited`, `BuyTail`, `Finalized`, and the `Sleep` between ticks. `Recover` and
`RateControl` are `api_budget_update_rate_limit_recovery_state` and
`build_runtime_rate_control`. `DoublingAssumption` says that the doublings reach the longest
backoff, as 60 s times 2^4 reach 600 s, and spells out the powers of two, which the provers do
not evaluate and TLC does. The pruned memories are filtered in the code; as they are in the order
of their times, `Recent` keeps the newest of them, as many as still count. The mode scan_only, which scans in the SELL order phase, is
left out.

### 2.7 Throttle

A thread's `Pace` prunes the ledger (`Young` drops the `Stale` entries at its head, where
`_prune_old_timestamps` stops) and computes its sleep, `Send` comes after the sleep
and records; any other thread may run between. `Order` and `Reserved` are
`wait_for_request_slots` and the pair of requests of an order, `NoteRateLimit` is the
adaptive penalty, `Pass` the time that sleeps, requests and pauses take. The threads are the cycle's and
those of order handlers that outlived their gate; the BUY prefetch worker does not use the throttle
(`quote_account.py:377`). A hashkey request that is repeated after a transient network error
(`token.py:322-333`) would be a third request of its order; it is left out, and `PairFits` does not speak of it.

### 2.8 LaneCycle

One budget (`left`) for the SELL lane, the BUY lane and the gate. With overlap
the worker starts before the SELL lane, and `StartJoin` leaves `Floor` of the budget;
without, `StartFetch` takes the earlier of its own deadline and the budget's. A
factory may raise: `SellRaises` and, with overlap, `FactoryRaises` end the cycle
without gate, which leaves a worker nobody has joined.

### 2.9 Outbox

`Notify` takes an alert and reads the file, `Resend` tries what was read, `WriteTmp` and
`Swap` write the file by way of the *one* temporary file all notifiers share, then the
alert itself is sent, and on failure `ReadToEnqueue`, `WriteTmp` and `Swap` append
it. A send that fails may have reached the channel all the same (`MayReach`: the answer came too late or
was not understood), so `arrived` counts copies in the channel and `answered` the ones Slack's answer
confirmed. `Mishaps` are kills, failing writes and reboots, which restart
`time.monotonic`, the clock of the entries' stamps.

### 2.10 Session

Per start: the shell (`shell`), its helper process, its engine. Between them: the
lock, the ready file, the helper's pid file, the engine's pid file, the names
of which are the same for all starts. `AcquireLock` to `RemovesPid` are
`run_session.sh` in its order, `Tries` to `Unlocks` are `hold_lock`,
`LooksAtLock` is `inspect_lock`, which takes the lock to see whether it is free;
`FindsEngine` to `RestartTerms` are the stop and the restart by hand. `Killed`,
`HeartbeatFails` and `PowerFails` are what goes wrong. `crossed` is a history
variable: a start took the ready file of another living start, or a helper released
its lock on a failed heartbeat. The properties are promised while it is false,
and section 4 says what the code does otherwise.

## 3. Runs

Times are with two workers on a small machine.

| run | module, cfg | instance | shows |
|---|---|---|---|
| `order_gate` | `MCOrderGate`, `OrderGate.cfg` | a sell and an older buy, every subset as batch, gates with and without timeouts and with all handlers or SELL only, following each other; two threads; 233,000 states, 145 s | `OneWriter`, `DetachedIsRegistered`, `PriorityRespected`, `EveryIntentIsAccounted`, the refinement of `SingleWriter`, `GateReturns`, `BlockingEnds` |
| `buy_scan` | `BuyScanRefinement`, `BuyScan.cfg` | three scans, all three uses, `submit` may fail; 140,000 states, 30 s | `OneScanAtATime`, `OutcomeIsKept`, the refinement of `ScanHandoff` (which `JoinIsOwn` and `DeliveredOnce` are parts of), `GuardHasOwner`, `GuardIsReleased` |
| `lane_cycle` | `LaneCycle`, `LaneCycle.cfg` | a budget of 8 with a floor of 3, cycles of every kind; 2,300 states, 2 s | `SellSurvivesTheScan`, `CycleEnds`, `ScanStartsAgain` |
| `sell_intents` | `SellIntents`, `SellIntents.cfg` | 5 shares, up to 6 with buys, both paths, failing balance inquiries; 51,000 states, 3 s | `AcceptedIsReserved`, `NeverOversells` |
| `sell_intents_ends` | `SellIntents`, `SellIntentsEnds.cfg` | 4 shares, legacy path, sales by hand, lost answers, failed saves, kills, several orders a day; 11,000 states, 3 s | `ReservedWithinHolding`, `ReservationEnds` |
| `sell_intents_lane` | `SellIntents`, `SellIntentsLane.cfg` | 4 shares, lane path, nothing goes wrong | `ReservationEnds` is violated, see [findings](#4-findings) |
| `sell_watch` | `MCSellWatch`, `SellWatch.cfg` | three holdings that swap places or shrink to two, both paths, one kill or failed save; 109,000 states, 85 s | `RetryIsFirst`, `EveryHoldingIsWatched` |
| `order_day` | `MCOrderDay`, `OrderDay.cfg` | two symbols, three orders, a day and its morrow, one mishap; 2 min | `DailyLimit`, `SymbolLimit`, `CooldownHolds`, `StopLossHolds`, `BlockedDayStaysBlocked` |
| `session_loop` | `SessionLoop`, `SessionLoop.cfg` | backoffs of 2, 4, 5 units, degraded mode after two hits or three cycles; 243,000 states, 35 s | `RequestsWait`, `BalanceIsNotDrained`, `HitsEscalate`, `SellChecksResume`, `BuyScansResume` |
| `throttle` | `MCThrottle`, `Throttle.cfg` | two threads, three requests in a window of six ticks, a penalty; 887,000 states, 30 s | `WindowBound`, `SpacingHolds`, `NoExcessAlone`, `PairFits` |
| `outbox` | `Outbox`, `Outbox.cfg` | two notifiers, two attempts, two mishaps; 528,000 states, 95 s | `NothingForgotten`, `NotSentAgain`, `OutboxDrains` |
| `session` | `Session`, `Session.cfg` | two starts, stops and restarts by hand, one mishap; 348,000 states, 90 s | `OneSession`, `LockComesFree` |

### 3.1 Bounds, and why they are enough

* **Intents, threads.** The gate handles one intent at a time and compares two
  of them; larger batches are the proofs' affair, which hold for any. Two threads are
  the one being waited for and one detached before; that there is never a third live
  one is what `OneWriter` says, for any number of threads by proof.
* **Scans.** Three: the stale or abandoned one, the one after it, and one
  more to take its guard. Ids are used again, so cycles are unbounded.
* **Shares.** Five are odd (the half is rounded down) and leave room for a half,
  a half of the rest, and a partial fill of each; the proofs lift the bound.
  `MaxHolding` bounds what buys raise the position to. Ages are capped at the longer TTL,
  beyond which nothing distinguishes them; the TTLs are one and two ticks,
  since only their order matters.
* **Holdings.** Three, the least at which half of the list is neither one
  nor all; a swap and a sale are the two ways a list changes. The streak is
  capped at two, the last value the plan reads. `MaxMishaps` bounds kills and failed
  saves because each makes a fresh start and would hide the effects of the one before.
* **A day's orders.** `MaxOrders` is one above the daily limit and above what
  `recent_orders` keeps, so that both limit and eviction are reached; the `Horizon` is one
  tick into the second day. One mishap (`MaxMishaps`): the proofs of all five properties lift
  that bound and the others.
* **Loop.** The backoff doubles once and then meets its maximum; the window of
  hits is longer than the first backoff and shorter than the longest. Cycles are unbounded,
  and the proofs hold for any intervals and any number of doublings.
* **Throttle.** `Limit` is one above the pair of an order; the window holds exactly `Limit`
  requests at the least spacing, as `1 / limit` makes it in the code. The proofs lift the number
  of threads, the limit and all times.
* **Lane cycle.** The budget exceeds floor plus deadline, so that a fetch may end before or
  after the budget does; the proof lifts the bound.
* **Outbox.** One alert that waits and any number of others; `MaxTime` is one beyond the TTL. Two attempts, where
  the code has three, are one that leaves the entry in the file and one that exhausts it. The
  safety proofs hold for any alerts, notifiers and attempts.
* **Session.** Two starts: one in session and one that comes, of which each may be repeated; the
  proof of `OneSession` is for any number of them and of mishaps.

### 3.2 Fairness, and why the code justifies it

* **OrderGate**: the scheduler thread takes its steps, the clock runs the
  budget down, and a finished future runs its callbacks (the executor does so on
  its own thread). *Nothing* is assumed about how long a handler takes, so
  `GateReturns` holds with a handler that hangs for ever.
* **BuyScan**: workers start, end and run their callbacks, because each of
  their requests has a timeout and a bounded number of attempts; the scheduler
  thread finishes what it is at.
* **LaneCycle**: the scheduler thread runs and time passes; overlapping cycles with BUY due come
  again and again (strong fairness: the loop offers them whenever it is idle, but not every
  cycle is one). Nothing is assumed about the worker; `ScanStartsAgain` has its end as a premise.
* **SellIntents**: cycles keep coming (the session loop catches what a cycle
  raises), requests end, and balance inquiries and saves do not fail for ever
  (strong fairness of `OpenCycle` and `EndCycle`). Nothing is assumed about fills:
  an order may stay open all day, and `ReservationEnds` then asks for nothing.
* **SellWatch**: cycles with a budget keep coming, since the request window
  refills every second and an empty one is recomputed each tick; a holding
  that can be evaluated again and again is evaluated some time, that is, its quote
  does not fail every time. Nothing is assumed about the size of budgets.
* **SessionLoop**: the loop's thread runs (weak fairness of `Next`). That trouble ends is a premise
  of the two liveness properties, not an assumption of the specification.
* **Outbox**: a notifier that was called comes to its end, as network calls time out, and alerts of
  some kind keep being sent; an outbox nobody resends has no other consumer.
* **Session**: the helper wakes up every five seconds, the shell that watches its engine too, and
  its trap waits for nothing without a bound. No engine is assumed to end, nobody to start or stop.
* **OrderDay** and **Throttle** have safety properties only.

## 4. Findings

Disagreements between the code and what its comments, docstrings or plans say. The
first is a run whose property TLC finds violated; each of the others is described with
the place in the models that lets it happen, or the condition that a property states so as
to exclude it.

1. `sell_intents_lane` (`src/app/main.py:892`): the lane path never calls
   `sync_reconciliation_state`, and `prune_stale_sell_intents` keeps each
   reservation whose last outcome is `succeeded`. After a filled partial sell the
   reservation stays all day, and a stop-loss of the remaining shares is refused.
   `runtime_state.py:683-684` relies on reconciliation to clear it.

**SELL reservations** (`SellIntents`)

* Any exception of `sell_market` releases the reservation (`sell_flow.py:597`), also
  a timeout after the broker accepted; `runtime_state.py:680-682` says that an
  accepted order keeps it. With `Mishaps = {"ambiguous"}` `AcceptedIsReserved` is violated.
* Loading rebuilds a pending entry without its trigger (`runtime_state.py:254`),
  before reconciliation can carry it, as `reconciliation.py:199-200` means to; an
  emergency reservation ages with the slow TTL.
* A rejection that a detached handler receives after its cycle was saved is lost
  (`finalize.py:713`); the file still says `submitted`, and no TTL releases what
  `reconciliation.py:207-210` wants released. With `"detach"` among the mishaps
  `ReservationEnds` is violated.
* With one trigger per symbol and day switched off, a second order that is
  rejected makes the last outcome `failed`, and the TTL then releases the first
  order's reservation too (`runtime_state.py:727`). The proofs assume `OneTrigger`.
* A sale by hand between two syncs is taken for the fill of an open order
  (`reconciliation.py:176`), whose reservation shrinks although it is still open.

**SELL watch** (`SellWatch`)

* After one partial walk the plan allows half of the holdings, so that the next walk is
  partial too, and with a risky top holding each of them starts at index 0
  (`sell_watch_phase.py:155`): of four holdings the second half is never evaluated, where
  `sell_watch_phase.py:275` promises the next tick. `EveryHoldingIsWatched` has `~risky`.
* On the lane path an empty budget clears the retry anchor and leaves the
  cursor behind it (`runtime_adapters.py:297`): the rate-limited holding goes to the end of
  the walk. `RetryIsFirst` speaks of the legacy path only.
* On the legacy path, too, the anchor is used up by a cycle that does not evaluate its holding. With a closed market
  the plan clears it (`sell_watch_phase.py:170-171`), and it is restored under `market_open` only (`:263-269`,
  `ClosedCycle`). With an open one it is restored for a limit of 0, but not when the walk is broken off before its first
  quote (`:305-365`, `EndLoop` with nothing visited). The cursor then still points at the holding; a re-sorted list, a
  list that was empty in between, or a risk-first override loses it, and the holding waits for the rotation.
  `RetryIsFirst` states this as `kept # "nothing"`. The same happens to the anchor of a cycle that is killed or not saved.

**Order gate, BUY scan, lane cycle**

* A gate that stops for its budget leaves the intents behind the first one
  without a decision (`order_gate.py:213`; `StopAt`, `TellNext`), where
  `docs/lane_pipeline_hardening_plan.md:44` wants an explicit decision for each; so does the
  re-check of the budget before the wait (`order_gate.py:288`).
  `EveryIntentIsAccounted` says that nothing else drops an intent.
* A handler that returns between the wait's timeout and `future.done()` is
  recorded as failed, its order sent (`order_gate.py:299-304`; `DoneAfterTimeout`).
* A join reports `timeout` for a worker that is done, when the worker's own
  network read raised `TimeoutError`, the class the wait raises; the lane then
  says that the worker is still running (`buy_lane.py:235`, `:580-581`;
  `JoinTimesOut`).
* `submit` that raises leaves the run guard taken for the life of the process
  (`buy_lane.py:187`; `lost`, the proviso of `GuardHasOwner` and `GuardIsReleased`).
* With overlap, a BUY factory that raises ends the cycle before the gate, and the cycle's
  SELL intent is lost with it (`LaneCycle!FactoryRaises`); without overlap the same exception is caught.
* Without overlap, a SELL intent made late in the budget waits for the whole prefetch and is
  dropped as `budget_exceeded` (`Patience` in `SellSurvivesTheScan`).

**A day's orders, the loop, the throttle**

* `log_order_event` returns False when nothing was written and no caller asks
  (`order_log.py:441`); the rotation at start-up takes today's records away after a restart in
  the day (`main.py:1358`). `DailyLimit` states both as what the limit is exceeded by.
* `throttle.py:235-238` "enforce the floor globally": two threads that compute together send
  together; `WindowBound` says how far that goes, `SpacingHolds` what holds for a request nobody crosses. Two
  threads that prune together may take from a deque what the other has looked at
  (`throttle.py:77`); the model prunes in one step.
* In the mode scan_only the scan runs inside the SELL order phase, without the drain that
  `buy_scan_phase.py:124` makes after a backoff of the same cycle.

**Alerts** (`Outbox`)

* `resend_pending` writes back what it read (`slack_outbox.py:145`): with two notifiers an alert
  gets lost, is sent again after Slack confirmed it or is tried more often than `OUTBOX_MAX_ATTEMPTS`. `NothingForgotten` and
  `NotSentAgain` are promised while no two overlap (`alone`); that entries leave the file holds regardless.
* A send whose answer is lost, or is no JSON, counts as failed although the message is in the channel (`slack.py:266-276`,
  `:408-413`, `:421`; `slack_outbox.py:152-159`), and is sent again: without any mishap an alert may appear up to
  `OUTBOX_MAX_ATTEMPTS + 1` times, which `NotSentAgain` has as its bound (`Fails`, `SendFails`).
* The stamps of entries are those of `time.monotonic` (`slack.py:291`) and outlive a reboot, after which
  an entry may be older than its TTL and alive (`IsAlive`).

**Session scripts** (`Session`). In each of these cases `app.main`'s account lock (`main.py:1342`) still
keeps one engine.

* Of two simultaneous starts, the one that was refused may see the other's ready file
  (`run_session.sh:513`), remove it, and run without the lock, while the other waits in vain or runs too;
  `run_session.sh:9` and `docs/OPERATIONS.md:138` say that the lock prevents it. This is the first way
  to `crossed`.
* `inspect_lock` takes the lock in order to look (`session_lock.py:133`), and `hold_lock` tries once: a look, or another
  start's look, may refuse a start, and two starts may refuse each other.
* A refused start has overwritten the helper's pid file (`run_session.sh:509`): the ending session's `release_lock`
  then tells a dead process, or the helper of a start under way. `LockComesFree` holds by the helper's look at its owner.
* `_on_exit` and `stop_session.sh` remove the engine's pid file after the lock may have been handed on, and
  with it perhaps the next session's.
* The heartbeat and `update` read, change and write the metadata without a lock (`session_lock.py:102-110`), so that
  the engine's pid may be missing from it (`MayName`).
* A heartbeat that cannot be written ends `hold_lock` and releases the lock under a running session
  (`HeartbeatFails`, the second way to `crossed`).
* Under `set -e` any failing command between the fork and the stop ends the shell and leaves its engine (`Aborts`).

## 5. What is proved

TLAPS checks every proof to its leaves; no step is omitted, and nothing is assumed
except the `ASSUME`s of the modules, which TLC evaluates in the runs.

**OrderGateProofs**, for any intents, priorities and number of threads:
`TypeCorrect`, `OneWriterAlways`, `DetachedIsRegisteredAlways`, `Refinement`,
`PriorityRespectedAlways`, `EveryIntentIsAccountedAlways`.
`OneWriter` is not inductive: it says nothing of how the scheduler knows that no
handler is alive when it starts one. The invariant `IInv` adds that, by control point:
outside a wait no thread is alive, during a wait only the awaited one
(`NobodyElseWrites`); between gates a live thread is in the registry, and from
`Register` on the awaited one is (`LiveIsKnown`); the locals fit the control point
(`LocalsFitPc`), which the refinement needs to map the intent being written. For order and
accounting a second invariant, `Accounts`, adds that what is still queued does not go before what was
handled (`NothingOvertakes`) and that the intent of a live handler is not yet processed (`LiveIsUndecided`);
that a batch can be sorted is `SortAssumption`, which TLC evaluates. The refinement
maps each action to a step of `SingleWriter` or to a stutter (`RefinementStep`), with
the invariant on both sides of the step.

**BuyScanProofs**, for any number of scans: `TypeCorrect`, `OneScanAlways`, `JoinsAlways`, `DeliveredOnceAlways`,
`OutcomeKeptAlways`, `GuardOwnedAlways`, `HandoffRefinement`. The invariant relates workers, handle and the scheduler's control point:
a live worker is the active one, with its callback to come, or the one about to be published (`LiveIsKnown`); a scan
being started holds the guard and is known to nobody else (`StartIsOwn`); from publication on the controller keeps
only this cycle's scan (`CycleIsOwn`); once an outcome was handed out none is left (`HandedOut`), and until then
it is to come or kept for the join (`OwnIsKept`). The refinement maps each of the controller's lock regions, and each step of a worker,
to a step of `ScanHandoff` or to a stutter (`RefinementStep`).

**TimingProofs**, about the two models in which time is counted.

* `LaneCycle`, for any budget, floor and deadline: `TypeCorrect` and `SellSurvives`. The invariant follows the
  intent from its birth (`Fresh`) through the waits: a join has exactly the floor left when it times out (`Joining`),
  a fetch or a factory at most its own time (`Fetching`, `Building`), and only an overlapping cycle owns a worker (`Owned`).
* `Throttle`, for any number of threads, limits and times: `ThrottleTypeCorrect`, `WindowBoundAlways`,
  `SpacingHoldsAlways`, `NoExcessAloneAlways`, `PairFitsAlways`. `WindowBound` is a count over a whole window, which no
  single step shows to be kept. The invariant makes it local (`Spread`): the requests that reached the gateway can be
  attributed to threads such that each thread's own lie `Interval` apart, since a thread waits out the interval
  after the last request of anybody, its own included. A lemma then counts: two requests of one thread cannot fall into the
  same interval, the window has at most `Limit` intervals, so it holds at most `Limit` requests of each thread
  (`SpreadIsBounded`). The ledger agrees with the gateway as far as the window goes and is sorted
  (`Entered`, `NoneLater`), and `Careful` says what a sleeping thread may rely on while nobody crosses it: the spacing it
  computed (`SpacedOut`), the entry that will have left the window (`Within`), the place of its order's second request (`Roomy`).

**SellIntentsProofs**, for every position, bound and TTL:

* `TypeCorrect` and `ReservedWithinHoldingAlways` hold whatever goes wrong, a detached handler
  included. The type invariant is strengthened by `GuardedFits`: what a guarded handler is
  about to reserve still fits the position its cycle saw.
* `AcceptedIsReservedAlways` and `NeverOversellsAlways` are proved under
  `Tolerated`: of the mishaps only buys and failing balance inquiries, and one trigger per symbol and
  day. Each of the other mishaps alone, and likewise `OneTrigger = FALSE`, makes TLC
  violate both invariants on four shares, so the condition is what the code
  tolerates and not a convenience. The invariant adds
  that a reservation's last outcome is never a failure, so that no pruning
  releases it (`LastIsLive`), that the order in hand is part of the reservation (`OwnReservation`), and the arithmetic
  heart (`Covered`): the shares open at the broker plus those it has filled since the last sync
  are reserved, which is what `Reconcile` preserves when it subtracts
  the drop of the position, and why a buy between two syncs only ever leaves
  too much reserved.
* A lemma for each ledger operation says what it does to the quantity; the
  steps of the invariant cite only these.

**SellWatchProofs**, for any lists of holdings: `TypeCorrect`, which is the cursor staying within a list that
shrinks (`WalkFits`), and `RetryIsFirstAlways`, from `OwedIsKept`: while `kept` is not "nothing", the owed holding is
written down between any two steps (`WrittenDown`, `Keeps`), as the anchor, under the cursor, or as the first position of a walk that has not
begun. `PlanKeeps` is the step that matters: a plan begins at the owed holding whichever of the first two keeps it. What makes `kept` "nothing" is a
premise of the theorem and a finding of section 4.

**OrderDayProofs**, for any limits, symbols, days and number of mishaps: `TypeCorrect`, `BlockedDay`, `LimitIsKept`,
`SymbolLimitKept`, `CooldownKept`, `StopLossKept`. The
invariant says that every dictionary and the file are well formed and count no more than was ordered (`Stores`, `Sound`,
`Counted`), and that on a blocked day the running dictionary or whatever the next load may find is untrusted
(`Blocking`). `Daily` then counts: the orders of today are at most its records, those never written and those archived, and a handler
that was cleared and has not submitted yet still finds room for its record.

The last three are about what is remembered of an order and where, and their invariant (`Memory`) goes through the places: an
order or exit that counts as kept in a dictionary or in the file is in the dictionary of the running cycle, if that is
trusted (`InDict`), in the one a handler was left with (`InOrphan`), in what the next load will find (`OnDisk`), and in what
a save is about to write (`Written`); `Recalls` says what that means (it counts for the symbol, it is among the recent records,
its exit is noted), and the lemmas about it say which changes of a dictionary it survives, pushing out the
oldest record among them. `Cleared` is then the gap a test would miss: between a
handler's check and its submission nothing is recorded that would have refused it.

**SessionProofs**, about the loop and the scripts around it.

* `SessionLoop`, for any intervals and backoffs: `CooldownIsKept`, `RequestsWaitAlways`, `HitsEscalateAlways`,
  `LoopTypeCorrect`. The invariant of
  the first (`Cooling`) follows the source: while a balance's cooldown runs, its source is on its way from the limited
  cycle to the budget the loop decides by, whatever that cycle's other hits were, so that no later cycle begins in it. That of
  the other two (`Waiting`) says at which points of a cycle a backoff may be running at all, and whose (`Quiet`), and that
  what is owed never exceeds what the next hit would bring, except between a cycle without a hit and the end of its
  sleep (`Escalating`). The last needs to know at which phase a cycle may have noted how many hits (`NotesFit`: never more than
  three, since a worker that nobody joined and a scan in line exclude each other), and that the memories of
  hits and errors are trimmed to their length by every operator that adds to them (`NotedType`).
* `Session`, for any number of starts and mishaps: `ScriptsTypeCorrect` and `OneSessionAlways`. `OneSession` speaks of engines,
  its reason is in the helpers: the lock is taken exactly by the one that holds it (`LockIsTheHelpers`), a ready file
  that is believed belongs to a helper that has the lock (`ReadyIsAnnounced`), and while nobody has crossed anybody, a shell past its ready file
  relies on its own living helper, which is told to end only when the engine is gone (`Alone`).

**OutboxProofs**, for any alerts, notifiers and mishaps: `TypeCorrect`, by which no entry of the file was tried more often
than `OUTBOX_MAX_ATTEMPTS`; `NothingForgottenAlways`; `NotSentAgainAlways`. The invariant (`InOrder`) accounts, while notifiers do not
overlap and nothing fails, for each alert at each step of the one notifier at work: those still to try, those
it will write back, and the one in its hand together make up what was neither confirmed nor has run out of attempts or time, each once,
with its true count of attempts (`Hand`, `Carries`). From it follows what a step may send (`Sends`), and from that how many copies of
an alert there can be (`Copies`): one for its own send and one for each attempt.

**Only model-checked**: all liveness (`GateReturns`, `BlockingEnds`, `GuardIsReleased`, `ReservationEnds`,
`EveryHoldingIsWatched`, `SellChecksResume`, `BuyScansResume`, `CycleEnds`, `ScanStartsAgain`, `OutboxDrains`, `LockComesFree`), since
fairness and `ENABLED` are beyond the prover. Every invariant and action property of the runs that pass is proved. So are the type
invariants.

## 6. What is not modelled

* In the modelled parts: payloads, reasons, prices, log and alert texts; the exact request reserves of the
  watch's plan and the priority scores behind its order; cooldowns of sells; the contents of the session lock's metadata
  and the helper processes of a session besides its lock; the mode scan_only.
* **PnL brake and regime, autotuner, Slack bot and control, rebalancing**: files written by one side and read by the
  cycle, with expiry and confirmation; within reach, and next in the plan. What they do to the modelled parts is in the
  models as a free choice (`riskOff` in `OrderDay!Reentry`, `Refuse`, exits by `"daily_pnl_brake"` and `"rebalance_sell"`).
* **Scanner and strategy**: numeric rules over market data, a function from a snapshot to a candidate list, without
  state of their own and with a result every model leaves open.
* **Broker clients, authentication and settings**: HTTP and configuration; of the broker's clients the pair of requests of an order is
  in `Throttle`, their outcomes are actions of `SellIntents`, `OrderDay` and `SessionLoop`.
* **Portfolio and reporting, dashboard and orchestrator, overseas trading, research, backtests and tools, design assets**:
  read-only views, dry runs and offline programs, which are by far the larger part of the repository's lines; none of them
  decides about a live domestic order.

## 7. Plan

Done: all modules of section 2, with the proofs of section 5. What is left, in the order of what an error would cost:

1. **PnL brake**: trip, expiry and manual override across restarts and the change of day, composed with `OrderDay`'s
   `riskOff`.
2. **Rebalancing**: its pairs of sell and buy over cycles, on top of `SellIntents` and `OrderDay`.
3. **Autotuner approval** and **control commands**: proposals that expire, are approved twice, or are applied to settings that
   have changed.
4. **Session**: the worker, wake guard and Slack bot supervisor of a session, which use pid files in the way the engine does.
5. Proofs: nothing of the runs' safety is open. Each new component gets its invariants proved like these; the liveness of the
   present ones stays with TLC.

------------------------------ MODULE SellWatch ------------------------------
(***************************************************************************)
(* The SELL watch: which holdings a cycle quotes and evaluates             *)
(* (app/core/sell_watch_cursor.py, app/core/sell_watch_budget.py and the   *)
(* loops of both paths: app/runtime/cycle_phases/sell_watch_phase.py and   *)
(* app/pipeline/runtime_adapters.py).                                      *)
(*                                                                         *)
(* Every cycle sorts the holdings by priority and walks them from a saved  *)
(* cursor, as far as the request budget lets it.  A holding whose quote    *)
(* hit the rate limit is the anchor of the next cycle; after a partial     *)
(* walk a risky holding pulls the cursor back to the top of the list.      *)
(* Cursor and anchor live in the runtime state, which is saved when the    *)
(* cycle ends; the budget's memory of partial walks lives in the process.  *)
(***************************************************************************)
EXTENDS Naturals, Sequences

CONSTANTS
  Orders,      \* the lists of holdings, by priority, a cycle may find
  MaxHoldings, \* the length of the longest
  NoSymbol,    \* None
  Modes,       \* the paths the process may run: "legacy", "lane"
  Risks,       \* whether the top holding's priority score may reach 1.0
  MaxMishaps   \* how many kills and failed saves TLC follows

Symbol == UNION {{o[k] : k \in DOMAIN o} : o \in Orders}

ASSUME OrdersAssumption ==
  /\ MaxHoldings \in Nat \ {0}
  /\ \A o \in Orders :
       /\ o \in Seq(Symbol) /\ o # << >> /\ Len(o) <= MaxHoldings
       /\ \A j, k \in DOMAIN o : o[j] = o[k] => j = k
  /\ NoSymbol \notin Symbol
ASSUME SettingsAssumption ==
  /\ Modes \subseteq {"legacy", "lane"}
  /\ Risks \subseteq BOOLEAN
  /\ MaxMishaps \in Nat

VARIABLES
  mode,     \* which path the process runs
  pc,       \* between cycles, in the loop, or after it
  file,     \* the saved runtime state
  mem,      \* the runtime state of the current cycle
  api,      \* api_budget_state: what the process remembers of past cycles
  order,    \* prioritized_positions of the last cycle that looked at the holdings
  risky,    \* its top priority score was 1.0 or more
  start,    \* sell_watch_cursor_plan.start_index
  limit,    \* sell_watch_budget_plan_limit
  visited,  \* visited_holdings
  hit,      \* the loop met the rate limit
  seen,     \* sell_watch_evaluated_symbols
  owed,     \* history: the holding whose evaluation the rate limit prevented
  kept,     \* history: what still brings the next walk to it, if anything does
  mishaps   \* how many kills and failed saves there were

list == <<order, risky>>
walk == <<start, limit, visited, hit, seen>>
turn == <<owed, kept>>
vars == <<mode, pc, file, mem, api, list, walk, turn, mishaps>>

Pressures == {"none", "sell_watch", "other"}   \* last_rate_limit_source
State     == [cursor : 0..(MaxHoldings - 1), retry : Symbol \cup {NoSymbol}, partial : BOOLEAN]
Budget    == [partial : BOOLEAN, streak : 0..2, limited : Pressures]
Default   == [cursor |-> 0, retry |-> NoSymbol, partial |-> FALSE]
NewBudget == [partial |-> FALSE, streak |-> 0, limited |-> "none"]

TypeOK ==
  /\ mode \in {"legacy", "lane"}
  /\ pc \in {"idle", "loop", "done"}
  /\ file \in State /\ mem \in State
  /\ api \in Budget
  /\ order \in Orders \cup {<< >>}
  /\ risky \in BOOLEAN
  /\ start \in 0..Len(order)
  /\ limit \in 0..Len(order)
  /\ visited \in 0..limit
  /\ hit \in BOOLEAN
  /\ seen \subseteq Symbol
  /\ owed \in Symbol \cup {NoSymbol}
  /\ kept \in {"anchor", "cursor", "nothing"}
  /\ mishaps \in 0..MaxMishaps

Init ==
  /\ mode \in Modes
  /\ pc = "idle"
  /\ file = Default /\ mem = Default
  /\ api = NewBudget
  /\ order = << >> /\ risky = FALSE
  /\ start = 0 /\ limit = 0 /\ visited = 0 /\ hit = FALSE /\ seen = {}
  /\ owed = NoSymbol /\ kept = "nothing"
  /\ mishaps = 0

-----------------------------------------------------------------------------
(* build_sell_watch_budget_plan.  The pressure of past cycles caps the     *)
(* walk; the remaining requests and quotes, the reserves of the execution  *)
(* and of a due BUY scan, a full request window and the cap of degraded    *)
(* mode may lower that cap to anything, down to an empty budget.           *)
Lesser(a, b) == IF a < b THEN a ELSE b
Share(n, parts) == (n + parts - 1) \div parts

SoftCap(n) ==
  CASE api.limited = "sell_watch" -> 1
    [] api.limited = "other" -> IF n <= 3 THEN 1 ELSE 2
    [] api.limited = "none" /\ api.partial ->
         IF api.streak >= 2 /\ n >= 4 THEN Share(n, 3) ELSE Share(n, 2)
    [] OTHER -> n

Limits(n) == 0..SoftCap(n)

-----------------------------------------------------------------------------
(* build_sell_watch_cursor_plan: the anchor, if it is still held; the top, *)
(* if the last walk was partial and the top is risky; else the cursor.     *)
Anchored(o) == \E k \in DOMAIN o : o[k] = file.retry

RecentPartial == api.partial \/ (mode = "lane" /\ file.partial)

Start(o, top) ==
  IF Anchored(o) THEN (CHOOSE k \in DOMAIN o : o[k] = file.retry) - 1
  ELSE IF top /\ RecentPartial THEN 0
  ELSE file.cursor % Len(o)

(* The holding visited after n others. *)
Position(n) == order[((start + n) % Len(order)) + 1]

(* Mutant: the anchor is not restored when the budget is empty. *)
RetryAfterPlan_Dropped(o, lim) == NoSymbol

(* The plan clears the anchor; the legacy path restores one it used when   *)
(* the budget is empty.                                                    *)
RetryAfterPlan(o, lim) ==
  IF mode = "legacy" /\ lim = 0 /\ Anchored(o) THEN file.retry ELSE NoSymbol

(* History.  The turn of a holding is owed until the holding is visited    *)
(* again or sold, or another becomes the anchor.  A plan that gives no     *)
(* anchor back leaves the turn to the cursor; with no anchor the next plan *)
(* finds the cursor pointing at another holding if the list was sorted     *)
(* anew, and ignores it if the top of the list comes first.                *)
Owes(s) == owed' = s /\ kept' = "anchor"

Visits(s) ==
  IF s = owed THEN owed' = NoSymbol /\ kept' = "nothing" ELSE UNCHANGED turn

CursorMisses(o, top) == o # order \/ (top /\ RecentPartial)

Plans(o, top, restored) ==
  IF owed \notin {o[k] : k \in DOMAIN o} THEN owed' = NoSymbol /\ kept' = "nothing"
  ELSE /\ owed' = owed
       /\ kept' = IF kept = "nothing" \/ (kept = "cursor" /\ CursorMisses(o, top)) THEN "nothing"
                  ELSE IF kept = "anchor" /\ restored THEN "anchor" ELSE "cursor"

(* A cycle with a due SELL check, in market hours, plans its walk. *)
OpenCycle(o, top, lim) ==
  /\ pc = "idle"
  /\ pc' = "loop"
  /\ order' = o /\ risky' = top
  /\ start' = Start(o, top)
  /\ limit' = lim
  /\ visited' = 0 /\ hit' = FALSE /\ seen' = {}
  /\ mem' = [file EXCEPT !.retry = RetryAfterPlan(o, lim)]
  /\ Plans(o, top, lim = 0)
  /\ UNCHANGED <<mode, file, api, mishaps>>

CanVisit == pc = "loop" /\ visited < limit /\ ~hit

(* The quote of the next holding comes back, and the holding is evaluated. *)
Evaluate(s) ==
  /\ CanVisit /\ s = Position(visited)
  /\ visited' = visited + 1
  /\ seen' = seen \cup {s}
  /\ Visits(s)
  /\ UNCHANGED <<mode, pc, file, mem, api, list, start, limit, hit, mishaps>>

(* It fails otherwise than by the rate limit: the holding is passed over. *)
QuoteFails ==
  /\ CanVisit
  /\ visited' = visited + 1
  /\ Visits(Position(visited))
  /\ UNCHANGED <<mode, pc, file, mem, api, list, start, limit, hit, seen, mishaps>>

(* It hits the rate limit: the holding becomes the anchor, the walk ends. *)
RateLimited ==
  /\ CanVisit
  /\ visited' = visited + 1
  /\ hit' = TRUE
  /\ mem' = [mem EXCEPT !.retry = Position(visited)]
  /\ Owes(Position(visited))
  /\ UNCHANGED <<mode, pc, file, api, list, start, limit, seen, mishaps>>

(* Mutant: every walk begins where the last one did. *)
NextStart_Stuck == start

(* sell_watch_cursor_after *)
NextStart == IF visited > 0 THEN (start + visited) % Len(order) ELSE start

(* The loop is over, or (legacy) the budget breaks it before the limit.    *)
(* The lane path returns before all of this when its limit is 0.           *)
EndLoop ==
  /\ pc = "loop"
  /\ CanVisit => mode = "legacy"
  /\ pc' = "done"
  /\ mem' = [mem EXCEPT !.cursor = IF mode = "lane" /\ limit = 0 THEN @ ELSE NextStart,
                        !.partial = hit \/ visited < Len(order)]
  /\ UNCHANGED <<mode, file, api, list, walk, turn, mishaps>>

(* Legacy: a SELL signal was found before the rate limit was hit.  Its     *)
(* order is put off, and the signal's holding takes the anchor's place.    *)
DeferSell(s) ==
  /\ pc = "done" /\ mode = "legacy"
  /\ hit /\ s \in seen /\ mem.retry \notin seen
  /\ mem' = [mem EXCEPT !.retry = s,
                        !.cursor = (CHOOSE k \in DOMAIN order : order[k] = s) - 1]
  /\ Owes(s)
  /\ UNCHANGED <<mode, pc, file, api, list, walk, mishaps>>

(* finalize_cycle: what the process remembers of the walk, and of the rate *)
(* limit, which other requests may hit too and which a backoff outlives.   *)
Recovered(l) == l \in {"none", "other", api.limited}

Remember ==
  \E l \in Pressures :
    /\ IF hit THEN l # "none" ELSE Recovered(l)
    /\ api' = [partial |-> mem.partial,
               streak |-> IF mem.partial THEN Lesser(api.streak + 1, 2) ELSE 0,
               limited |-> l]

(* The cycle's own variables end with it. *)
Forget ==
  /\ pc' = "idle" /\ mem' = Default
  /\ start' = 0 /\ limit' = 0 /\ visited' = 0 /\ hit' = FALSE /\ seen' = {}

EndCycle ==
  /\ pc = "done"
  /\ Remember
  /\ file' = mem
  /\ Forget
  /\ UNCHANGED <<mode, list, turn, mishaps>>

(* A cycle without a SELL watch: the check is not due, the balance inquiry *)
(* failed, or (lane) the market is closed.                                 *)
Recover == \E l \in Pressures : Recovered(l) /\ api' = [api EXCEPT !.limited = l]

SkipCycle ==
  /\ pc = "idle"
  /\ file' = [file EXCEPT !.partial = FALSE]
  /\ Recover
  /\ UNCHANGED <<mode, pc, mem, list, walk, turn, mishaps>>

(* A cycle that finds no holdings. *)
EmptyCycle ==
  /\ pc = "idle"
  /\ file' = [file EXCEPT !.partial = FALSE,
                          !.cursor = IF mode = "legacy" THEN 0 ELSE @]
  /\ Recover
  /\ order' = << >> /\ risky' = FALSE
  /\ kept' = IF kept = "cursor" THEN "nothing" ELSE kept
  /\ UNCHANGED <<mode, pc, mem, walk, owed, mishaps>>

(* Legacy: the market is closed.  The plan clears the anchor all the same, *)
(* and only the cursor stays where it was.                                 *)
ClosedCycle(o, top) ==
  /\ pc = "idle" /\ mode = "legacy"
  /\ order' = o /\ risky' = top
  /\ file' = [cursor |-> Start(o, top), retry |-> NoSymbol, partial |-> FALSE]
  /\ Recover
  /\ Plans(o, top, FALSE)
  /\ UNCHANGED <<mode, pc, mem, walk, mishaps>>

(* The cycle's state is not saved; or the process is killed and started    *)
(* again, perhaps on the other path, with a fresh budget.                  *)
EndUnsaved ==
  /\ pc = "done" /\ mishaps < MaxMishaps
  /\ Remember
  /\ Forget
  /\ kept' = "nothing"
  /\ mishaps' = mishaps + 1
  /\ UNCHANGED <<mode, file, list, owed>>

Crash(m) ==
  /\ mishaps < MaxMishaps
  /\ mode' = m
  /\ Forget
  /\ api' = NewBudget
  /\ kept' = IF pc = "idle" /\ m = mode THEN kept ELSE "nothing"
  /\ mishaps' = mishaps + 1
  /\ UNCHANGED <<file, list, owed>>

-----------------------------------------------------------------------------
OpenWithBudget ==
  \E o \in Orders, top \in Risks : \E lim \in Limits(Len(o)) \ {0} : OpenCycle(o, top, lim)

Next ==
  \/ \E o \in Orders, top \in Risks :
       \/ \E lim \in Limits(Len(o)) : OpenCycle(o, top, lim)
       \/ ClosedCycle(o, top)
  \/ \E s \in Symbol : Evaluate(s) \/ DeferSell(s)
  \/ QuoteFails \/ RateLimited
  \/ EndLoop
  \/ EndCycle \/ SkipCycle \/ EmptyCycle
  \/ EndUnsaved \/ \E m \in Modes : Crash(m)

Spec == Init /\ [][Next]_vars

(* The session loop runs cycle after cycle.  The budget is refilled every  *)
(* second and every tick, and the broker answers: cycles that may evaluate *)
(* a holding keep coming, and no holding's quote fails for ever.           *)
Fairness ==
  /\ SF_vars(OpenWithBudget)
  /\ WF_vars(EndLoop)
  /\ WF_vars(EndCycle)
  /\ \A s \in Symbol : SF_vars(Evaluate(s))

FairSpec == Spec /\ Fairness

-----------------------------------------------------------------------------
(* On the legacy path the walk after a rate limit begins with the holding  *)
(* it hit, or with the one whose SELL was put off (sell_order_phase.py:    *)
(* 425-440): after any number of empty budgets, for which the anchor is    *)
(* restored (sell_watch_phase.py:264-269), re-sorted lists and risk-first  *)
(* overrides.  Provided the cycles end and save their state, and kept #    *)
(* "nothing": a closed market, and a walk broken off before its first      *)
(* quote, use up the anchor and leave the turn to the cursor, which the    *)
(* next re-sorted list or override loses.                                  *)
RetryIsFirst ==
  /\ mode = "legacy" /\ pc = "loop" /\ visited = 0
  /\ owed # NoSymbol /\ kept # "nothing"
  => Position(0) = owed

(* "The remaining holdings are put off to the next tick" (sell_watch_phase *)
(* .py:275): while the holdings keep their places and none is risky, every *)
(* one is evaluated again and again, however small the budgets are.        *)
EveryHoldingIsWatched ==
  \A o \in Orders : \A k \in DOMAIN o :
    <>[](order = o /\ ~risky) => []<>(o[k] \in seen)
=============================================================================

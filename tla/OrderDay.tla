------------------------------ MODULE OrderDay ------------------------------
(***************************************************************************)
(* A trading day's BUY orders, as three stores remember them:              *)
(*   - the order log (app/core/order_log.py), appended before each order   *)
(*     is sent; the daily limits of app/risk/guards.py are counted from it;*)
(*   - the runtime state file (app/runtime_state.py), loaded at the start  *)
(*     of every cycle and written once, at its end; the per-symbol guards  *)
(*     of app/execution/order_guard.py and app/strategy/reentry.py read it;*)
(*   - the dict of the running cycle, which the order handler writes.      *)
(*                                                                         *)
(* The process may be killed at any step, a write may fail or be cut, the  *)
(* day may change, and a handler that outlives the gate's timeout goes on  *)
(* with the dict of a cycle that has been saved already.                   *)
(***************************************************************************)
EXTENDS Naturals, Sequences, FiniteSets

CONSTANTS
  Symbol, NoSymbol,
  Horizon, DayLength,  \* the bound on the clock; ticks in a day
  MaxOrders,           \* the bound on the orders of a behaviour
  MaxMishaps,          \* the bound on kills, failed writes, rotations and timeouts
  DailyMax,            \* buy_daily_max_order_submissions
  SymbolMax,           \* same_symbol_max_buys_per_day
  RecentMax,           \* records recent_orders keeps (50 in the code; one would not do)
  Rebuy,               \* rebuy_cooldown_minutes
  StopHold,            \* stop_loss_same_day_reentry_min_minutes
  StopDecay, FreshDecay, ProfitDecay, SwapDecay, \* 30, 10, 5 and 15 minutes of reentry.py
  Reasons,             \* exit reasons that occur, see AllReasons
  Detaching            \* whether the gate may leave a handler behind

AllReasons == {"stop_loss", "profit", "rebalance_sell", "daily_pnl_brake", "other"}

ASSUME OrderDayAssumption ==
  /\ NoSymbol \notin Symbol
  /\ DayLength \in Nat \ {0}
  /\ {Horizon, MaxOrders, MaxMishaps, DailyMax, SymbolMax, Rebuy, StopHold,
      StopDecay, FreshDecay, ProfitDecay, SwapDecay} \subseteq Nat
  /\ RecentMax \in Nat \ {0, 1}
  /\ Reasons \subseteq AllReasons
  /\ Detaching \in BOOLEAN

VARIABLES
  now,      \* the Korean clock
  pc,       \* where the cycle thread is
  state,    \* the dict of the current cycle
  orphan,   \* the dict a handler of an earlier cycle still holds
  handler,  \* the BUY handler: its stage, its symbol, whether its dict is orphan
  file,     \* the runtime state file: what it holds, and the day of its mtime
  log,      \* order_submitted records of each day, as a strict read counts them
  torn,     \* whether the log holds a line that does not parse
  orders,   \* history: every order, when it was submitted, who remembers it
  stops,    \* history: each symbol's last stop-loss exit, and who remembers it
  unlogged, \* history: orders of each day whose record was never written
  archived, \* history: records of each day that rotation took away on that day
  mishaps,  \* history: how much went wrong
  blocked   \* history: days on which a load refused to trust the file

memory  == <<state, orphan>>
disk    == <<file, log, torn>>
history == <<orders, stops, unlogged, archived, mishaps, blocked>>
vars    == <<now, pc, handler, memory, disk, history>>

Day(t)  == t \div DayLength
Days    == 0..Day(Horizon)
Today   == Day(now)
NoExit  == [reason |-> "none", at |-> 0]
Other   == 0  \* a record of recent_orders that is not a BUY submission

Keepers == {"dict", "file", "pushed", "lost"}
Pcs     == {"down", "idle", "sell", "buy", "wait", "finalize"}
Stages  == {"none", "evaluate", "submit", "send"}
Exits   == [reason : AllReasons \cup {"none"}, at : 0..Horizon]
States  == [date : Days, trusted : BOOLEAN, recent : Seq(0..MaxOrders),
            entries : [Symbol -> 0..MaxOrders], exit : [Symbol -> Exits]]

TypeOK ==
  /\ now \in 0..Horizon
  /\ pc \in Pcs
  /\ \A st \in {state, orphan, file.state} : st \in States /\ Len(st.recent) <= RecentMax
  /\ handler \in [stage : Stages, symbol : Symbol \cup {NoSymbol}, own : BOOLEAN]
  /\ file \in [kind : {"missing", "cut", "whole"}, state : States, day : Days]
  /\ log \in [Days -> 0..MaxOrders]
  /\ torn \in BOOLEAN
  /\ orders \in Seq([symbol : Symbol, at : 0..Horizon, kept : Keepers])
  /\ Len(orders) <= MaxOrders
  /\ stops \in [Symbol -> [at : 0..Horizon, kept : Keepers]]
  /\ unlogged \in [Days -> 0..MaxOrders]
  /\ archived \in [Days -> 0..MaxOrders]
  /\ mishaps \in 0..MaxMishaps
  /\ blocked \subseteq Days

-----------------------------------------------------------------------------
(* What a variable is once nobody holds the dict or can read the file. *)
Nothing == [date |-> 0, trusted |-> TRUE, recent |-> <<>>,
            entries |-> [s \in Symbol |-> 0], exit |-> [s \in Symbol |-> NoExit]]

(* _default_state and _blocked_default_state. *)
DefaultState(trusted) == [Nothing EXCEPT !.date = Today, !.trusted = trusted]

(* Mutant: a file that does not parse is taken for a missing one. *)
LoadedState_Lenient ==
  IF file.kind = "whole" /\ file.state.date = Today /\ file.state.trusted
  THEN file.state
  ELSE DefaultState(~(file.kind = "whole" /\ file.day = Today))

(* load_runtime_state with _normalize_state: what cannot be trusted blocks *)
(* the orders of the day; only yesterday's intact file is a fresh start.   *)
LoadedState ==
  IF file.kind = "missing" THEN DefaultState(TRUE)
  ELSE IF file.kind = "cut" THEN DefaultState(FALSE)
  ELSE IF file.state.date # Today THEN DefaultState(file.day # Today)
  ELSE IF ~file.state.trusted THEN DefaultState(FALSE)
  ELSE file.state

(* add_recent_order: the list keeps its newest records. *)
Remember(recent, records) ==
  LET all == recent \o records
  IN  SubSeq(all, (IF Len(all) > RecentMax THEN Len(all) - RecentMax ELSE 0) + 1, Len(all))

(* add_recent_order for a BUY submission: the k-th order of this history. *)
RecordSubmission(st, s, k) ==
  [st EXCEPT !.recent = Remember(@, <<k>>), !.entries[s] = @ + 1]

(* Who remembers the orders once the records before newest are dropped. *)
Pushed(os, before, after) ==
  [k \in DOMAIN os |->
     IF (\E i \in DOMAIN before : before[i] = k) /\ ~\E i \in DOMAIN after : after[i] = k
     THEN [os[k] EXCEPT !.kept = "pushed"] ELSE os[k]]

(* The orders that only a dict remembers are saved, or lost with it. *)
OrdersBecome(kept) ==
  [k \in DOMAIN orders |-> IF orders[k].kept = "dict" THEN [orders[k] EXCEPT !.kept = kept]
                           ELSE orders[k]]

(* The dict the handler works on. *)
Held == IF handler.own THEN orphan ELSE state

Forgotten == [at |-> 0, kept |-> "lost"]

(* What a dict alone knows of the stop-loss exits is saved or lost. *)
StopsBecome(kept) ==
  [s \in Symbol |-> IF stops[s].kept # "dict" THEN stops[s]
                    ELSE IF kept = "lost" THEN Forgotten ELSE [stops[s] EXCEPT !.kept = kept]]

Idle == [stage |-> "none", symbol |-> NoSymbol, own |-> FALSE]

CutFile == [kind |-> "cut", state |-> Nothing, day |-> 0]

Init ==
  /\ now = 0
  /\ pc = "down"
  /\ state = Nothing /\ orphan = Nothing
  /\ handler = Idle
  /\ file = [kind |-> "missing", state |-> Nothing, day |-> 0]
  /\ log = [d \in Days |-> 0]
  /\ torn = FALSE
  /\ orders = <<>>
  /\ stops = [s \in Symbol |-> Forgotten]
  /\ unlogged = [d \in Days |-> 0]
  /\ archived = [d \in Days |-> 0]
  /\ mishaps = 0
  /\ blocked = {}

(* Counts a mishap if there is one. *)
Mishap(happens) ==
  /\ happens => mishaps < MaxMishaps
  /\ mishaps' = IF happens THEN mishaps + 1 ELSE mishaps

Tick ==
  /\ now < Horizon
  /\ now' = now + 1
  /\ UNCHANGED <<pc, handler, memory, disk, history>>

-----------------------------------------------------------------------------
(* main(): the account lock is held, the log is archived when it is too    *)
(* large -- which a restart in the day may well find -- and the session    *)
(* loop is entered.                                                        *)
Start(oversized) ==
  /\ pc = "down"
  /\ pc' = "idle"
  /\ Mishap(oversized)
  /\ IF oversized
     THEN /\ log' = [d \in Days |-> 0] /\ torn' = FALSE
          /\ archived' = [archived EXCEPT ![Today] = @ + log[Today]]
     ELSE UNCHANGED <<log, torn, archived>>
  /\ UNCHANGED <<now, handler, memory, file, orders, stops, unlogged, blocked>>

(* The process is killed, perhaps inside an append or inside write_text. *)
Crash(inAppend, inSave) ==
  /\ pc # "down"
  /\ Mishap(TRUE)
  /\ inAppend => handler.stage # "none"
  /\ inSave => pc = "finalize"
  /\ pc' = "down"
  /\ handler' = Idle
  /\ state' = Nothing /\ orphan' = Nothing
  /\ torn' = (torn \/ inAppend)
  /\ file' = IF inSave THEN CutFile ELSE file
  /\ orders' = OrdersBecome("lost") /\ stops' = StopsBecome("lost")
  /\ UNCHANGED <<now, log, unlogged, archived, blocked>>

(* run_cycle loads the state and stamps the date (start_cycle). *)
LoadState ==
  /\ pc = "idle"
  /\ pc' = "sell"
  /\ state' = LoadedState
  /\ blocked' = IF LoadedState.trusted THEN blocked ELSE blocked \cup {Today}
  /\ UNCHANGED <<now, handler, orphan, disk, orders, stops, unlogged, archived, mishaps>>

(* The SELL of the cycle, as run_sell_order_flow leaves the state when it  *)
(* succeeds: two records, and the exit (record_symbol_exit).               *)
SellExit(s, reason) ==
  /\ pc = "sell" /\ handler.stage = "none" /\ state.trusted
  /\ pc' = "buy"
  /\ state' = [state EXCEPT !.recent = Remember(@, <<Other, Other>>),
                            !.exit[s] = [reason |-> reason, at |-> now]]
  /\ orders' = Pushed(orders, state.recent, state'.recent)
  /\ stops' = [stops EXCEPT ![s] = IF reason = "stop_loss" THEN [at |-> now, kept |-> "dict"]
                                   ELSE Forgotten]
  /\ UNCHANGED <<now, handler, orphan, disk, unlogged, archived, mishaps, blocked>>

NoSell ==
  /\ pc = "sell"
  /\ pc' = "buy"
  /\ UNCHANGED <<now, handler, memory, disk, history>>

-----------------------------------------------------------------------------
(* The gate runs the BUY handler unless one is still alive. *)
StartBuy(s) ==
  /\ pc = "buy" /\ handler.stage = "none" /\ Len(orders) < MaxOrders
  /\ pc' = "wait"
  /\ handler' = [stage |-> "evaluate", symbol |-> s, own |-> FALSE]
  /\ UNCHANGED <<now, memory, disk, history>>

NoBuy ==
  /\ pc = "buy"
  /\ pc' = "finalize"
  /\ UNCHANGED <<now, handler, memory, disk, history>>

(* The handler is done; the gate has its result if it still waits. *)
HandlerEnds ==
  /\ handler' = Idle
  /\ pc' = IF pc = "wait" THEN "finalize" ELSE pc
  /\ orphan' = Nothing

(* The gate's timeout: the cycle goes on without the handler. *)
TimesOut ==
  /\ Detaching
  /\ Mishap(TRUE)
  /\ pc = "wait"
  /\ pc' = "finalize"
  /\ UNCHANGED <<now, handler, memory, disk, orders, stops, unlogged, archived, blocked>>

Larger(a, b) == IF a >= b THEN a ELSE b

Entered(st, s) == SymbolMax > 0 /\ st.entries[s] >= SymbolMax

(* Mutant: the floor is checked only when no fresh setup is seen. *)
Reentry_FreshOverrides(st, s, fresh, riskOff) ==
  LET x == st.exit[s]  since == now - x.at
  IN  /\ ~Entered(st, s)
      /\ x.reason = "stop_loss" => fresh \/ (~riskOff /\ since >= StopHold /\ since >= StopDecay)

(* Mutant: the symbol's entries are left to order_guard.py. *)
Reentry_NoLimit(st, s, fresh, riskOff) ==
  LET x == st.exit[s]  since == now - x.at
  IN  x.reason = "stop_loss" => (Day(x.at) = Today => since >= StopHold)

(* evaluate_reentry_eligibility; fresh is the setup proxy's verdict, and   *)
(* riskOff the regime's or the loss brake's.                               *)
Reentry(st, s, fresh, riskOff) ==
  LET x == st.exit[s]
      since == now - x.at
  IN  /\ ~Entered(st, s)
      /\ x.reason = "stop_loss" =>
           /\ (Day(x.at) = Today => since >= StopHold)
           /\ ~riskOff
           /\ fresh \/ since >= Larger(2 * Rebuy, StopDecay)
      /\ x.reason = "profit" =>
           IF fresh THEN since >= Larger(Rebuy \div 2, ProfitDecay)
           ELSE since >= Larger(Rebuy, ProfitDecay)
      /\ x.reason = "rebalance_sell" =>
           \/ fresh /\ since >= Larger(Rebuy \div 2, FreshDecay)
           \/ since >= Larger(Rebuy, SwapDecay)
      /\ x.reason = "daily_pnl_brake" =>
           ~riskOff /\ fresh /\ since >= Larger(2 * Rebuy, StopDecay)
      /\ x.reason = "other" => since >= Rebuy

(* The BUY submissions of s today that recent_orders still holds. *)
RecentBuys(st, s) ==
  {i \in DOMAIN st.recent : /\ st.recent[i] # Other
                            /\ orders[st.recent[i]].symbol = s
                            /\ Day(orders[st.recent[i]].at) = Today}

(* Mutant: the rebuy cooldown is not asked for. *)
BuyGuard_NoCooldown(st, s) ==
  /\ st.trusted
  /\ SymbolMax > 0 => Cardinality(RecentBuys(st, s)) < SymbolMax

(* evaluate_buy_order_guard: trust, the rebuy cooldown of the latest buy,  *)
(* and the symbol's buys of the day.  (Its guards against an identical     *)
(* order depend on the quantity and only forbid more: see Refuse.)         *)
BuyGuard(st, s) ==
  /\ st.trusted
  /\ Rebuy > 0 => \A i \in RecentBuys(st, s) : now - orders[st.recent[i]].at > Rebuy
  /\ SymbolMax > 0 => Cardinality(RecentBuys(st, s)) < SymbolMax

(* _read_log_lines_cached, strict: one line that does not parse is enough. *)
Readable == ~torn

(* Mutant: a log that cannot be read counts as empty. *)
RiskGuards_Empty == (IF Readable THEN log[Today] ELSE 0) < DailyMax

(* evaluate_buy_risk_guards: a log that cannot be read strictly blocks. *)
RiskGuards == Readable /\ log[Today] < DailyMax

(* run_buy_order_flow up to its submission: the guards and the daily risk  *)
(* limits, in this order.                                                  *)
Clear(fresh, riskOff) ==
  /\ handler.stage = "evaluate"
  /\ Reentry(Held, handler.symbol, fresh, riskOff)
  /\ BuyGuard(Held, handler.symbol)
  /\ RiskGuards
  /\ handler' = [handler EXCEPT !.stage = "submit"]
  /\ UNCHANGED <<now, pc, memory, disk, history>>

(* A guard said no, or there is another of the many reasons not to buy: a  *)
(* holding, no cash, an identical order, CONFIRM_BUY off, or a market that *)
(* closed meanwhile, which is asked once more after the guards.            *)
Refuse ==
  /\ handler.stage \in {"evaluate", "submit"}
  /\ HandlerEnds
  /\ UNCHANGED <<now, state, disk, history>>

(* log_order_event says whether it wrote, and nobody asks; a write that    *)
(* fails half way leaves a line that does not parse.                       *)
WriteRecord(written, half) ==
  /\ log' = IF written THEN [log EXCEPT ![Today] = @ + 1] ELSE log
  /\ torn' = (torn \/ half)
  /\ unlogged' = IF written THEN unlogged ELSE [unlogged EXCEPT ![Today] = @ + 1]

(* The submission is recorded, in the log and then in the dict, before the *)
(* order is sent: from here on it may have reached the broker.             *)
Submit(written, half) ==
  LET k == Len(orders) + 1
  IN  /\ handler.stage = "submit"
      /\ half => ~written
      /\ Mishap(~written)
      /\ WriteRecord(written, half)
      /\ IF handler.own
         THEN orphan' = RecordSubmission(orphan, handler.symbol, k) /\ UNCHANGED state
         ELSE state' = RecordSubmission(state, handler.symbol, k) /\ UNCHANGED orphan
      /\ orders' = Append(IF handler.own THEN orders
                          ELSE Pushed(orders, state.recent, state'.recent),
                          [symbol |-> handler.symbol, at |-> now,
                           kept |-> IF handler.own THEN "lost" ELSE "dict"])
      /\ handler' = [handler EXCEPT !.stage = "send"]
      /\ UNCHANGED <<now, pc, file, stops, archived, blocked>>

(* The order is accepted: the symbol is marked as bought. *)
SendSucceeds ==
  /\ handler.stage = "send"
  /\ HandlerEnds
  /\ UNCHANGED <<now, state, disk, history>>

(* The budget, the broker or the network refuses: one more record, the     *)
(* submission stays counted.                                               *)
SendFails ==
  /\ handler.stage = "send"
  /\ state' = IF handler.own THEN state ELSE [state EXCEPT !.recent = Remember(@, <<Other>>)]
  /\ orders' = Pushed(orders, state.recent, state'.recent)
  /\ HandlerEnds
  /\ UNCHANGED <<now, disk, stops, unlogged, archived, mishaps, blocked>>

-----------------------------------------------------------------------------
(* finalize_cycle saves the state once; a save that fails is only noted,   *)
(* and may have truncated the file.  A handler left behind keeps the dict  *)
(* it was given, also when later cycles end.                               *)
Save(after, kept) ==
  /\ pc = "finalize"
  /\ pc' = "idle"
  /\ file' = after
  /\ orders' = OrdersBecome(kept) /\ stops' = StopsBecome(kept)
  /\ state' = Nothing
  /\ IF handler.stage = "none" \/ handler.own THEN UNCHANGED <<handler, orphan>>
     ELSE handler' = [handler EXCEPT !.own = TRUE] /\ orphan' = state
  /\ UNCHANGED <<now, log, torn, unlogged, archived, blocked>>

SaveSucceeds ==
  Mishap(FALSE) /\ Save([kind |-> "whole", state |-> state, day |-> Today], "file")
SaveFails == Mishap(TRUE) /\ Save(file, "lost")
SaveTears == Mishap(TRUE) /\ Save(CutFile, "lost")

Next ==
  \/ Tick
  \/ \E oversized \in BOOLEAN : Start(oversized)
  \/ \E inAppend, inSave \in BOOLEAN : Crash(inAppend, inSave)
  \/ LoadState
  \/ \E s \in Symbol, reason \in Reasons : SellExit(s, reason)
  \/ NoSell
  \/ \E s \in Symbol : StartBuy(s)
  \/ NoBuy
  \/ TimesOut
  \/ \E fresh, riskOff \in BOOLEAN : Clear(fresh, riskOff)
  \/ Refuse
  \/ \E written, half \in BOOLEAN : Submit(written, half)
  \/ SendSucceeds
  \/ SendFails
  \/ SaveSucceeds
  \/ SaveFails
  \/ SaveTears

Spec == Init /\ [][Next]_vars

-----------------------------------------------------------------------------
OrdersOf(d) == {k \in DOMAIN orders : Day(orders[k].at) = d}

(* A day's BUY orders exceed buy_daily_max_order_submissions by no more    *)
(* than the orders whose record could not be written and the records that  *)
(* a rotation within the day took away; a kill between the record and the  *)
(* order, a torn log and a detached handler never raise the limit.         *)
DailyLimit ==
  \A d \in Days : Cardinality(OrdersOf(d)) <= DailyMax + unlogged[d] + archived[d]

(* recent_orders forgets all but its newest records, yet no symbol is      *)
(* bought more often in a day than same_symbol_max_buys_per_day, but for   *)
(* the orders that no state file ever held.                                *)
SymbolLimit ==
  SymbolMax > 0 =>
    \A d \in Days, s \in Symbol :
      Cardinality({k \in OrdersOf(d) : orders[k].symbol = s /\ orders[k].kept # "lost"})
        <= SymbolMax

(* Two orders of a symbol on one day are more than rebuy_cooldown_minutes  *)
(* apart, unless the first was lost with a dict or pushed out of           *)
(* recent_orders by the records of other symbols.                          *)
CooldownHolds ==
  \A k, m \in DOMAIN orders :
    /\ k < m /\ orders[k].symbol = orders[m].symbol
    /\ Day(orders[k].at) = Day(orders[m].at)
    /\ orders[k].kept \in {"dict", "file"}
    /\ Rebuy > 0
    => orders[m].at - orders[k].at > Rebuy

(* No order is cleared for a symbol that was sold at a stop loss on the    *)
(* same day less than stop_loss_same_day_reentry_min_minutes ago, whatever *)
(* the setup looks like, if the running cycle or the file knows the exit.  *)
StopLossHolds ==
  [][handler.stage = "evaluate" /\ handler'.stage = "submit" /\ ~handler.own =>
       LET x == stops[handler.symbol]
       IN  x.kept # "lost" /\ Day(x.at) = Today => now - x.at >= StopHold]_vars

(* Once a load has refused the state file, no cycle that starts on that    *)
(* day clears an order, through saves, failed saves, kills and restarts.   *)
BlockedDayStaysBlocked ==
  [][handler.stage = "evaluate" /\ handler'.stage = "submit" /\ ~handler.own =>
       Today \notin blocked]_vars
=============================================================================

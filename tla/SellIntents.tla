----------------------------- MODULE SellIntents -----------------------------
(***************************************************************************)
(* The SELL reservations of one symbol over a trading day                  *)
(* (app/runtime_state.py, app/execution/order_guard.py and sell_flow.py,   *)
(* app/core/reconciliation.py).                                            *)
(*                                                                         *)
(* Every cycle loads the runtime state from its file, reads the balance,   *)
(* may send one SELL order, and saves the state when it ends.  A quantity  *)
(* is reserved before its order is sent; a rejection releases it, and so   *)
(* does reconciliation once the broker's position has shrunk.              *)
(*                                                                         *)
(* Actors: the cycle (pc), the order handler (h) -- which in lane mode can *)
(* outlive its cycle -- the broker, and the clock.                         *)
(***************************************************************************)
EXTENDS Integers

CONSTANTS
  Held,         \* the position at the start of the day
  MaxHolding,   \* bound on what buys may raise it to
  Modes,        \* "legacy" cycles reconcile, "lane" cycles do not
  OneTrigger,   \* allow_one_sell_trigger_per_symbol_per_day
  BlockResell,  \* block_resell_symbols_sold_today
  EmergencyTtl, \* SELL_INTENT_EMERGENCY_TTL_MINUTES, in ticks
  SlowTtl,      \* SELL_INTENT_TTL_MINUTES, in ticks
  Mishaps       \* what may go wrong besides rejections, see AllMishaps

AllMishaps == {"buy", "manual_sale", "balance_fails", "ambiguous", "save_fails",
               "detach", "crash"}

ASSUME HoldingAssumption == Held \in Nat /\ MaxHolding \in Nat /\ Held <= MaxHolding
ASSUME SettingsAssumption ==
  /\ Modes \subseteq {"legacy", "lane"}
  /\ OneTrigger \in BOOLEAN /\ BlockResell \in BOOLEAN
ASSUME TtlAssumption ==
  EmergencyTtl \in Nat /\ SlowTtl \in Nat /\ 0 < EmergencyTtl /\ EmergencyTtl < SlowTtl
ASSUME MishapAssumption == Mishaps \subseteq AllMishaps

VARIABLES
  mode,     \* which path the process runs
  pc,       \* between cycles, or inside one
  file,     \* the saved runtime state
  mem,      \* the runtime state of the current cycle
  snap,     \* the position in the cycle's balance snapshot, 0 without one
  h,        \* where the order handler is
  order,    \* the order it handles
  detached, \* its cycle is over: what it writes into its state is never read
  holding,  \* the position at the broker
  open      \* shares in SELL orders the broker has accepted and not filled

state   == <<file, mem>>
handler == <<h, order, detached>>
broker  == <<holding, open>>
vars == <<mode, pc, state, snap, handler, broker>>

(* take_profit stands for every trigger that sells half of the position. *)
Triggers == {"stop_loss", "rebalance", "take_profit"}
Actions  == {"none", "submitted", "succeeded", "failed"}

Ledger == [qty : 0..MaxHolding,              \* pending_sell_intents_by_symbol
           age : 0..SlowTtl,                 \* now - submitted_at, capped
           trigger : Triggers \cup {"none"},
           last : Actions,                   \* latest_sell_order_action
           synced : 0..MaxHolding,           \* broker_last_synced_positions_by_symbol
           triggered : BOOLEAN,              \* sell_triggered_symbols_today
           sold : BOOLEAN]                   \* symbols_sold_today

Empty == [qty |-> 0, age |-> 0, trigger |-> "none", last |-> "none",
          synced |-> 0, triggered |-> FALSE, sold |-> FALSE]

Orders  == [qty : 0..MaxHolding, trigger : Triggers \cup {"none"}, full : BOOLEAN]
NoOrder == [qty |-> 0, trigger |-> "none", full |-> FALSE]

TypeOK ==
  /\ mode \in {"legacy", "lane"}
  /\ pc \in {"idle", "cycle"}
  /\ file \in Ledger /\ mem \in Ledger
  /\ snap \in 0..MaxHolding
  /\ h \in {"none", "guarded", "sent", "accepted", "rejected"}
  /\ order \in Orders
  /\ detached \in BOOLEAN
  /\ holding \in 0..MaxHolding /\ open \in 0..MaxHolding

Init ==
  /\ mode \in Modes
  /\ pc = "idle"
  /\ file = Empty /\ mem = Empty
  /\ snap = 0
  /\ h = "none" /\ order = NoOrder /\ detached = FALSE
  /\ holding = Held /\ open = 0

-----------------------------------------------------------------------------
(* The ledger operations. *)
Lesser(a, b) == IF a < b THEN a ELSE b

(* _normalize_state rebuilds each entry from its quantity and its stamp.   *)
Load(r) == [r EXCEPT !.trigger = "none"]

Released(r) == [r EXCEPT !.qty = 0, !.age = 0, !.trigger = "none"]

(* What is left of a reservation; an empty one is popped. *)
Keep(r, left) == IF left <= 0 THEN Released(r) ELSE [r EXCEPT !.qty = left]

(* mark_sell_trigger, mark_sell_intent_submitted, add_recent_order. *)
Reserve(r, q, t) ==
  [r EXCEPT !.qty = @ + q, !.age = 0, !.trigger = t, !.last = "submitted",
            !.triggered = TRUE]

(* resolve_sell_intent: a partial release loses the trigger. *)
Resolve(r, q) == [Keep(r, r.qty - q) EXCEPT !.trigger = "none"]

(* The order was accepted: add_recent_order, mark_sold_symbol. *)
Succeed(r, o) == [r EXCEPT !.last = "succeeded", !.sold = @ \/ o.full]

(* It was not, or an exception hides that it was. *)
Fail(r, o) == [Resolve(r, o.qty) EXCEPT !.last = "failed"]

(* Mutant: the reservation is not reduced by what was sold. *)
Reconcile_NoShrink(r, actual) ==
  [Keep(r, Lesser(r.qty, actual)) EXCEPT !.synced = actual]

(* sync_reconciliation_state: the reservation shrinks with the position    *)
(* and never exceeds it.  A symbol missing from the last sync counts as    *)
(* unchanged, as synced = 0 does here.                                     *)
Reconcile(r, actual) ==
  LET drop == IF r.synced > actual THEN r.synced - actual ELSE 0
  IN  [Keep(r, Lesser(r.qty - drop, actual)) EXCEPT !.synced = actual]

Ttl(r) == IF r.trigger = "stop_loss" THEN EmergencyTtl ELSE SlowTtl

(* Mutant: every reservation past its TTL is released. *)
Prune_Blind(r) == IF r.qty > 0 /\ r.age >= Ttl(r) THEN Released(r) ELSE r

(* prune_stale_sell_intents *)
Prune(r) ==
  IF r.qty > 0 /\ r.age >= Ttl(r) /\ r.last \notin {"submitted", "succeeded"}
  THEN Released(r) ELSE r

Older(r) == IF r.qty > 0 THEN [r EXCEPT !.age = Lesser(@ + 1, SlowTtl)] ELSE r

-----------------------------------------------------------------------------
(* The cycle.  Loading, the balance inquiry and what follows from them are *)
(* one step: nothing else writes this cycle's state yet.                   *)
Opened == IF mode = "legacy" THEN Prune(Reconcile(Load(file), holding)) ELSE Load(file)

OpenCycle ==
  /\ pc = "idle"
  /\ pc' = "cycle"
  /\ mem' = Opened
  /\ snap' = holding
  /\ UNCHANGED <<mode, file, handler, broker>>

(* The balance inquiry raises: neither reconciliation nor SELL happens. *)
OpenBlind ==
  /\ "balance_fails" \in Mishaps
  /\ pc = "idle"
  /\ pc' = "cycle"
  /\ mem' = Load(file)
  /\ snap' = 0
  /\ UNCHANGED <<mode, file, handler, broker>>

(* calculate_sell_position_size *)
RecommendedQty(t) ==
  IF t \in {"stop_loss", "rebalance"} \/ snap <= 1 THEN snap ELSE snap \div 2

(* Mutant: the reservation is not taken off the sellable quantity. *)
GuardPasses_NoResidual(r, q) ==
  /\ snap > 0
  /\ q <= snap
  /\ ~(BlockResell /\ r.sold)
  /\ ~(OneTrigger /\ r.triggered /\ r.qty > snap)

(* evaluate_sell_order_guard.  Cooldowns, which only refuse more, are left *)
(* to the moment a signal comes at.                                        *)
GuardPasses(r, q) ==
  /\ snap > 0
  /\ q <= snap - r.qty
  /\ ~(BlockResell /\ r.sold)
  /\ ~(OneTrigger /\ r.triggered /\ r.qty > 0)

(* A SELL signal reaches run_sell_order_flow and passes its guards.  In    *)
(* lane mode OrderGate starts no handler while another one is alive.       *)
Sell(t) ==
  /\ pc = "cycle" /\ h = "none"
  /\ GuardPasses(mem, RecommendedQty(t))
  /\ h' = "guarded"
  /\ order' = [qty |-> RecommendedQty(t), trigger |-> t, full |-> RecommendedQty(t) >= snap]
  /\ UNCHANGED <<mode, pc, state, snap, detached, broker>>

(* What the handler writes goes into the state of its own cycle, which is  *)
(* garbage once that cycle has ended.                                      *)
Write(r) == mem' = (IF detached THEN mem ELSE r) /\ UNCHANGED file

(* The reservation is made, and the request goes out. *)
Submit ==
  /\ h = "guarded"
  /\ Write(Reserve(mem, order.qty, order.trigger))
  /\ h' = "sent"
  /\ UNCHANGED <<mode, pc, snap, order, detached, broker>>

BrokerAccepts ==
  /\ h = "sent"
  /\ order.qty <= holding - open
  /\ open' = open + order.qty
  /\ \/ h' = "accepted"
     \/ "ambiguous" \in Mishaps /\ h' = "rejected"  \* the answer is lost
  /\ UNCHANGED <<mode, pc, state, snap, order, detached, holding>>

(* Rate limited, refused, or stopped by the request budget before it was   *)
(* sent at all.                                                            *)
BrokerRejects ==
  /\ h = "sent"
  /\ h' = "rejected"
  /\ UNCHANGED <<mode, pc, state, snap, order, detached, broker>>

HandlerEnds ==
  /\ \/ /\ h = "accepted"
        /\ Write(Succeed(mem, order))
     \/ /\ h = "rejected"
        /\ Write(Fail(mem, order))
  /\ h' = "none" /\ order' = NoOrder /\ detached' = FALSE
  /\ UNCHANGED <<mode, pc, snap, broker>>

(* finalize_cycle prunes and saves.  A handler that timed out in lane mode *)
(* goes on without its cycle.                                              *)
CloseCycle ==
  /\ pc = "cycle"
  /\ h = "none" \/ detached \/ (mode = "lane" /\ "detach" \in Mishaps)
  /\ pc' = "idle"
  /\ mem' = Empty /\ snap' = 0
  /\ detached' = (h # "none")
  /\ UNCHANGED <<mode, h, order, broker>>

EndCycle == CloseCycle /\ file' = Prune(mem)

(* save_runtime_state returns False, or json.dumps meets the dictionary a  *)
(* detached handler is changing.                                           *)
EndUnsaved == "save_fails" \in Mishaps /\ CloseCycle /\ UNCHANGED file

(* The process is killed, the request in flight decided or lost, and it is *)
(* started again, perhaps on the other path.                               *)
Crash(m) ==
  /\ "crash" \in Mishaps
  /\ mode' = m
  /\ pc' = "idle"
  /\ mem' = Empty /\ snap' = 0
  /\ h' = "none" /\ order' = NoOrder /\ detached' = FALSE
  /\ UNCHANGED <<file, broker>>

-----------------------------------------------------------------------------
(* The broker, other traders, and the clock. *)
Fill(n) ==
  /\ n <= open
  /\ open' = open - n
  /\ holding' = holding - n
  /\ UNCHANGED <<mode, pc, state, snap, handler>>

Buy(n) ==
  /\ "buy" \in Mishaps
  /\ holding + n <= MaxHolding
  /\ holding' = holding + n
  /\ UNCHANGED <<mode, pc, state, snap, handler, open>>

(* The owner of the account sells what is not tied up in an order. *)
ManualSale(n) ==
  /\ "manual_sale" \in Mishaps
  /\ n <= holding - open
  /\ holding' = holding - n
  /\ UNCHANGED <<mode, pc, state, snap, handler, open>>

Tick ==
  /\ file' = Older(file) /\ mem' = Older(mem)
  /\ UNCHANGED <<mode, pc, snap, handler, broker>>

Quantities == 1..MaxHolding

Next ==
  \/ OpenCycle \/ OpenBlind
  \/ \E t \in Triggers : Sell(t)
  \/ Submit \/ BrokerAccepts \/ BrokerRejects \/ HandlerEnds
  \/ EndCycle \/ EndUnsaved \/ \E m \in Modes : Crash(m)
  \/ \E n \in Quantities : Fill(n) \/ Buy(n) \/ ManualSale(n)
  \/ Tick

Spec == Init /\ [][Next]_vars

(* The session loop runs cycle after cycle, whatever a cycle raised; a     *)
(* request has a timeout, so a handler ends.  Balance inquiries and saves  *)
(* do not fail for ever.  Nothing is assumed about the broker's fills.     *)
Fairness ==
  /\ SF_vars(OpenCycle)
  /\ SF_vars(EndCycle)
  /\ WF_vars(Submit)
  /\ WF_vars(BrokerRejects)
  /\ WF_vars(HandlerEnds)

FairSpec == Spec /\ Fairness

-----------------------------------------------------------------------------
(* The state a guard will read next. *)
Current == IF pc = "cycle" THEN mem ELSE file

(* Shares of the order in flight that the broker may still take. *)
InFlight == IF h = "sent" THEN order.qty ELSE 0

(* "An accepted-but-unfilled order keeps its reservation" (runtime_state   *)
(* .py:680-682): whatever the broker may still fill is reserved, through   *)
(* loads, saves, reconciliation and pruning.                               *)
AcceptedIsReserved == open + InFlight <= Current.qty

(* "The reservation is the only thing preventing a duplicate sell": no     *)
(* order goes out for shares that are already sold or being sold.          *)
NeverOversells == h = "sent" => order.qty <= holding - open

(* A reconciled cycle never reserves more than the position it has seen,   *)
(* so that what the guard reports as sellable is not negative.             *)
ReservedWithinHolding == mode = "legacy" /\ snap > 0 => mem.qty <= snap

(* "Positions whose fill did land are cleared upstream by reconciliation"  *)
(* (runtime_state.py:683-684): a reservation does not outlive its order.   *)
ReservationEnds == []<>(Current.qty <= open)

-----------------------------------------------------------------------------
(* reconciliation.py:199-200 "Carry the trigger across the rewrite --      *)
(* dropping it downgrades an emergency (stop_loss) intent to the slow      *)
(* default TTL next cycle."  Violated: loading drops it.                   *)
TriggerCarried ==
  [][pc = "idle" /\ pc' = "cycle" /\ mem'.qty > 0 => mem'.trigger = file.trigger]_vars

(* reconciliation.py:208-210 "Age it out so a failed submit cannot pin the *)
(* position for the rest of the session": a reservation past its TTL is    *)
(* gone when the cycle ends, if the broker never took a share.  Violated   *)
(* when the handler was detached.                                          *)
FailedSubmitIsReleased ==
  [][pc = "cycle" /\ pc' = "idle" /\ h = "none" /\ open = 0 /\ holding = Held
       /\ mem.age = SlowTtl => file'.qty = 0]_vars
=============================================================================

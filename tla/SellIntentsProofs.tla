-------------------------- MODULE SellIntentsProofs --------------------------
(***************************************************************************)
(* Proofs about SellIntents, for every position and every TTL: type        *)
(* correctness and ReservedWithinHolding whatever goes wrong, and the two  *)
(* reservation invariants under what the code tolerates (Tolerated).       *)
(***************************************************************************)
EXTENDS SellIntents, TLAPS

(* The ledger operations keep the type of a ledger.  Each lemma also says  *)
(* what the operation does to the quantity, the only field the invariants  *)
(* compare.                                                                *)
LEMMA LoadFacts ==
  ASSUME NEW r \in Ledger
  PROVE  /\ Load(r) \in Ledger
         /\ Load(r).qty = r.qty /\ Load(r).synced = r.synced
         /\ Load(r).last = r.last /\ Load(r).triggered = r.triggered
BY DEF Load, Ledger

LEMMA ReleasedFacts ==
  ASSUME NEW r \in Ledger
  PROVE  /\ Released(r) \in Ledger
         /\ Released(r).qty = 0 /\ Released(r).synced = r.synced
         /\ Released(r).last = r.last /\ Released(r).triggered = r.triggered
<1>1. 0 \in 0..MaxHolding /\ 0 \in 0..SlowTtl
  BY HoldingAssumption, TtlAssumption
<1> QED BY <1>1 DEF Released, Ledger

LEMMA KeepFacts ==
  ASSUME NEW r \in Ledger, NEW left \in Int, left <= MaxHolding
  PROVE  /\ Keep(r, left) \in Ledger
         /\ Keep(r, left).qty = IF left <= 0 THEN 0 ELSE left
         /\ Keep(r, left).last = r.last /\ Keep(r, left).triggered = r.triggered
         /\ Keep(r, left).synced = r.synced
<1>1. CASE left <= 0
  BY <1>1, ReleasedFacts DEF Keep
<1>2. CASE ~(left <= 0)
  <2>1. left \in 0..MaxHolding
    BY <1>2, HoldingAssumption
  <2> QED BY <1>2, <2>1 DEF Keep, Ledger
<1> QED BY <1>1, <1>2

LEMMA ReserveFacts ==
  ASSUME NEW r \in Ledger, NEW q \in Nat, r.qty + q <= MaxHolding, NEW t \in Triggers \cup {"none"}
  PROVE  /\ Reserve(r, q, t) \in Ledger
         /\ Reserve(r, q, t).qty = r.qty + q
         /\ Reserve(r, q, t).synced = r.synced
         /\ Reserve(r, q, t).last = "submitted" /\ Reserve(r, q, t).triggered
<1>1. 0 \in 0..SlowTtl /\ r.qty + q \in 0..MaxHolding /\ "submitted" \in Actions
  BY HoldingAssumption, TtlAssumption DEF Ledger, Actions
<1> QED BY <1>1 DEF Reserve, Ledger

LEMMA ResolveFacts ==
  ASSUME NEW r \in Ledger, NEW q \in Nat
  PROVE  /\ Resolve(r, q) \in Ledger
         /\ Resolve(r, q).qty = IF r.qty <= q THEN 0 ELSE r.qty - q
         /\ Resolve(r, q).synced = r.synced
<1>1. r.qty \in Nat /\ r.qty - q \in Int /\ r.qty - q <= MaxHolding
  BY HoldingAssumption DEF Ledger
<1>2. Keep(r, r.qty - q) \in Ledger
      /\ Keep(r, r.qty - q).qty = (IF r.qty - q <= 0 THEN 0 ELSE r.qty - q)
      /\ Keep(r, r.qty - q).synced = r.synced
  BY <1>1, KeepFacts
<1> QED BY <1>1, <1>2 DEF Resolve, Ledger

LEMMA SucceedFacts ==
  ASSUME NEW r \in Ledger, NEW o \in Orders
  PROVE  /\ Succeed(r, o) \in Ledger
         /\ Succeed(r, o).qty = r.qty /\ Succeed(r, o).synced = r.synced
         /\ Succeed(r, o).last = "succeeded" /\ Succeed(r, o).triggered = r.triggered
<1>1. (r.sold \/ o.full) \in BOOLEAN
  OBVIOUS
<1>2. "succeeded" \in Actions
  BY DEF Actions
<1>3. ASSUME NEW b \in BOOLEAN
      PROVE  LET s == [r EXCEPT !.last = "succeeded", !.sold = b]
             IN  /\ s \in Ledger /\ s.qty = r.qty /\ s.synced = r.synced
                 /\ s.last = "succeeded" /\ s.triggered = r.triggered
  BY <1>2 DEF Ledger
<1>4. Succeed(r, o) = [r EXCEPT !.last = "succeeded", !.sold = (r.sold \/ o.full)]
  BY DEF Succeed, Ledger
<1> QED BY <1>1, <1>3, <1>4

LEMMA FailFacts ==
  ASSUME NEW r \in Ledger, NEW o \in Orders
  PROVE  /\ Fail(r, o) \in Ledger
         /\ Fail(r, o).qty = (IF r.qty <= o.qty THEN 0 ELSE r.qty - o.qty)
         /\ Fail(r, o).qty <= r.qty
         /\ Fail(r, o).synced = r.synced
<1>1. o.qty \in Nat /\ r.qty \in Nat
  BY HoldingAssumption DEF Orders, Ledger
<1>2. "failed" \in Actions
  BY DEF Actions
<1>3. /\ Resolve(r, o.qty) \in Ledger
      /\ Resolve(r, o.qty).qty = (IF r.qty <= o.qty THEN 0 ELSE r.qty - o.qty)
      /\ Resolve(r, o.qty).synced = r.synced
  BY <1>1, ResolveFacts
<1>4. /\ Fail(r, o) \in Ledger
      /\ Fail(r, o).qty = Resolve(r, o.qty).qty /\ Fail(r, o).synced = r.synced
  BY <1>2, <1>3 DEF Fail, Ledger
<1> QED BY <1>1, <1>3, <1>4

(* The reservation left by a reconciliation, between the two values it is  *)
(* compared with.                                                          *)
LEMMA ReconcileFacts ==
  ASSUME NEW r \in Ledger, NEW actual \in 0..MaxHolding
  PROVE  /\ Reconcile(r, actual) \in Ledger
         /\ Reconcile(r, actual).qty <= actual
         /\ Reconcile(r, actual).qty <= r.qty
         /\ Reconcile(r, actual).synced = actual
         /\ Reconcile(r, actual).last = r.last
         /\ Reconcile(r, actual).triggered = r.triggered
         /\ \A n \in Nat :
              /\ n <= actual /\ n <= r.qty
              /\ n + (r.synced - actual) <= r.qty
              => n <= Reconcile(r, actual).qty
<1> DEFINE drop == IF r.synced > actual THEN r.synced - actual ELSE 0
           left == Lesser(r.qty - drop, actual)
<1>1. r.qty \in 0..MaxHolding /\ r.synced \in 0..MaxHolding
  BY DEF Ledger
<1>2. left \in Int /\ left <= actual /\ left <= r.qty /\ left <= MaxHolding
  BY <1>1, HoldingAssumption DEF Lesser
<1>3. \A n \in Nat : n <= actual /\ n <= r.qty /\ n + (r.synced - actual) <= r.qty => n <= left
  BY <1>1, HoldingAssumption DEF Lesser
<1>4. /\ Keep(r, left) \in Ledger
      /\ Keep(r, left).qty = (IF left <= 0 THEN 0 ELSE left)
      /\ Keep(r, left).last = r.last /\ Keep(r, left).triggered = r.triggered
  BY <1>2, KeepFacts
<1>5. Reconcile(r, actual) = [Keep(r, left) EXCEPT !.synced = actual]
  BY DEF Reconcile
<1> HIDE DEF left
<1>6. /\ Reconcile(r, actual) \in Ledger
      /\ Reconcile(r, actual).qty = (IF left <= 0 THEN 0 ELSE left)
      /\ Reconcile(r, actual).synced = actual
      /\ Reconcile(r, actual).last = r.last
      /\ Reconcile(r, actual).triggered = r.triggered
  BY <1>4, <1>5 DEF Ledger
<1> QED BY <1>1, <1>2, <1>3, <1>6, HoldingAssumption

LEMMA PruneFacts ==
  ASSUME NEW r \in Ledger
  PROVE  /\ Prune(r) \in Ledger
         /\ Prune(r).qty <= r.qty
         /\ Prune(r).synced = r.synced
         /\ r.last \in {"submitted", "succeeded"} => Prune(r) = r
         /\ r.qty = 0 => Prune(r) = r
<1>1. r.qty \in 0..MaxHolding
  BY DEF Ledger
<1> QED BY <1>1, ReleasedFacts, HoldingAssumption DEF Prune

LEMMA OlderFacts ==
  ASSUME NEW r \in Ledger
  PROVE  /\ Older(r) \in Ledger
         /\ Older(r).qty = r.qty /\ Older(r).synced = r.synced
         /\ Older(r).last = r.last /\ Older(r).triggered = r.triggered
BY TtlAssumption DEF Older, Lesser, Ledger

-----------------------------------------------------------------------------
(* The type invariant made inductive.  A handler whose cycle is alive only *)
(* exists inside that cycle, and the quantity it is about to reserve fits  *)
(* into the position its guard saw.                                        *)
Attached    == h # "none" /\ ~detached => pc = "cycle"
GuardedFits == h = "guarded" /\ ~detached => order.qty + mem.qty <= snap
TypeInv     == TypeOK /\ open <= holding /\ Attached /\ GuardedFits /\ ReservedWithinHolding

USE HoldingAssumption, SettingsAssumption, TtlAssumption

LEMMA EmptyFacts == Empty \in Ledger /\ NoOrder \in Orders
<1>1. 0 \in 0..MaxHolding /\ 0 \in 0..SlowTtl
  OBVIOUS
<1> QED BY <1>1 DEF Empty, NoOrder, Ledger, Orders, Actions

LEMMA InitTypeInv == Init => TypeInv
<1> SUFFICES ASSUME Init PROVE TypeInv
  OBVIOUS
<1>1. Held \in 0..MaxHolding /\ 0 \in 0..MaxHolding
  OBVIOUS
<1>2. TypeOK
  BY <1>1, EmptyFacts DEF Init, TypeOK
<1>3. open <= holding /\ Attached /\ GuardedFits /\ ReservedWithinHolding
  BY DEF Init, Attached, GuardedFits, ReservedWithinHolding
<1> QED BY <1>2, <1>3 DEF TypeInv

(* What a signal asks for is a part of the position it was computed from. *)
LEMMA RecommendedFacts ==
  ASSUME snap \in 0..MaxHolding, snap > 0, NEW t \in Triggers
  PROVE  RecommendedQty(t) \in 1..MaxHolding /\ RecommendedQty(t) <= snap
BY DEF RecommendedQty

LEMMA TypeInvStep == TypeInv /\ [Next]_vars => TypeInv'
<1> SUFFICES ASSUME TypeInv, [Next]_vars PROVE TypeInv'
  OBVIOUS
<1> USE DEF TypeInv, TypeOK, Attached, GuardedFits, ReservedWithinHolding
<1>q. /\ holding \in Nat /\ open \in Nat /\ snap \in Nat /\ MaxHolding \in Nat
      /\ file.qty \in 0..MaxHolding /\ mem.qty \in 0..MaxHolding
      /\ order.qty \in 0..MaxHolding /\ order.trigger \in Triggers \cup {"none"}
  BY DEF Ledger, Orders
<1>1. CASE OpenCycle
  <2>1. Load(file) \in Ledger
    BY LoadFacts
  <2>2. /\ Reconcile(Load(file), holding) \in Ledger
        /\ Reconcile(Load(file), holding).qty <= holding
    BY <2>1, ReconcileFacts
  <2>3. /\ Prune(Reconcile(Load(file), holding)) \in Ledger
        /\ Prune(Reconcile(Load(file), holding)).qty <= Reconcile(Load(file), holding).qty
    BY <2>2, PruneFacts
  <2>4. Prune(Reconcile(Load(file), holding)).qty <= holding
    <3>1. /\ Reconcile(Load(file), holding).qty \in Nat
          /\ Prune(Reconcile(Load(file), holding)).qty \in Nat
      BY <2>2, <2>3 DEF Ledger
    <3> QED BY <3>1, <2>2, <2>3, <1>q
  <2>5. mem' \in Ledger /\ (mode = "legacy" => mem'.qty <= holding)
    BY <1>1, <2>1, <2>3, <2>4 DEF OpenCycle, Opened
  <2>6. h # "guarded" \/ detached
    BY <1>1 DEF OpenCycle
  <2> QED BY <1>1, <2>5, <2>6 DEF OpenCycle, handler, broker
<1>2. CASE OpenBlind
  <2>1. Load(file) \in Ledger
    BY LoadFacts
  <2>2. h # "guarded" \/ detached
    BY <1>2 DEF OpenBlind
  <2> QED BY <1>2, <2>1, <2>2 DEF OpenBlind, handler, broker
<1>3. ASSUME NEW t \in Triggers, Sell(t)
      PROVE  TypeInv'
  <2>1. snap > 0 /\ RecommendedQty(t) <= snap - mem.qty
    BY <1>3 DEF Sell, GuardPasses
  <2>2. RecommendedQty(t) \in 0..MaxHolding
    BY <2>1, RecommendedFacts
  <2>3. order' \in Orders /\ order'.qty = RecommendedQty(t)
    BY <1>3, <2>2 DEF Sell, Orders
  <2>4. order'.qty + mem.qty <= snap
    BY <2>1, <2>2, <2>3, <1>q
  <2> QED BY <1>3, <2>3, <2>4 DEF Sell, state, broker
<1>4. CASE Submit
  <2>1. CASE detached
    BY <1>4, <2>1 DEF Submit, Write, broker
  <2>2. CASE ~detached
    <3>1. order.qty + mem.qty <= snap /\ order.qty \in Nat
      BY <1>4, <2>2, <1>q DEF Submit
    <3>2. mem.qty + order.qty <= MaxHolding
      BY <3>1, <1>q
    <3>3. Reserve(mem, order.qty, order.trigger) \in Ledger
          /\ Reserve(mem, order.qty, order.trigger).qty = mem.qty + order.qty
      <4>1. order.trigger \in Triggers \cup {"none"}
        BY <1>q
      <4> QED BY <3>1, <3>2, <4>1, ReserveFacts
    <3> QED BY <1>4, <2>2, <3>1, <3>3, <1>q DEF Submit, Write, broker
  <2> QED BY <2>1, <2>2
<1>5. CASE BrokerAccepts
  BY <1>5, <1>q DEF BrokerAccepts, state
<1>6. CASE BrokerRejects
  BY <1>6 DEF BrokerRejects, state, broker
<1>7. CASE HandlerEnds
  <2>1. mem' \in Ledger /\ mem'.qty <= mem.qty
    <3>1. CASE mem' = mem
      BY <3>1, <1>q
    <3>2. CASE mem' = Succeed(mem, order)
      BY <3>2, SucceedFacts, <1>q
    <3>3. CASE mem' = Fail(mem, order)
      BY <3>3, FailFacts
    <3> QED BY <1>7, <3>1, <3>2, <3>3 DEF HandlerEnds, Write
  <2>2. mem'.qty \in Nat
    BY <2>1 DEF Ledger
  <2>3. /\ file' = file /\ h' = "none" /\ order' = NoOrder /\ detached' \in BOOLEAN
        /\ UNCHANGED <<mode, pc, snap, holding, open>>
    BY <1>7 DEF HandlerEnds, Write, broker
  <2>4. TypeOK'
    BY <2>1, <2>3, EmptyFacts
  <2>5. (Attached /\ GuardedFits /\ ReservedWithinHolding)'
    BY <2>1, <2>2, <2>3, <1>q
  <2> QED BY <2>3, <2>4, <2>5
<1>8. CASE EndCycle \/ EndUnsaved
  <2>1. file' \in Ledger
    BY <1>8, PruneFacts DEF EndCycle, EndUnsaved
  <2>2. /\ pc' = "idle" /\ mem' = Empty /\ snap' = 0
        /\ UNCHANGED <<mode, h, order, holding, open>>
    BY <1>8 DEF EndCycle, EndUnsaved, CloseCycle, broker
  <2>3. detached' \in BOOLEAN /\ (h # "none" => detached')
    BY <1>8 DEF EndCycle, EndUnsaved, CloseCycle
  <2>4. TypeOK'
    BY <2>1, <2>2, <2>3, EmptyFacts
  <2>5. (Attached /\ GuardedFits /\ ReservedWithinHolding)'
    BY <2>2, <2>3
  <2> QED BY <2>2, <2>4, <2>5
<1>9. ASSUME NEW m \in Modes, Crash(m)
      PROVE  TypeInv'
  <2>1. /\ mode' \in {"legacy", "lane"} /\ pc' = "idle" /\ mem' = Empty /\ snap' = 0
        /\ h' = "none" /\ order' = NoOrder /\ detached' \in BOOLEAN
        /\ UNCHANGED <<file, holding, open>>
    BY <1>9 DEF Crash, broker
  <2>2. TypeOK'
    BY <2>1, EmptyFacts
  <2>3. (Attached /\ GuardedFits /\ ReservedWithinHolding)'
    BY <2>1
  <2> QED BY <2>1, <2>2, <2>3
<1>10. ASSUME NEW n \in Quantities, Fill(n) \/ Buy(n) \/ ManualSale(n)
       PROVE  TypeInv'
  <2>1. holding' \in 0..MaxHolding /\ open' \in 0..MaxHolding /\ open' <= holding'
    BY <1>10, <1>q DEF Fill, Buy, ManualSale, Quantities
  <2> QED BY <1>10, <2>1 DEF Fill, Buy, ManualSale, state, handler
<1>11. CASE Tick
  BY <1>11, OlderFacts DEF Tick, handler, broker
<1>12. CASE UNCHANGED vars
  BY <1>12 DEF vars, state, handler, broker
<1> QED
  BY <1>1, <1>2, <1>3, <1>4, <1>5, <1>6, <1>7, <1>8, <1>9, <1>10, <1>11, <1>12 DEF Next

(* Every variable keeps its type, whatever goes wrong. *)
THEOREM TypeCorrect == Spec => []TypeOK
<1>1. TypeInv => TypeOK
  BY DEF TypeInv
<1> QED BY <1>1, InitTypeInv, TypeInvStep, PTL DEF Spec

(* A reconciled cycle never reserves more than the position it has seen,   *)
(* whatever goes wrong.                                                    *)
THEOREM ReservedWithinHoldingAlways == Spec => []ReservedWithinHolding
<1>1. TypeInv => ReservedWithinHolding
  BY DEF TypeInv
<1> QED BY <1>1, InitTypeInv, TypeInvStep, PTL DEF Spec

-----------------------------------------------------------------------------
(* What the reservation survives: buys, failed balance inquiries and       *)
(* rejections, with one SELL trigger per symbol and day.  Neither          *)
(* condition can be dropped: TLC violates both invariants on four shares   *)
(* as soon as any other mishap is added, or OneTrigger is FALSE.           *)
Tolerated == Mishaps \subseteq {"buy", "balance_fails"} /\ OneTrigger

(* Without detaching, a handler lives inside its cycle. *)
HandlerInCycle == ~detached /\ (h # "none" => pc = "cycle")

(* A reservation belongs to one order, whose last outcome is not a failure *)
(* -- so that no pruning releases it.                                      *)
LastIsLive ==
  Current.qty > 0 => Current.last \in {"submitted", "succeeded"} /\ Current.triggered

(* The control state of the handler fixes what the reservation is. *)
OwnReservation ==
  /\ h = "guarded" => mem.qty = 0
  /\ h \in {"guarded", "sent"} => order.qty <= snap
  /\ h \in {"sent", "accepted", "rejected"} =>
       mem.qty = order.qty /\ mem.last = "submitted" /\ mem.triggered

(* Shares of the reservation that the handler will give back. *)
Owed == IF h \in {"sent", "rejected"} THEN order.qty ELSE 0

(* The reservation covers what the broker may still fill and what it has   *)
(* filled since the position was last looked at -- by the last sync, whose *)
(* difference the next reconciliation takes off, and by this cycle's       *)
(* snapshot, which the guard computes with.                                *)
Covered ==
  /\ open + Owed <= Current.qty
  /\ open + Owed + (Current.synced - holding) <= Current.qty
  /\ pc = "cycle" => open + Owed + (snap - holding) <= Current.qty

IInv == TypeInv /\ HandlerInCycle /\ LastIsLive /\ OwnReservation /\ Covered

LEMMA InitIInv == Init => IInv
<1> SUFFICES ASSUME Init PROVE IInv
  OBVIOUS
<1>1. TypeInv
  BY InitTypeInv
<1>2. HandlerInCycle /\ LastIsLive /\ OwnReservation /\ Covered
  BY DEF Init, HandlerInCycle, LastIsLive, OwnReservation, Covered, Owed, Current, Empty
<1> QED BY <1>1, <1>2 DEF IInv

(* The numbers the arithmetic steps below compare. *)
LEMMA Numbers ==
  ASSUME TypeInv
  PROVE  /\ holding \in Nat /\ open \in Nat /\ snap \in Nat /\ order.qty \in Nat
         /\ mem.qty \in Nat /\ mem.synced \in Nat /\ file.qty \in Nat /\ file.synced \in Nat
BY DEF TypeInv, TypeOK, Ledger, Orders

(* Opening a cycle: whatever the path, the reservation covers what is open *)
(* -- reconciliation takes off just what was filled since the last sync.   *)
LEMMA OpenedFacts ==
  ASSUME IInv, pc = "idle"
  PROVE  /\ Opened \in Ledger
         /\ open <= Opened.qty
         /\ open + (Opened.synced - holding) <= Opened.qty
         /\ Opened.qty > 0 => Opened.last \in {"submitted", "succeeded"} /\ Opened.triggered
<1> USE DEF IInv, TypeInv, TypeOK, HandlerInCycle, LastIsLive, Covered, Owed, Current
<1>1. /\ file \in Ledger /\ Load(file) \in Ledger
      /\ Load(file).qty = file.qty /\ Load(file).synced = file.synced
      /\ Load(file).last = file.last /\ Load(file).triggered = file.triggered
  BY LoadFacts
<1>2. /\ open <= file.qty /\ open + (file.synced - holding) <= file.qty
      /\ open \in Nat /\ holding \in Nat /\ open <= holding
  BY Numbers
<1>3. CASE mode # "legacy"
  BY <1>1, <1>2, <1>3, Numbers DEF Opened
<1>4. CASE mode = "legacy"
  <2> DEFINE r == Reconcile(Load(file), holding)
  <2>1. /\ r \in Ledger /\ r.qty <= file.qty /\ r.synced = holding
        /\ r.last = file.last /\ r.triggered = file.triggered
    BY <1>1, ReconcileFacts
  <2>2. open <= r.qty
    BY <1>1, <1>2, ReconcileFacts
  <2>3. r.qty \in Nat /\ file.qty \in Nat
    BY <2>1, <1>1 DEF Ledger
  <2> HIDE DEF r
  <2>4. r.qty > 0 => r.last \in {"submitted", "succeeded"} /\ r.triggered
    BY <2>1, <2>3
  <2>5. Prune(r) = r
    BY <2>1, <2>3, <2>4, PruneFacts
  <2>6. Opened = r
    BY <1>4, <2>5 DEF Opened, r
  <2> QED BY <1>2, <2>1, <2>2, <2>3, <2>4, <2>6
<1> QED BY <1>3, <1>4

LEMMA IInvStep == Tolerated /\ IInv /\ [Next]_vars => IInv'
<1> SUFFICES ASSUME Tolerated, IInv, [Next]_vars PROVE IInv'
  OBVIOUS
<1>t. TypeInv /\ TypeInv'
  BY TypeInvStep DEF IInv
<1>n. /\ holding \in Nat /\ open \in Nat /\ snap \in Nat /\ order.qty \in Nat
      /\ mem.qty \in Nat /\ mem.synced \in Nat /\ file.qty \in Nat /\ file.synced \in Nat
      /\ open <= holding /\ mem \in Ledger /\ file \in Ledger /\ order \in Orders
      /\ detached \in BOOLEAN /\ pc \in {"idle", "cycle"}
  BY <1>t, Numbers DEF TypeInv, TypeOK
<1> SUFFICES (HandlerInCycle /\ LastIsLive /\ OwnReservation /\ Covered)'
  BY <1>t DEF IInv
<1> USE DEF IInv, HandlerInCycle, LastIsLive, OwnReservation, Covered, Owed, Current
<1>1. CASE OpenCycle
  <2>1. /\ pc = "idle" /\ h = "none" /\ mem' = Opened /\ snap' = holding /\ pc' = "cycle"
        /\ UNCHANGED <<h, order, detached, holding, open>>
    BY <1>1 DEF OpenCycle, handler, broker
  <2>2. /\ Opened \in Ledger
        /\ open <= Opened.qty
        /\ open + (Opened.synced - holding) <= Opened.qty
        /\ Opened.qty > 0 => Opened.last \in {"submitted", "succeeded"} /\ Opened.triggered
    BY <2>1, OpenedFacts
  <2> QED BY <1>n, <2>1, <2>2 DEF Ledger
<1>2. CASE OpenBlind
  <2>1. /\ pc = "idle" /\ h = "none" /\ mem' = Load(file) /\ snap' = 0 /\ pc' = "cycle"
        /\ UNCHANGED <<h, order, detached, holding, open>>
    BY <1>2 DEF OpenBlind, handler, broker
  <2>2. /\ Load(file).qty = file.qty /\ Load(file).synced = file.synced
        /\ Load(file).last = file.last /\ Load(file).triggered = file.triggered
    BY <1>n, LoadFacts
  <2> QED BY <1>n, <2>1, <2>2
<1>3. ASSUME NEW t \in Triggers, Sell(t)
      PROVE  (HandlerInCycle /\ LastIsLive /\ OwnReservation /\ Covered)'
  <2>1. /\ pc = "cycle" /\ h = "none" /\ GuardPasses(mem, RecommendedQty(t))
        /\ h' = "guarded" /\ order'.qty = RecommendedQty(t)
        /\ UNCHANGED <<pc, mem, file, snap, detached, holding, open>>
    BY <1>3 DEF Sell, state, broker
  <2>2. mem.qty = 0
    BY <2>1, <1>n DEF GuardPasses, Tolerated
  <2>3. RecommendedQty(t) <= snap
    BY <2>1, <2>2, <1>t, RecommendedFacts DEF GuardPasses, TypeInv, TypeOK
  <2> QED BY <1>n, <2>1, <2>2, <2>3
<1>4. CASE Submit
  <2>1. /\ h = "guarded" /\ h' = "sent" /\ mem' = Reserve(mem, order.qty, order.trigger)
        /\ UNCHANGED <<pc, file, snap, order, detached, holding, open>>
    BY <1>4 DEF Submit, Write, broker
  <2>2. order.qty <= snap /\ snap <= MaxHolding /\ mem.qty = 0 /\ pc = "cycle"
        /\ order.trigger \in Triggers \cup {"none"}
    BY <2>1, <1>n, <1>t DEF TypeInv, TypeOK, Orders
  <2>3. mem.qty + order.qty <= MaxHolding
    BY <2>2, <1>n
  <2>4. /\ mem'.qty = mem.qty + order.qty /\ mem'.synced = mem.synced
        /\ mem'.last = "submitted" /\ mem'.triggered
    BY <2>1, <2>2, <2>3, <1>n, ReserveFacts
  <2> QED BY <1>n, <2>1, <2>2, <2>4
<1>5. CASE BrokerAccepts
  <2>1. /\ h = "sent" /\ open' = open + order.qty /\ h' = "accepted"
        /\ UNCHANGED <<pc, mem, file, snap, order, detached, holding>>
    BY <1>5 DEF BrokerAccepts, state, Tolerated
  <2> QED BY <1>n, <2>1
<1>6. CASE BrokerRejects
  <2>1. /\ h = "sent" /\ h' = "rejected"
        /\ UNCHANGED <<pc, mem, file, snap, order, detached, holding, open>>
    BY <1>6 DEF BrokerRejects, state, broker
  <2> QED BY <1>n, <2>1
<1>7. CASE HandlerEnds
  <2>1. /\ h' = "none" /\ ~detached' /\ pc = "cycle"
        /\ UNCHANGED <<pc, snap, holding, open>>
    BY <1>7 DEF HandlerEnds, broker
  <2>2. CASE h = "accepted"
    <3>1. mem' = Succeed(mem, order)
      BY <1>7, <2>2 DEF HandlerEnds, Write
    <3>2. /\ mem'.qty = mem.qty /\ mem'.synced = mem.synced
          /\ mem'.last = "succeeded" /\ mem'.triggered
      BY <3>1, <2>2, <1>n, SucceedFacts
    <3> QED BY <1>n, <2>1, <2>2, <3>2
  <2>3. CASE h = "rejected"
    <3>1. mem' = Fail(mem, order)
      BY <1>7, <2>3 DEF HandlerEnds, Write
    <3>2. mem'.qty = 0 /\ mem'.synced = mem.synced
      BY <3>1, <2>3, <1>n, FailFacts
    <3> QED BY <1>n, <2>1, <2>3, <3>2
  <2> QED BY <1>7, <2>2, <2>3 DEF HandlerEnds
<1>8. CASE EndCycle
  <2>1. /\ h = "none" /\ pc = "cycle" /\ pc' = "idle" /\ file' = Prune(mem) /\ ~detached'
        /\ UNCHANGED <<h, order, holding, open>>
    BY <1>8 DEF EndCycle, CloseCycle, broker, Tolerated
  <2>2. Prune(mem) = mem
    BY <2>1, <1>n, PruneFacts
  <2> QED BY <1>n, <2>1, <2>2
<1>9. CASE EndUnsaved \/ \E m \in Modes : Crash(m)
  BY <1>9 DEF EndUnsaved, Crash, Tolerated
<1>10. ASSUME NEW n \in Quantities, Fill(n)
       PROVE  (HandlerInCycle /\ LastIsLive /\ OwnReservation /\ Covered)'
  <2>1. /\ n \in Nat /\ n <= open /\ open' = open - n /\ holding' = holding - n
        /\ UNCHANGED <<pc, mem, file, snap, h, order, detached>>
    BY <1>10 DEF Fill, state, handler, Quantities
  <2> QED BY <1>n, <2>1
<1>11. ASSUME NEW n \in Quantities, Buy(n)
       PROVE  (HandlerInCycle /\ LastIsLive /\ OwnReservation /\ Covered)'
  <2>1. /\ n \in Nat /\ holding' = holding + n
        /\ UNCHANGED <<pc, mem, file, snap, h, order, detached, open>>
    BY <1>11 DEF Buy, state, handler, Quantities
  <2> QED BY <1>n, <2>1
<1>12. ASSUME NEW n \in Quantities, ManualSale(n)
       PROVE  FALSE
  BY <1>12 DEF ManualSale, Tolerated
<1>13. CASE Tick
  <2>1. /\ file' = Older(file) /\ mem' = Older(mem)
        /\ UNCHANGED <<pc, snap, h, order, detached, holding, open>>
    BY <1>13 DEF Tick, handler, broker
  <2>2. /\ mem'.qty = mem.qty /\ mem'.synced = mem.synced
        /\ mem'.last = mem.last /\ mem'.triggered = mem.triggered
        /\ file'.qty = file.qty /\ file'.synced = file.synced
        /\ file'.last = file.last /\ file'.triggered = file.triggered
    BY <2>1, <1>n, OlderFacts
  <2> QED BY <1>n, <2>1, <2>2
<1>14. CASE UNCHANGED vars
  BY <1>14 DEF vars, state, handler, broker
<1> QED
  BY <1>1, <1>2, <1>3, <1>4, <1>5, <1>6, <1>7, <1>8, <1>9, <1>10, <1>11, <1>12, <1>13, <1>14
  DEF Next

(* Whatever the broker may still fill is reserved, for every position, on  *)
(* both paths, as long as requests have unambiguous answers, states are    *)
(* saved, handlers stay in their cycle and nobody else sells.              *)
THEOREM AcceptedIsReservedAlways ==
  ASSUME Tolerated PROVE Spec => []AcceptedIsReserved
<1>1. IInv => AcceptedIsReserved
  <2> SUFFICES ASSUME IInv PROVE AcceptedIsReserved
    OBVIOUS
  <2>1. TypeInv
    BY DEF IInv
  <2> QED BY <2>1, Numbers DEF IInv, Covered, Owed, AcceptedIsReserved, InFlight, Current
<1>2. IInv /\ [Next]_vars => IInv'
  BY IInvStep
<1> QED BY <1>1, <1>2, InitIInv, PTL DEF Spec

(* No order goes out for shares that are sold or being sold, under the     *)
(* same conditions.                                                        *)
THEOREM NeverOversellsAlways ==
  ASSUME Tolerated PROVE Spec => []NeverOversells
<1>1. IInv => NeverOversells
  <2> SUFFICES ASSUME IInv, h = "sent" PROVE order.qty <= holding - open
    BY DEF NeverOversells
  <2>1. TypeInv /\ pc = "cycle"
    BY DEF IInv, HandlerInCycle
  <2>2. /\ mem.qty = order.qty /\ order.qty <= snap
        /\ open + order.qty <= mem.qty /\ open + order.qty + (snap - holding) <= mem.qty
    BY <2>1 DEF IInv, OwnReservation, Covered, Owed, Current
  <2> QED BY <2>1, <2>2, Numbers
<1>2. IInv /\ [Next]_vars => IInv'
  BY IInvStep
<1> QED BY <1>1, <1>2, InitIInv, PTL DEF Spec
=============================================================================

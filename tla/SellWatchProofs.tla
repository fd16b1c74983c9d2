--------------------------- MODULE SellWatchProofs ---------------------------
(***************************************************************************)
(* Proofs about SellWatch, for any lists of holdings.                      *)
(*                                                                         *)
(* On the legacy path the holding that is owed its turn, while anything   *)
(* still keeps it, is written down somewhere between any two steps: as the *)
(* anchor of the state that is saved or will be, as the holding its cursor *)
(* points at, or as the first position of a walk that has not begun.       *)
(***************************************************************************)
EXTENDS SellWatch, TLAPS

Holdings(o) == {o[k] : k \in DOMAIN o}

(* A walk has a list and begins within it; between cycles there is none. *)
WalkFits ==
  /\ pc \in {"loop", "done"} => order \in Orders /\ start < Len(order) /\ seen \subseteq Holdings(order)
  /\ pc = "idle" => start = 0 /\ limit = 0 /\ visited = 0

(* The state st brings the next walk to the holding that is owed. *)
Keeps(st) ==
  IF kept = "anchor" THEN st.retry = owed
  ELSE /\ st.retry = NoSymbol
       /\ order \in Orders /\ st.cursor < Len(order) /\ order[st.cursor + 1] = owed

WrittenDown ==
  /\ pc = "idle" => Keeps(file)
  /\ pc = "loop" /\ visited = 0 =>
       /\ Position(0) = owed
       /\ mem.retry = IF kept = "anchor" THEN owed ELSE NoSymbol
  /\ pc = "loop" /\ visited > 0 => hit /\ kept = "anchor" /\ mem.retry = owed
  /\ pc = "done" => Keeps(mem)

OwedIsKept == mode = "legacy" /\ owed # NoSymbol /\ kept # "nothing" => WrittenDown

IInv == TypeOK /\ WalkFits /\ OwedIsKept

-----------------------------------------------------------------------------
(* Remainders and shares. *)
LEMMA Remainder ==
  ASSUME NEW a \in Nat, NEW n \in Nat \ {0}
  PROVE  a % n \in 0..(n - 1) /\ (a < n => a % n = a)
OBVIOUS

LEMMA SettingFacts ==
  /\ MaxHoldings \in Nat \ {0} /\ MaxMishaps \in Nat
  /\ Modes \subseteq {"legacy", "lane"} /\ Risks \subseteq BOOLEAN
BY OrdersAssumption, SettingsAssumption

LEMMA ListFacts ==
  ASSUME NEW o \in Orders
  PROVE  /\ Len(o) \in Nat \ {0} /\ Len(o) <= MaxHoldings /\ DOMAIN o = 1..Len(o)
         /\ Holdings(o) \subseteq Symbol
         /\ \A k \in DOMAIN o : o[k] \in Symbol
BY OrdersAssumption DEF Holdings

(* No budget plan allows more evaluations than there are holdings. *)
LEMMA LimitFits ==
  ASSUME TypeOK, NEW n \in Nat \ {0}, NEW lim \in Limits(n)
  PROVE  lim \in 0..n
<1>1. Share(n, 2) \in 0..n /\ Share(n, 3) \in 0..n
  BY DEF Share
<1>2. SoftCap(n) \in 0..n
  BY <1>1 DEF SoftCap, TypeOK, Budget, Pressures
<1> QED
  BY <1>2 DEF Limits

LEMMA OrderFits == TypeOK => Len(order) \in Nat
BY ListFacts DEF TypeOK

(* Fresh states, and what a cycle leaves in the memory of the process. *)
LEMMA FreshFits == Default \in State /\ NewBudget \in Budget
BY SettingFacts DEF Default, State, NewBudget, Budget, Pressures

LEMMA RememberFits == TypeOK /\ Remember => api' \in Budget
<1> SUFFICES ASSUME TypeOK, NEW l \in Pressures,
                    api' = [partial |-> mem.partial,
                            streak |-> IF mem.partial THEN Lesser(api.streak + 1, 2) ELSE 0,
                            limited |-> l]
             PROVE  api' \in Budget
  BY DEF Remember
<1>1. (IF mem.partial THEN Lesser(api.streak + 1, 2) ELSE 0) \in 0..2
  BY DEF TypeOK, Budget, Lesser
<1>2. mem.partial \in BOOLEAN
  BY DEF TypeOK, State
<1> QED
  BY <1>1, <1>2, Zenon DEF Budget

LEMMA RecoverFits == TypeOK /\ Recover => api' \in Budget
BY DEF TypeOK, Recover, Budget

(* A walk begins at a holding; at the anchor, if it is held. *)
LEMMA StartFits ==
  ASSUME TypeOK, NEW o \in Orders, NEW top
  PROVE  /\ Start(o, top) \in 0..(Len(o) - 1)
         /\ Anchored(o) => o[Start(o, top) + 1] = file.retry
<1>1. CASE Anchored(o)
  <2> DEFINE k == CHOOSE j \in DOMAIN o : o[j] = file.retry
  <2>1. k \in DOMAIN o /\ o[k] = file.retry
    BY <1>1 DEF Anchored
  <2>2. Start(o, top) = k - 1
    BY <1>1 DEF Start
  <2> HIDE DEF k
  <2> QED
    BY <2>1, <2>2, ListFacts
<1>2. CASE ~Anchored(o)
  <2>1. file.cursor \in Nat
    BY OrdersAssumption DEF TypeOK, State
  <2>2. file.cursor % Len(o) \in 0..(Len(o) - 1)
    BY <2>1, ListFacts, Remainder
  <2> QED
    BY <1>2, <2>2, ListFacts DEF Start
<1> QED
  BY <1>1, <1>2

(* Every position of a walk is a holding; the first is where it starts. *)
LEMMA PositionFits ==
  ASSUME TypeOK, order \in Orders, start < Len(order), NEW n \in Nat
  PROVE  Position(n) \in Holdings(order) /\ Position(0) = order[start + 1]
<1>1. start \in Nat /\ Len(order) \in Nat \ {0} /\ DOMAIN order = 1..Len(order)
  BY ListFacts DEF TypeOK
<1>2. (start + n) % Len(order) \in 0..(Len(order) - 1)
  <2>1. start + n \in Nat
    BY <1>1
  <2> QED
    BY <1>1, <2>1, Remainder
<1>3. (start + 0) % Len(order) = start
  <2>1. start + 0 = start
    BY <1>1
  <2>2. start % Len(order) = start
    BY <1>1, Remainder
  <2> QED
    BY <2>1, <2>2
<1>4. ((start + n) % Len(order)) + 1 \in DOMAIN order
  BY <1>1, <1>2
<1> QED
  BY <1>3, <1>4 DEF Position, Holdings

(* The index of a holding of the list. *)
LEMMA IndexFits ==
  ASSUME NEW o \in Orders, NEW s \in Holdings(o)
  PROVE  (CHOOSE k \in DOMAIN o : o[k] = s) - 1 \in 0..(MaxHoldings - 1)
<1> DEFINE k == CHOOSE j \in DOMAIN o : o[j] = s
<1>1. k \in DOMAIN o
  BY DEF Holdings
<1>2. k - 1 \in 0..(MaxHoldings - 1)
  <2> HIDE DEF k
  <2> QED
    BY <1>1, ListFacts, SettingFacts
<1> QED
  BY <1>2

-----------------------------------------------------------------------------
(* Every variable keeps its type, and a walk its list. *)
LEMMA TypeStep == IInv /\ [Next]_vars => TypeOK' /\ WalkFits'
<1> SUFFICES ASSUME IInv, [Next]_vars PROVE TypeOK' /\ WalkFits'
  OBVIOUS
<1> USE SettingFacts DEF IInv, TypeOK, WalkFits, State, Budget, Pressures, Default, NewBudget, list, walk, turn, Visits, Owes, Plans
<1>1. ASSUME NEW o \in Orders, NEW top \in Risks, NEW lim \in Limits(Len(o)), OpenCycle(o, top, lim)
      PROVE  TypeOK' /\ WalkFits'
  <2>1. lim \in 0..Len(o) /\ Start(o, top) \in 0..(Len(o) - 1)
    BY ListFacts, LimitFits, StartFits
  <2>2. mem' \in State
    BY <1>1 DEF OpenCycle, RetryAfterPlan
  <2> HIDE DEF State, Budget
  <2> QED
    <3>1. /\ order' = o /\ o \in Orders /\ Len(o) \in Nat \ {0}
          /\ start' \in 0..(Len(o) - 1) /\ limit' \in 0..Len(o) /\ visited' = 0
      BY <1>1, <2>1, ListFacts DEF OpenCycle
    <3>2. /\ start' \in 0..Len(order') /\ start' < Len(order')
          /\ limit' \in 0..Len(order') /\ visited' \in 0..limit'
      BY <3>1
    <3>3. owed' \in Symbol \cup {NoSymbol} /\ kept' \in {"anchor", "cursor", "nothing"} /\ seen' = {}
      BY <1>1 DEF OpenCycle
    <3> QED
      BY <1>1, <2>2, <3>1, <3>2, <3>3, Zenon DEF OpenCycle
<1>2. ASSUME NEW o \in Orders, NEW top \in Risks, ClosedCycle(o, top)
      PROVE  TypeOK' /\ WalkFits'
  <2>1. Start(o, top) \in 0..(MaxHoldings - 1)
    BY ListFacts, StartFits
  <2>2. api' \in Budget
    BY <1>2, RecoverFits DEF ClosedCycle
  <2>3. file' \in State
    BY <1>2, <2>1, Zenon DEF ClosedCycle, State
  <2> HIDE DEF State, Budget
  <2> QED
    BY <1>2, <2>2, <2>3, ListFacts DEF ClosedCycle
<1>3. ASSUME NEW s \in Symbol, Evaluate(s)
      PROVE  TypeOK' /\ WalkFits'
  <2>1. s \in Holdings(order)
    BY <1>3, PositionFits DEF Evaluate, CanVisit
  <2> QED
    BY <1>3, <2>1 DEF Evaluate, CanVisit
<1>4. ASSUME NEW s \in Symbol, DeferSell(s)
      PROVE  TypeOK' /\ WalkFits'
  <2>1. (CHOOSE k \in DOMAIN order : order[k] = s) - 1 \in 0..(MaxHoldings - 1)
    <3>1. order \in Orders /\ s \in Holdings(order)
      BY <1>4 DEF DeferSell
    <3> HIDE DEF IInv, TypeOK, WalkFits, State, Budget
    <3> QED
      BY <3>1, IndexFits
  <2>2. mem' \in State
    BY <1>4, <2>1, Zenon DEF DeferSell
  <2> HIDE DEF State, Budget, Default, NewBudget
  <2> QED
    BY <1>4, <2>2 DEF DeferSell
<1>5. CASE QuoteFails
  BY <1>5 DEF QuoteFails, CanVisit
<1>6. CASE RateLimited
  <2>1. Position(visited) \in Symbol
    BY <1>6, PositionFits, ListFacts DEF RateLimited, CanVisit
  <2> QED
    BY <1>6, <2>1 DEF RateLimited, CanVisit
<1>7. CASE EndLoop
  <2>1. NextStart \in 0..(MaxHoldings - 1)
    <3>1. start + visited \in Nat /\ Len(order) \in Nat \ {0} /\ Len(order) <= MaxHoldings
      BY <1>7, ListFacts DEF EndLoop
    <3>2. (start + visited) % Len(order) \in 0..(Len(order) - 1)
      BY <3>1, Remainder
    <3> QED
      BY <1>7, <3>1, <3>2 DEF EndLoop, NextStart
  <2>2. (IF mode = "lane" /\ limit = 0 THEN mem.cursor ELSE NextStart) \in 0..(MaxHoldings - 1)
    BY <2>1
  <2>3. (hit \/ visited < Len(order)) \in BOOLEAN
    OBVIOUS
  <2>4. mem' \in State
    BY <1>7, <2>2, <2>3, Zenon DEF EndLoop
  <2> HIDE DEF State, Budget, Default, NewBudget
  <2> QED
    BY <1>7, <2>4 DEF EndLoop
<1>8. CASE EndCycle
  <2>1. api' \in Budget
    BY <1>8, RememberFits DEF EndCycle
  <2> HIDE DEF State, Budget, Default, Visits, Owes, Plans
  <2> QED
    <3>1. /\ start' \in 0..Len(order') /\ limit' \in 0..Len(order') /\ visited' \in 0..limit'
          /\ start' = 0 /\ limit' = 0 /\ visited' = 0 /\ seen' = {} /\ order' = order
      BY <1>8, OrderFits DEF EndCycle, Forget
    <3> QED
      BY <1>8, <2>1, <3>1, FreshFits DEF EndCycle, Forget
<1>9. CASE SkipCycle
  <2>1. api' \in Budget
    BY <1>9, RecoverFits DEF SkipCycle
  <2>2. file' \in State
    BY <1>9, Zenon DEF SkipCycle
  <2> HIDE DEF State, Budget
  <2> QED
    BY <1>9, <2>1, <2>2 DEF SkipCycle
<1>10. CASE EmptyCycle
  <2>1. api' \in Budget
    BY <1>10, RecoverFits DEF EmptyCycle
  <2>2. file' \in State
    <3>1. (IF mode = "legacy" THEN 0 ELSE file.cursor) \in 0..(MaxHoldings - 1)
      OBVIOUS
    <3> QED
      BY <1>10, <3>1, Zenon DEF EmptyCycle
  <2> HIDE DEF State, Budget
  <2> QED
    BY <1>10, <2>1, <2>2 DEF EmptyCycle
<1>11. CASE EndUnsaved
  <2>1. api' \in Budget
    BY <1>11, RememberFits DEF EndUnsaved
  <2> HIDE DEF State, Budget, Default
  <2> QED
    <3>1. /\ start' \in 0..Len(order') /\ limit' \in 0..Len(order') /\ visited' \in 0..limit'
          /\ start' = 0 /\ limit' = 0 /\ visited' = 0 /\ seen' = {} /\ order' = order
      BY <1>11, OrderFits DEF EndUnsaved, Forget
    <3>2. mishaps' \in 0..MaxMishaps
      BY <1>11 DEF EndUnsaved
    <3> QED
      BY <1>11, <2>1, <3>1, <3>2, FreshFits, SettingFacts, Zenon DEF EndUnsaved, Forget
<1>12. ASSUME NEW m \in Modes, Crash(m)
      PROVE  TypeOK' /\ WalkFits'
  <2> HIDE DEF State, Budget, Default, NewBudget
  <2> QED
    <3>1. /\ start' \in 0..Len(order') /\ limit' \in 0..Len(order') /\ visited' \in 0..limit'
          /\ start' = 0 /\ limit' = 0 /\ visited' = 0 /\ seen' = {} /\ order' = order
      BY <1>12, OrderFits DEF Crash, Forget
    <3>2. mishaps' \in 0..MaxMishaps
      BY <1>12 DEF Crash
    <3> QED
      BY <1>12, <3>1, <3>2, FreshFits, SettingFacts, Zenon DEF Crash, Forget
<1>13. CASE UNCHANGED vars
  BY <1>13 DEF vars
<1> HIDE DEF IInv, TypeOK, WalkFits, State, Budget, Pressures, Default, NewBudget, list, walk, turn, Visits, Owes, Plans
<1> QED
  BY <1>1, <1>2, <1>3, <1>4, <1>5, <1>6, <1>7, <1>8, <1>9, <1>10, <1>11, <1>12, <1>13
  DEF Next

(* What a legacy plan makes of the turn: the walk it plans begins with the *)
(* holding that is owed one, and the anchor is back if it should be.       *)
LEMMA PlanKeeps ==
  ASSUME IInv, mode = "legacy", pc = "idle", NEW o \in Orders, NEW top \in Risks,
         NEW restored \in BOOLEAN, Plans(o, top, restored), owed' # NoSymbol, kept' # "nothing"
  PROVE  /\ owed' = owed /\ o[Start(o, top) + 1] = owed
         /\ kept' = "anchor" => restored /\ Anchored(o) /\ file.retry = owed
         /\ kept' # "anchor" => ~restored \/ ~Anchored(o)
<1> USE DEF IInv, TypeOK, WalkFits, OwedIsKept, WrittenDown
<1>1. owed' = owed /\ owed \in Holdings(o) /\ kept # "nothing" /\ owed # NoSymbol
  BY Zenon DEF Plans, Holdings
<1>2. Keeps(file)
  BY <1>1
<1>3. CASE kept = "anchor"
  <2>1. file.retry = owed /\ Anchored(o)
    BY <1>1, <1>2, <1>3 DEF Keeps, Anchored, Holdings
  <2> QED
    BY <1>1, <1>3, <2>1, StartFits DEF Plans
<1>4. CASE kept = "cursor"
  <2>1. kept' = "cursor" /\ ~CursorMisses(o, top)
    BY <1>1, <1>4, Zenon DEF Plans, Holdings
  <2>2. o = order /\ ~(top /\ RecentPartial)
    BY <2>1 DEF CursorMisses
  <2>3. file.retry = NoSymbol /\ file.cursor < Len(o) /\ o[file.cursor + 1] = owed
    BY <1>2, <1>4, <2>2 DEF Keeps
  <2>4. ~Anchored(o)
    BY <2>3, ListFacts, OrdersAssumption DEF Anchored
  <2>5. Start(o, top) = file.cursor
    <3>1. file.cursor \in Nat /\ Len(o) \in Nat \ {0}
      BY ListFacts, SettingFacts DEF State
    <3>2. file.cursor % Len(o) = file.cursor
      BY <2>3, <3>1, Remainder
    <3> QED
      BY <2>2, <2>4, <3>2 DEF Start
  <2> QED
    BY <1>1, <2>1, <2>3, <2>4, <2>5
<1> QED
  BY <1>1, <1>3, <1>4

(* No step loses the holding that is owed its turn. *)
LEMMA OwedStep == IInv /\ [Next]_vars => OwedIsKept'
<1> SUFFICES ASSUME IInv, [Next]_vars, mode' = "legacy", owed' # NoSymbol, kept' # "nothing"
             PROVE  WrittenDown'
  BY DEF OwedIsKept
<1>a. /\ pc \in {"idle", "loop", "done"} /\ visited \in Nat
      /\ mem \in State /\ file \in State
      /\ kept \in {"anchor", "cursor", "nothing"}
      /\ pc \in {"loop", "done"} => order \in Orders /\ start < Len(order)
  <2>1. limit \in Nat
    BY OrderFits DEF IInv, TypeOK
  <2> QED
    BY <2>1 DEF IInv, TypeOK, WalkFits
<1>b. mode = "legacy" /\ owed # NoSymbol /\ kept # "nothing" => WrittenDown
  BY DEF IInv, OwedIsKept
<1> USE DEF WrittenDown
<1>1. ASSUME NEW o \in Orders, NEW top \in Risks, NEW lim \in Limits(Len(o)), OpenCycle(o, top, lim)
      PROVE  WrittenDown'
  <2>1. /\ mode = "legacy" /\ pc = "idle" /\ pc' = "loop" /\ visited' = 0
        /\ order' = o /\ start' = Start(o, top) /\ Plans(o, top, lim = 0)
        /\ mem'.retry = RetryAfterPlan(o, lim)
    BY <1>1, <1>a DEF OpenCycle, State
  <2>2. (lim = 0) \in BOOLEAN
    OBVIOUS
  <2>3. /\ owed' = owed /\ o[Start(o, top) + 1] = owed
        /\ kept' = "anchor" => lim = 0 /\ Anchored(o) /\ file.retry = owed
        /\ kept' # "anchor" => lim # 0 \/ ~Anchored(o)
    BY <2>1, <2>2, PlanKeeps
  <2>4. Position(0)' = o[Start(o, top) + 1]
    <3>1. Start(o, top) \in Nat /\ Start(o, top) < Len(o) /\ Len(o) \in Nat \ {0}
      BY StartFits, ListFacts DEF IInv
    <3> DEFINE x == Start(o, top)
    <3> HIDE DEF x
    <3>2. x + 0 = x /\ x % Len(o) = x
      BY <3>1, Remainder DEF x
    <3>3. Position(0)' = o[((x + 0) % Len(o)) + 1]
      BY <2>1 DEF Position, x
    <3> QED
      BY <3>2, <3>3 DEF x
  <2>5. mem'.retry = IF kept' = "anchor" THEN owed' ELSE NoSymbol
    BY <2>1, <2>3 DEF RetryAfterPlan
  <2> QED
    BY <2>1, <2>3, <2>4, <2>5
<1>2. ASSUME NEW o \in Orders, NEW top \in Risks, ClosedCycle(o, top)
      PROVE  WrittenDown'
  <2>1. /\ mode = "legacy" /\ pc = "idle" /\ pc' = "idle" /\ order' = o
        /\ Plans(o, top, FALSE) /\ file'.cursor = Start(o, top) /\ file'.retry = NoSymbol
    BY <1>2 DEF ClosedCycle
  <2>2. owed' = owed /\ o[Start(o, top) + 1] = owed /\ kept' # "anchor"
    BY <2>1, PlanKeeps
  <2>3. Start(o, top) < Len(o)
    BY StartFits, ListFacts DEF IInv
  <2> QED
    BY <2>1, <2>2, <2>3 DEF Keeps
<1>3. ASSUME NEW s \in Symbol, Evaluate(s)
      PROVE  WrittenDown'
  BY <1>3, <1>a, <1>b DEF Evaluate, CanVisit, Visits, turn
<1>4. ASSUME NEW s \in Symbol, DeferSell(s)
      PROVE  WrittenDown'
  BY <1>4, <1>a DEF DeferSell, Owes, Keeps, State
<1>5. CASE QuoteFails
  BY <1>5, <1>a, <1>b DEF QuoteFails, CanVisit, Visits, turn
<1>6. CASE RateLimited
  BY <1>6, <1>a DEF RateLimited, CanVisit, Owes, State
<1>7. CASE EndLoop
  <2>1. /\ mode = "legacy" /\ pc = "loop" /\ pc' = "done" /\ owed' = owed /\ kept' = kept
        /\ order' = order /\ mem'.retry = mem.retry /\ mem'.cursor = NextStart
    BY <1>7, <1>a DEF EndLoop, State, turn, list
  <2>2. CASE visited > 0
    BY <1>b, <2>1, <2>2 DEF Keeps
  <2>3. CASE visited = 0
    <3>1. Position(0) = order[start + 1] /\ NextStart = start
      BY <1>a, <2>1, <2>3, PositionFits DEF NextStart, IInv
    <3> QED
      BY <1>b, <1>a, <2>1, <2>3, <3>1 DEF Keeps
  <2> QED
    BY <1>a, <2>2, <2>3
<1>8. CASE EndCycle
  BY <1>8, <1>b DEF EndCycle, Forget, Keeps, turn, list
<1>9. CASE SkipCycle
  BY <1>9, <1>a, <1>b DEF SkipCycle, Keeps, State, turn, list
<1>10. CASE EmptyCycle
  BY <1>10, <1>a, <1>b DEF EmptyCycle, Keeps, State
<1>11. CASE EndUnsaved
  BY <1>11 DEF EndUnsaved
<1>12. ASSUME NEW m \in Modes, Crash(m)
      PROVE  WrittenDown'
  BY <1>12, <1>b DEF Crash, Forget, Keeps, list
<1>13. CASE UNCHANGED vars
  BY <1>13, <1>b DEF vars, turn, list, walk, Keeps, Position
<1> HIDE DEF WrittenDown
<1> QED
  BY <1>1, <1>2, <1>3, <1>4, <1>5, <1>6, <1>7, <1>8, <1>9, <1>10, <1>11, <1>12, <1>13
  DEF Next

-----------------------------------------------------------------------------
LEMMA Invariant == Spec => []IInv
<1>1. Init => IInv
  <2> SUFFICES ASSUME Init PROVE IInv
    OBVIOUS
  <2>1. TypeOK
    <3>1. start \in 0..Len(order) /\ limit \in 0..Len(order) /\ visited \in 0..limit /\ mishaps \in 0..MaxMishaps
      BY SettingFacts DEF Init
    <3> QED
      BY <3>1, FreshFits, SettingFacts, Zenon DEF Init, TypeOK
  <2> QED
    BY <2>1 DEF Init, IInv, WalkFits, OwedIsKept
<1>2. IInv /\ [Next]_vars => IInv'
  BY TypeStep, OwedStep DEF IInv
<1> QED
  BY <1>1, <1>2, PTL DEF Spec

(* Every variable keeps its type: the cursor stays an index into the       *)
(* longest list, whatever lists the cycles find (runtime_adapters.py:598). *)
THEOREM TypeCorrect == Spec => []TypeOK
<1>1. IInv => TypeOK
  BY DEF IInv
<1> QED
  BY <1>1, Invariant, PTL

(* For any lists of holdings: on the legacy path the walk after a rate     *)
(* limit begins with the holding it hit, or whose SELL was put off,        *)
(* whatever empty budgets, re-sorted lists and overrides come between, as  *)
(* long as the anchor is kept or the cursor left in its place is good      *)
(* (sell_watch_cursor.py:38-47, sell_watch_phase.py:263-269).              *)
THEOREM RetryIsFirstAlways == Spec => []RetryIsFirst
<1>1. IInv => RetryIsFirst
  BY DEF IInv, OwedIsKept, WrittenDown, RetryIsFirst
<1> QED
  BY <1>1, Invariant, PTL
=============================================================================

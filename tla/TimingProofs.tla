----------------------------- MODULE TimingProofs -----------------------------
(***************************************************************************)
(* Proofs about the two components whose correctness is a matter of time:  *)
(* the budget of a cycle that two lanes share, LaneCycle, and the ledger   *)
(* of requests that threads share, Throttle.                               *)
(*                                                                         *)
(* That a SELL intent survives the BUY scan of its cycle is arithmetic, for *)
(* every budget, floor and deadline: while the scheduler waits, the time   *)
(* it may still wait and what is left of the budget shrink together.       *)
(* Waiting says what is between them in each place it can wait at.         *)
(*                                                                         *)
(* That the race of the throttle multiplies the rate by the number of      *)
(* threads and no more holds since every thread waits until its own last   *)
(* request is an interval old, whatever the others enter meanwhile: Spread *)
(* says so, and counting the intervals of a window gives the bound.  What  *)
(* a thread that nobody crossed computed is still true when it sends:      *)
(* Careful says so.                                                        *)
(***************************************************************************)
EXTENDS LaneCycle, Throttle, FiniteSetTheorems, WellFoundedInduction, SequenceTheorems, TLAPS


(* No time passes between the SELL lane and the choice of the BUY branch. *)
Fresh == (pc = "sell" => ~sell) /\ (pc = "scan" /\ sell => born = left)

(* The join's timeout and the floor are what is left of the budget. *)
Joining == pc = "join" => asked.buy /\ asked.overlap /\ left = timer + Floor

Fetching ==
  pc = "fetch" =>
    /\ asked.buy /\ ~asked.overlap
    /\ timer <= left
    /\ sell => born > Floor /\ left >= born - Deadline + timer

Building ==
  pc = "factory" =>
    /\ asked.buy
    /\ timer <= Factory
    /\ asked.overlap => left + Factory - timer >= Floor
    /\ ~asked.overlap /\ sell =>
         born > Floor /\ left + Factory - timer >= born - Deadline

(* A cycle that overlaps is one whose settings say so. *)
Owned == mine => asked.buy /\ asked.overlap

Waiting == Fresh /\ Joining /\ Fetching /\ Building /\ Owned

IInv == TypeOK /\ Waiting /\ SellSurvivesTheScan

-----------------------------------------------------------------------------
(* A step of the lane pipeline keeps every variable in its type.           *)
LEMMA TypeStep == TypeOK /\ [Next]_vars => TypeOK'
<1> SUFFICES ASSUME TypeOK, [Next]_vars PROVE TypeOK'
  OBVIOUS
<1> USE BudgetAssumption DEF TypeOK, Goto
<1>1. ASSUME NEW a \in Asks, StartCycle(a) PROVE TypeOK'
  <2>1. mine' \in BOOLEAN
    <3>1. mine' = (Overlapping(a) /\ Allowed)
      BY <1>1, Zenon DEF StartCycle
    <3>2. CASE Overlapping(a) /\ Allowed
      BY <3>1, <3>2, Zenon
    <3>3. CASE ~(Overlapping(a) /\ Allowed)
      BY <3>1, <3>3, Zenon
    <3> QED
      BY <3>2, <3>3
  <2>2. worker' \in {"running", worker}
    BY <1>1, Zenon DEF StartCycle
  <2>3. /\ pc' = "sell" /\ left' = Hard /\ asked' = a /\ timer' = 0
        /\ sell' = FALSE /\ born' = 0 /\ buy' = FALSE
    BY <1>1, Zenon DEF StartCycle
  <2>4. sell' \in BOOLEAN /\ buy' \in BOOLEAN
    BY <2>3, Zenon
  <2>5. worker' \in {"none", "running", "ok", "failed"}
    BY <2>2, Zenon
  <2>6. left' \in 0..Hard /\ timer' \in 0..Hard /\ born' \in 0..Hard
    BY <2>3
  <2>7. pc' \in {"idle", "sell", "scan", "join", "fetch", "factory", "gate"} /\ asked' \in Asks
    BY <2>3, Zenon
  <2> QED
    BY <2>1, <2>4, <2>5, <2>6, <2>7, Zenon
<1>2. CASE SellNotDue
  BY <1>2 DEF SellNotDue
<1>3. CASE SellEnds
  BY <1>3 DEF SellEnds
<1>4. CASE SellRaises
  BY <1>4 DEF SellRaises
<1>5. CASE NoBuyDue
  BY <1>5 DEF NoBuyDue
<1>6. CASE TooLateToBuy
  BY <1>6 DEF TooLateToBuy, Drained
<1>7. CASE ScanRefused
  BY <1>7 DEF ScanRefused
<1>8. CASE StartJoin
  BY <1>8 DEF StartJoin, JoinTimeout
<1>9. CASE JoinReturns
  BY <1>9 DEF JoinReturns, QuotesOrNone
<1>10. CASE JoinTimesOut
  BY <1>10 DEF JoinTimesOut
<1>11. CASE StartFetch
  BY <1>11 DEF StartFetch, FetchTime, Lesser
<1>12. CASE FetchEnds
  BY <1>12 DEF FetchEnds, QuotesOrNone
<1>13. CASE FactoryEnds
  BY <1>13 DEF FactoryEnds
<1>14. CASE FactoryRaises
  BY <1>14 DEF FactoryRaises
<1>15. CASE Gate
  BY <1>15 DEF Gate
<1>16. CASE WorkerEnds
  BY <1>16 DEF WorkerEnds
<1>17. CASE Tick
  BY <1>17 DEF Tick
<1>18. CASE UNCHANGED vars
  BY <1>18 DEF vars
<1> QED
  BY <1>1, <1>2, <1>3, <1>4, <1>5, <1>6, <1>7, <1>8, <1>9, <1>10, <1>11, <1>12, <1>13,
     <1>14, <1>15, <1>16, <1>17, <1>18 DEF Next, Cycle, BuyLane

(* Whatever the scheduler waits for leaves its SELL intent the time it     *)
(* needs to reach the gate.                                                *)
LEMMA WaitingStep ==
  IInv /\ [Next]_vars => Waiting' /\ SellSurvivesTheScan'
<1> SUFFICES ASSUME IInv, [Next]_vars PROVE Waiting' /\ SellSurvivesTheScan'
  OBVIOUS
<1>t. TypeOK'
  BY TypeStep DEF IInv
<1> USE BudgetAssumption, <1>t DEF IInv, TypeOK, Waiting, Fresh, Joining, Fetching, Building, Owned,
                 SellSurvivesTheScan, Patience, Goto
<1>1. ASSUME NEW a \in Asks, StartCycle(a) PROVE Waiting' /\ SellSurvivesTheScan'
  BY <1>1 DEF StartCycle, Overlapping, Asks
<1>2. CASE SellNotDue
  BY <1>2 DEF SellNotDue
<1>12. CASE SellEnds
  <2>1. CASE sell'
    BY <1>12, <2>1 DEF SellEnds
  <2>2. CASE ~sell'
    BY <1>12, <2>2 DEF SellEnds
  <2> QED
    BY <2>1, <2>2
<1>13. CASE SellRaises
  BY <1>13 DEF SellRaises
<1>3. CASE NoBuyDue \/ TooLateToBuy \/ ScanRefused
  BY <1>3 DEF NoBuyDue, TooLateToBuy, ScanRefused
<1>4. CASE StartJoin
  BY <1>4 DEF StartJoin, JoinTimeout
<1>5. CASE JoinReturns \/ JoinTimesOut
  BY <1>5 DEF JoinReturns, JoinTimesOut, QuotesOrNone
<1>6. CASE StartFetch
  BY <1>6 DEF StartFetch, FetchTime, Lesser
<1>7. CASE FetchEnds
  BY <1>7 DEF FetchEnds, QuotesOrNone
<1>8. CASE FactoryEnds \/ FactoryRaises
  BY <1>8 DEF FactoryEnds, FactoryRaises
<1>9. CASE Gate \/ WorkerEnds
  BY <1>9 DEF Gate, WorkerEnds
<1>10. CASE Tick
  <2>1. CASE pc = "sell"
    BY <1>10, <2>1 DEF Tick
  <2>2. CASE pc = "join"
    BY <1>10, <2>2 DEF Tick
  <2>3. CASE pc = "fetch"
    BY <1>10, <2>3 DEF Tick
  <2>4. CASE pc = "factory"
    BY <1>10, <2>4 DEF Tick
  <2> QED
    BY <1>10, <2>1, <2>2, <2>3, <2>4 DEF Tick
<1>11. CASE UNCHANGED vars
  BY <1>11 DEF vars
<1> HIDE DEF TypeOK, Waiting, Fresh, Joining, Fetching, Building, Owned,
              SellSurvivesTheScan, Patience, Goto
<1> QED
  BY <1>1, <1>2, <1>3, <1>4, <1>5, <1>6, <1>7, <1>8, <1>9, <1>10, <1>11,
     <1>12, <1>13
  DEF Next, Cycle, BuyLane

-----------------------------------------------------------------------------
LEMMA Inductive == Spec => []IInv
<1>1. Init => IInv
  <2> SUFFICES ASSUME Init PROVE IInv
    OBVIOUS
  <2>1. TypeOK
    <3>1. asked \in Asks
      BY Zenon DEF Init, Asks
    <3>2. mine \in BOOLEAN /\ sell \in BOOLEAN /\ buy \in BOOLEAN
      BY Zenon DEF Init
    <3>3. left \in 0..Hard /\ timer \in 0..Hard /\ born \in 0..Hard
      BY BudgetAssumption DEF Init
    <3> QED
      BY <3>1, <3>2, <3>3, Zenon DEF Init, TypeOK
  <2>2. Waiting /\ SellSurvivesTheScan
    BY DEF Init, Waiting, Fresh, Joining, Fetching, Building, Owned, SellSurvivesTheScan
  <2> QED
    BY <2>1, <2>2 DEF IInv
<1>2. IInv /\ [Next]_vars => IInv'
  BY TypeStep, WaitingStep DEF IInv
<1> QED
  BY <1>1, <1>2, PTL DEF Spec

(* Every variable of the lane cycle keeps its type (lane_scheduler.py).    *)
THEOREM TypeCorrect == Spec => []TypeOK
<1>1. IInv => TypeOK
  BY DEF IInv
<1> QED
  BY <1>1, Inductive, PTL

(* For every budget: the BUY scan of a cycle does not use up the time its  *)
(* SELL intent has (lane_scheduler.py:175-218), if the floor is more than  *)
(* what a BUY intent takes to build.                                       *)
THEOREM SellSurvives == Spec => []SellSurvivesTheScan
<1>1. IInv => SellSurvivesTheScan
  BY DEF IInv
<1> QED
  BY <1>1, Inductive, PTL

-----------------------------------------------------------------------------
(* The throttle. *)

AgeSeq == Seq(0..Window)

Sorted(s) == \A i, j \in 1..Len(s) : i < j => s[i] >= s[j]

AllYoung(s) == \A i \in 1..Len(s) : s[i] < Window

(* Young(s) is s without its first n entries. *)
Dropped(s, n) ==
  /\ n \in 0..Len(s)
  /\ \A i \in 1..n : s[i] >= Window
  /\ Young(s) \in AgeSeq /\ Len(Young(s)) = Len(s) - n
  /\ \A i \in 1..Len(s) - n : Young(s)[i] = s[i + n]

LEMMA Parameters ==
  /\ {Window, Limit, QuoteLimit, Interval} \subseteq Nat \ {0}
  /\ {Buffer, Extra, PenaltyFor} \subseteq Nat
  /\ Pair = 2
BY ThrottleAssumption DEF Pair

USE Parameters

LEMMA StaleExists ==
  ASSUME NEW s \in AgeSeq
  PROVE  \E n \in 0..Len(s) : /\ \A i \in 1..n : s[i] >= Window
                              /\ n < Len(s) => s[n + 1] < Window
<1> DEFINE T == {i \in 1..Len(s) : s[i] < Window}
<1>1. Len(s) \in Nat /\ \A i \in 1..Len(s) : s[i] \in 0..Window
  BY DEF AgeSeq
<1>2. CASE T = {}
  <2>1. Len(s) \in 0..Len(s) /\ ~(Len(s) < Len(s))
    BY <1>1
  <2>2. \A i \in 1..Len(s) : s[i] >= Window
    <3> TAKE i \in 1..Len(s)
    <3>1. ~(s[i] < Window) /\ s[i] \in 0..Window
      BY <1>1, <1>2
    <3> QED
      BY <3>1
  <2> QED
    BY <2>1, <2>2
<1>3. CASE T # {}
  <2>1. T \subseteq Nat
    BY <1>1
  <2>2. PICK k \in T : \A j \in T : ~(<<j, k>> \in OpToRel(<, Nat))
    <3> HIDE DEF T
    <3> QED
      BY <1>3, <2>1, NatLessThanWellFounded, WFMin
  <2>3. \A j \in T : ~(j < k)
    BY <2>1, <2>2 DEF OpToRel
  <2>4. k - 1 \in 0..Len(s) /\ (k - 1) + 1 = k
    BY <1>1
  <2>5. \A i \in 1..k - 1 : s[i] >= Window
    <3> TAKE i \in 1..k - 1
    <3>1. i \in 1..Len(s) /\ i < k
      BY <1>1
    <3>2. s[i] \in 0..Window /\ ~(s[i] < Window)
      BY <1>1, <2>3, <3>1
    <3> QED
      BY <3>2
  <2> QED
    BY <2>4, <2>5
<1> QED
  BY <1>2, <1>3

LEMMA StaleIs ==
  ASSUME NEW s \in AgeSeq, NEW n \in 0..Len(s),
         \A i \in 1..n : s[i] >= Window, n < Len(s) => s[n + 1] < Window
  PROVE  Stale(s) = n
<1> DEFINE P(m) == /\ \A i \in 1..m : s[i] >= Window
                   /\ m < Len(s) => s[m + 1] < Window
<1>1. Stale(s) = CHOOSE m \in 0..Len(s) : P(m)
  BY DEF Stale
<1>2. P(n)
  OBVIOUS
<1>3. \A m \in 0..Len(s) : P(m) => m = n
  <2>1. Len(s) \in Nat /\ \A i \in 1..Len(s) : s[i] \in 0..Window
    BY DEF AgeSeq
  <2> TAKE m \in 0..Len(s)
  <2> HAVE P(m)
  <2>2. ~(m < n)
    <3>1. m < n => m + 1 \in 1..n /\ m < Len(s) /\ s[m + 1] \in 0..Window
      BY <2>1
    <3> QED
      BY <3>1
  <2>3. ~(n < m)
    <3>1. n < m => n + 1 \in 1..m /\ n < Len(s) /\ s[n + 1] \in 0..Window
      BY <2>1
    <3> QED
      BY <3>1
  <2> QED
    BY <2>1, <2>2, <2>3
<1> HIDE DEF P
<1> QED
  BY <1>1, <1>2, <1>3

LEMMA YoungDrops ==
  ASSUME NEW s \in AgeSeq, NEW n \in 0..Len(s),
         \A i \in 1..n : s[i] >= Window, n < Len(s) => s[n + 1] < Window
  PROVE  Dropped(s, n)
<1>1. Young(s) = SubSeq(s, n + 1, Len(s))
  BY StaleIs DEF Young
<1>2. Len(s) \in Nat /\ \A i \in 1..Len(s) : s[i] \in 0..Window
  BY DEF AgeSeq
<1>3. Young(s) \in AgeSeq /\ Len(Young(s)) = Len(s) - n
  BY <1>1, <1>2 DEF AgeSeq
<1>4. \A i \in 1..Len(s) - n : Young(s)[i] = s[i + n]
  BY <1>1, <1>2 DEF AgeSeq
<1> QED
  BY <1>3, <1>4 DEF Dropped

LEMMA YoungOfSorted ==
  ASSUME NEW s \in AgeSeq, Sorted(s)
  PROVE  /\ \E n \in 0..Len(s) : Dropped(s, n)
         /\ Young(s) \in AgeSeq /\ Sorted(Young(s)) /\ AllYoung(Young(s))
         /\ Len(Young(s)) <= Len(s)
<1>1. Len(s) \in Nat /\ \A i \in 1..Len(s) : s[i] \in 0..Window
  BY DEF AgeSeq
<1>2. PICK n \in 0..Len(s) : /\ \A i \in 1..n : s[i] >= Window
                             /\ n < Len(s) => s[n + 1] < Window
  BY StaleExists
<1>3. Dropped(s, n)
  BY <1>2, YoungDrops
<1>4. Sorted(Young(s))
  <2>1. \A i \in 1..Len(Young(s)) :
          i \in 1..Len(s) - n /\ i + n \in 1..Len(s) /\ Young(s)[i] = s[i + n]
    BY <1>1, <1>3 DEF Dropped
  <2>2. \A i, j \in 1..Len(Young(s)) : i < j => i + n < j + n
    BY <1>3 DEF Dropped, AgeSeq
  <2> QED
    BY <2>1, <2>2 DEF Sorted
<1>5. \A i \in 1..Len(s) - n : s[i + n] < Window
  <2> TAKE i \in 1..Len(s) - n
  <2>1. n < Len(s) /\ n + 1 \in 1..Len(s) /\ i + n \in 1..Len(s) /\ i + n >= n + 1
    BY <1>1
  <2>2. n + 1 < i + n => s[n + 1] >= s[i + n]
    BY <2>1 DEF Sorted
  <2>3. s[n + 1] < Window
    BY <1>2, <2>1
  <2>4. s[n + 1] \in 0..Window /\ s[i + n] \in 0..Window /\ (n + 1 < i + n \/ n + 1 = i + n)
    BY <1>1, <2>1
  <2> QED
    BY <2>2, <2>3, <2>4
<1>6. AllYoung(Young(s)) /\ Len(Young(s)) <= Len(s)
  BY <1>1, <1>3, <1>5 DEF Dropped, AllYoung
<1> QED
  BY <1>3, <1>4, <1>6 DEF Dropped

(* What is young is not pruned. *)
LEMMA YoungOfYoung ==
  ASSUME NEW s \in AgeSeq, AllYoung(s)
  PROVE  Young(s) = s
<1>1. Len(s) \in Nat /\ 0 \in 0..Len(s)
  BY DEF AgeSeq
<1>2. Dropped(s, 0)
  BY <1>1, YoungDrops DEF AllYoung
<1>3. \A i \in 1..Len(s) : Young(s)[i] = s[i]
  BY <1>1, <1>2 DEF Dropped, AgeSeq
<1> QED
  BY <1>1, <1>2, <1>3, SeqEqual DEF Dropped, AgeSeq

LEMMA OlderIs ==
  ASSUME NEW s \in AgeSeq
  PROVE  /\ Older(s) \in AgeSeq /\ Len(Older(s)) = Len(s)
         /\ \A i \in 1..Len(s) : Older(s)[i] = Least(s[i] + 1, Window)
         /\ Sorted(s) => Sorted(Older(s))
<1>1. Len(s) \in Nat /\ DOMAIN s = 1..Len(s) /\ \A i \in 1..Len(s) : s[i] \in 0..Window
  BY DEF AgeSeq
<1>2. \A i \in 1..Len(s) : Least(s[i] + 1, Window) \in 0..Window
  BY <1>1 DEF Least
<1>3. Older(s) = [i \in 1..Len(s) |-> Least(s[i] + 1, Window)]
  BY <1>1 DEF Older
<1>4. Older(s) \in AgeSeq /\ Len(Older(s)) = Len(s)
  BY <1>1, <1>2, <1>3 DEF AgeSeq
<1>5. \A i \in 1..Len(s) : Older(s)[i] = Least(s[i] + 1, Window)
  BY <1>3
<1>6. Sorted(s) => Sorted(Older(s))
  BY <1>1, <1>4, <1>5 DEF Sorted, Least
<1> QED
  BY <1>4, <1>5, <1>6

(* It makes no difference whether what is old was pruned before. *)
LEMMA OlderYoung ==
  ASSUME NEW s \in AgeSeq, Sorted(s)
  PROVE  Young(Older(Young(s))) = Young(Older(s))
<1> DEFINE y  == Young(s)
           o  == Older(s)
           oy == Older(y)
<1>1. PICK n \in 0..Len(s) : Dropped(s, n)
  BY YoungOfSorted
<1>2. y \in AgeSeq /\ Len(y) = Len(s) - n /\ \A i \in 1..Len(s) - n : y[i] = s[i + n]
  BY <1>1 DEF Dropped
<1>3. Len(s) \in Nat /\ Len(y) \in Nat /\ \A i \in 1..Len(s) : s[i] \in 0..Window
  BY <1>2 DEF AgeSeq
<1> HIDE DEF y
<1>4. /\ o \in AgeSeq /\ Len(o) = Len(s)
      /\ \A i \in 1..Len(s) : o[i] = Least(s[i] + 1, Window)
  BY OlderIs
<1>5. /\ oy \in AgeSeq /\ Len(oy) = Len(y)
      /\ \A i \in 1..Len(y) : oy[i] = Least(y[i] + 1, Window)
  BY <1>2, OlderIs
<1> HIDE DEF o, oy
<1>6. PICK m \in 0..Len(oy) : /\ \A i \in 1..m : oy[i] >= Window
                              /\ m < Len(oy) => oy[m + 1] < Window
  BY <1>5, StaleExists
<1>7. Dropped(oy, m)
  BY <1>5, <1>6, YoungDrops
<1>8. \A i \in 1..Len(oy) : oy[i] = o[i + n] /\ i + n \in 1..Len(o)
  <2> TAKE i \in 1..Len(oy)
  <2>1. i \in 1..Len(y) /\ i \in 1..Len(s) - n /\ i + n \in 1..Len(s)
    BY <1>2, <1>3, <1>5
  <2>2. oy[i] = Least(y[i] + 1, Window) /\ y[i] = s[i + n]
    BY <1>2, <1>5, <2>1
  <2> QED
    BY <1>4, <2>1, <2>2
<1>9. n + m \in 0..Len(o) /\ (n + m < Len(o) => m < Len(oy))
  BY <1>2, <1>3, <1>4, <1>5
<1>10. \A i \in 1..n + m : o[i] >= Window
  <2> TAKE i \in 1..n + m
  <2>1. CASE i <= n
    <3>1. i \in 1..n /\ i \in 1..Len(s)
      BY <1>3, <2>1
    <3>2. s[i] >= Window
      BY <1>1, <3>1 DEF Dropped
    <3> QED
      BY <1>3, <1>4, <3>1, <3>2 DEF Least
  <2>2. CASE i > n
    <3>1. i - n \in 1..m /\ i - n \in 1..Len(oy) /\ (i - n) + n = i
      BY <1>5, <2>2
    <3> QED
      BY <1>6, <1>8, <3>1
  <2> QED
    BY <2>1, <2>2
<1>11. n + m < Len(o) => o[n + m + 1] < Window
  <2>1. n + m < Len(o) => m + 1 \in 1..Len(oy) /\ (m + 1) + n = n + m + 1
    BY <1>9, <1>5, <1>3
  <2> QED
    BY <1>6, <1>8, <1>9, <2>1
<1>12. Dropped(o, n + m)
  BY <1>4, <1>9, <1>10, <1>11, YoungDrops
<1>13. Len(Young(oy)) = Len(Young(o))
  BY <1>2, <1>3, <1>4, <1>5, <1>7, <1>12 DEF Dropped
<1>14. \A i \in 1..Len(Young(oy)) : Young(oy)[i] = Young(o)[i]
  <2> TAKE i \in 1..Len(Young(oy))
  <2>1. /\ i \in 1..Len(oy) - m /\ i \in 1..Len(o) - (n + m)
        /\ i + m \in 1..Len(oy) /\ (i + m) + n = i + (n + m)
    BY <1>3, <1>4, <1>5, <1>7, <1>12, <1>13 DEF Dropped
  <2>2. Young(oy)[i] = oy[i + m] /\ Young(o)[i] = o[i + (n + m)]
    BY <1>7, <1>12, <2>1 DEF Dropped
  <2> QED
    BY <1>8, <2>1, <2>2
<1>15. Young(oy) \in Seq(0..Window) /\ Young(o) \in Seq(0..Window)
  BY <1>7, <1>12 DEF Dropped, AgeSeq
<1> QED
  BY <1>13, <1>14, <1>15, SeqEqual DEF o, oy, y

LEMMA AppendSorted ==
  ASSUME NEW s \in AgeSeq, Sorted(s)
  PROVE  /\ Append(s, 0) \in AgeSeq /\ Sorted(Append(s, 0))
         /\ AllYoung(s) => AllYoung(Append(s, 0))
         /\ Len(Append(s, 0)) = Len(s) + 1
         /\ \A i \in 1..Len(s) : Append(s, 0)[i] = s[i]
         /\ Append(s, 0)[Len(s) + 1] = 0
<1>1. Len(s) \in Nat /\ \A i \in 1..Len(s) : s[i] \in 0..Window
  BY DEF AgeSeq
<1>2. /\ Append(s, 0) \in AgeSeq /\ Len(Append(s, 0)) = Len(s) + 1
      /\ \A i \in 1..Len(s) : Append(s, 0)[i] = s[i]
      /\ Append(s, 0)[Len(s) + 1] = 0
  BY DEF AgeSeq
<1>3. Sorted(Append(s, 0))
  BY <1>1, <1>2 DEF Sorted
<1>4. AllYoung(s) => AllYoung(Append(s, 0))
  BY <1>1, <1>2 DEF AllYoung
<1> QED
  BY <1>2, <1>3, <1>4

-----------------------------------------------------------------------------
(* Who sent what.  The requests of a thread are Interval apart, and a       *)
(* thread that is about to send one waits until its last is as old.  The    *)
(* ledger does not say whose a request is: there is a way to tell.          *)
Apart(older, younger) == older >= Window \/ older >= younger + Interval

Owns(own, s, th) ==
  /\ own \in [1..Len(s) -> Thread]
  /\ \A i, j \in 1..Len(s) : i < j /\ own[i] = own[j] => Apart(s[i], s[j])
  /\ \A i \in 1..Len(s) :
       th[own[i]].at = "pacing" => s[i] >= Window \/ s[i] + th[own[i]].wait >= Interval

Spread(s, th) == \E own : Owns(own, s, th)

(* Two requests of a thread fall into different intervals of the window,    *)
(* which has Limit of them.                                                 *)
LEMMA SpreadIsBounded ==
  ASSUME NEW s \in AgeSeq, NEW th, Spread(s, th), AllYoung(s)
  PROVE  Len(s) <= Bound
<1>1. Len(s) \in Nat /\ \A i \in 1..Len(s) : s[i] \in Nat /\ s[i] < Window
  BY DEF AgeSeq, AllYoung
<1>2. PICK own : Owns(own, s, th)
  BY DEF Spread
<1> DEFINE Place == Thread \X (0..Limit - 1)
           f == [i \in 1..Len(s) |-> <<own[i], s[i] \div Interval>>]
<1>3. ASSUME NEW i \in 1..Len(s) PROVE s[i] \div Interval \in 0..Limit - 1
  <2>1. \A a, n, k \in Nat : k > 0 /\ a < k * n => a \div k < n /\ a \div k \in Nat
    OBVIOUS
  <2>2. s[i] \in Nat /\ s[i] < Interval * Limit
    <3>1. Interval * Limit \in Nat /\ Interval * Limit >= Window
      BY ThrottleAssumption
    <3> QED
      BY <1>1, <3>1
  <2>3. Interval \in Nat /\ Interval > 0 /\ Limit \in Nat
    OBVIOUS
  <2>4. s[i] \div Interval < Limit /\ s[i] \div Interval \in Nat
    BY <2>1, <2>2, <2>3
  <2> QED
    BY <2>4
<1>4. f \in [1..Len(s) -> Place]
  BY <1>2, <1>3 DEF Owns
<1>5. ASSUME NEW i \in 1..Len(s), NEW j \in 1..Len(s), i # j PROVE f[i] # f[j]
  <2>1. ASSUME NEW a \in 1..Len(s), NEW b \in 1..Len(s), a < b PROVE f[a] # f[b]
    <3>1. CASE own[a] # own[b]
      BY <3>1
    <3>2. CASE own[a] = own[b]
      <4>1. Apart(s[a], s[b])
        BY <1>2, <2>1, <3>2 DEF Owns
      <4>2. s[a] >= s[b] + Interval /\ s[a] \in Nat /\ s[b] \in Nat
        BY <1>1, <4>1 DEF Apart
      <4>3. \A x, y, k \in Nat : k > 0 /\ x >= y + k => x \div k # y \div k
        OBVIOUS
      <4>4. s[a] \div Interval # s[b] \div Interval
        <5>1. Interval \in Nat /\ Interval > 0
          OBVIOUS
        <5> HIDE Parameters
        <5> QED
          BY <4>2, <4>3, <5>1, Zenon
      <4> QED
        BY <4>4
    <3> QED
      BY <3>1, <3>2
  <2>2. i < j \/ j < i
    BY <1>1, <1>5
  <2> QED
    BY <2>1, <2>2
<1>6. IsFiniteSet(Place) /\ Cardinality(Place) = Bound /\ Bound \in Nat
  <2>1. IsFiniteSet(0..Limit - 1) /\ Cardinality(0..Limit - 1) = Limit
    <3>1. 0 \in Int /\ Limit - 1 \in Int /\ ~(0 > Limit - 1) /\ Limit - 1 - 0 + 1 = Limit
      OBVIOUS
    <3> QED
      BY <3>1, FS_Interval
  <2>2. IsFiniteSet(Thread) /\ Cardinality(Thread) \in Nat
    BY ThrottleAssumption, FS_CardinalityType
  <2>3. IsFiniteSet(Place) /\ Cardinality(Place) = Cardinality(Thread) * Limit
    BY <2>1, <2>2, FS_Product
  <2>4. \A a, b \in Nat : a * b = b * a /\ a * b \in Nat
    OBVIOUS
  <2> QED
    BY <2>2, <2>3, <2>4 DEF Bound
<1>7. IsFiniteSet(1..Len(s)) /\ Cardinality(1..Len(s)) = Len(s)
  <2>1. 1 \in Int /\ Len(s) \in Int /\ (IF 1 > Len(s) THEN 0 ELSE Len(s) - 1 + 1) = Len(s)
    BY <1>1
  <2> QED
    BY <2>1, FS_Interval
<1> HIDE DEF f, Place
<1>8. ~(Cardinality(Place) < Cardinality(1..Len(s)))
  <2>1. SUFFICES ASSUME Cardinality(Place) < Cardinality(1..Len(s)) PROVE FALSE
    OBVIOUS
  <2>2. \E i, j \in 1..Len(s) : i # j /\ f[i] = f[j]
    BY <1>4, <1>6, <1>7, <2>1, FS_PigeonHole
  <2> QED
    BY <1>5, <2>2
<1> QED
  BY <1>1, <1>6, <1>7, <1>8

LEMMA SpreadYoung ==
  ASSUME NEW s \in AgeSeq, Sorted(s), NEW th, Spread(s, th)
  PROVE  Spread(Young(s), th)
<1>1. PICK n \in 0..Len(s) : Dropped(s, n)
  BY YoungOfSorted
<1>2. PICK own : Owns(own, s, th)
  BY DEF Spread
<1> DEFINE y  == Young(s)
           oy == [i \in 1..Len(y) |-> own[i + n]]
<1>3. Len(s) \in Nat /\ Len(y) = Len(s) - n /\ \A i \in 1..Len(y) : y[i] = s[i + n]
  BY <1>1 DEF Dropped, AgeSeq
<1> HIDE DEF y
<1>4. \A i \in 1..Len(y) : i + n \in 1..Len(s) /\ oy[i] = own[i + n]
  BY <1>3
<1>5. oy \in [1..Len(y) -> Thread]
  BY <1>2, <1>3 DEF Owns
<1>6. \A i, j \in 1..Len(y) : i < j => i + n < j + n
  BY <1>3
<1> HIDE DEF oy
<1>7. \A i, j \in 1..Len(y) : i < j /\ oy[i] = oy[j] => Apart(y[i], y[j])
  <2> TAKE i, j \in 1..Len(y)
  <2> HAVE i < j /\ oy[i] = oy[j]
  <2>1. i + n < j + n /\ own[i + n] = own[j + n] /\ i + n \in 1..Len(s) /\ j + n \in 1..Len(s)
    BY <1>4, <1>6
  <2>2. Apart(s[i + n], s[j + n])
    BY <1>2, <2>1 DEF Owns
  <2> QED
    BY <1>3, <2>2
<1>8. \A i \in 1..Len(y) :
        th[oy[i]].at = "pacing" => y[i] >= Window \/ y[i] + th[oy[i]].wait >= Interval
  BY <1>2, <1>3, <1>4 DEF Owns
<1>9. Owns(oy, y, th)
  BY <1>5, <1>7, <1>8 DEF Owns
<1> QED
  BY <1>9 DEF Spread, y

(* A thread sends, and is about to send nothing now. *)
LEMMA SpreadSent ==
  ASSUME NEW s \in AgeSeq, NEW th, Spread(s, th), NEW t \in Thread,
         th[t].at = "pacing", th[t].wait = 0,
         NEW new, new[t].at # "pacing",
         \A u \in Thread \ {t} : new[u].at = th[u].at /\ new[u].wait = th[u].wait,
         \A u \in Thread : th[u].wait \in Nat
  PROVE  Spread(Append(s, 0), new)
<1>1. PICK own : Owns(own, s, th)
  BY DEF Spread
<1> DEFINE a  == Append(s, 0)
           oa == [i \in 1..Len(a) |-> IF i = Len(a) THEN t ELSE own[i]]
<1>2. /\ Len(s) \in Nat /\ Len(a) = Len(s) + 1 /\ a[Len(s) + 1] = 0
      /\ \A i \in 1..Len(s) : a[i] = s[i] /\ s[i] \in 0..Window
  BY DEF AgeSeq
<1> HIDE DEF a
<1>3. oa \in [1..Len(a) -> Thread]
  BY <1>1, <1>2 DEF Owns
<1>4. oa[Len(s) + 1] = t /\ \A i \in 1..Len(s) : oa[i] = own[i]
  BY <1>2
<1> HIDE DEF oa
<1>5. \A i, j \in 1..Len(a) : i < j /\ oa[i] = oa[j] => Apart(a[i], a[j])
  <2> TAKE i, j \in 1..Len(a)
  <2> HAVE i < j /\ oa[i] = oa[j]
  <2>1. i \in 1..Len(s) /\ (j \in 1..Len(s) \/ j = Len(s) + 1)
    BY <1>2
  <2>2. CASE j \in 1..Len(s)
    BY <1>1, <1>2, <1>4, <2>1, <2>2 DEF Owns
  <2>3. CASE j = Len(s) + 1
    <3>1. own[i] = t
      BY <1>4, <2>1, <2>3
    <3>2. s[i] >= Window \/ s[i] + 0 >= Interval
      BY <1>1, <2>1, <3>1 DEF Owns
    <3> QED
      BY <1>2, <2>1, <2>3, <3>2 DEF Apart
  <2> QED
    BY <2>1, <2>2, <2>3
<1>6. \A i \in 1..Len(a) :
        new[oa[i]].at = "pacing" => a[i] >= Window \/ a[i] + new[oa[i]].wait >= Interval
  <2> TAKE i \in 1..Len(a)
  <2> HAVE new[oa[i]].at = "pacing"
  <2>1. oa[i] # t /\ i \in 1..Len(s)
    BY <1>2, <1>4
  <2>2. own[i] \in Thread \ {t} /\ oa[i] = own[i]
    BY <1>1, <1>4, <2>1 DEF Owns
  <2> QED
    BY <1>1, <1>2, <2>1, <2>2 DEF Owns
<1>7. Owns(oa, a, new)
  BY <1>3, <1>5, <1>6 DEF Owns
<1> QED
  BY <1>7 DEF Spread, a

LEMMA SpreadOlder ==
  ASSUME NEW s \in AgeSeq, NEW th, Spread(s, th), NEW new,
         \A u \in Thread : /\ new[u].at = th[u].at /\ th[u].wait \in Nat
                           /\ th[u].at = "pacing" => th[u].wait > 0 /\ new[u].wait = th[u].wait - 1
  PROVE  Spread(Older(s), new)
<1>1. PICK own : Owns(own, s, th)
  BY DEF Spread
<1> DEFINE o == Older(s)
<1>2. /\ Len(s) \in Nat /\ \A i \in 1..Len(s) : s[i] \in 0..Window
      /\ Len(o) = Len(s) /\ \A i \in 1..Len(s) : o[i] = Least(s[i] + 1, Window)
  BY OlderIs DEF AgeSeq
<1> HIDE DEF o
<1>3. \A i, j \in 1..Len(o) : i < j /\ own[i] = own[j] => Apart(o[i], o[j])
  <2> TAKE i, j \in 1..Len(o)
  <2> HAVE i < j /\ own[i] = own[j]
  <2>1. Apart(s[i], s[j])
    BY <1>1, <1>2 DEF Owns
  <2>2. /\ o[i] = Least(s[i] + 1, Window) /\ s[i] \in 0..Window
        /\ o[j] = Least(s[j] + 1, Window) /\ s[j] \in 0..Window
    BY <1>2
  <2>3. \A a, b \in 0..Window : Apart(a, b) => Apart(Least(a + 1, Window), Least(b + 1, Window))
    BY DEF Apart, Least
  <2> QED
    BY <2>1, <2>2, <2>3
<1>4. \A i \in 1..Len(o) :
        new[own[i]].at = "pacing" => o[i] >= Window \/ o[i] + new[own[i]].wait >= Interval
  <2> TAKE i \in 1..Len(o)
  <2> HAVE new[own[i]].at = "pacing"
  <2>1. own[i] \in Thread
    BY <1>1, <1>2 DEF Owns
  <2>2. /\ th[own[i]].at = "pacing" /\ th[own[i]].wait \in Nat
        /\ new[own[i]].wait = th[own[i]].wait - 1
    BY <2>1
  <2>3. s[i] >= Window \/ s[i] + th[own[i]].wait >= Interval
    BY <1>1, <1>2, <2>2 DEF Owns
  <2>4. o[i] = Least(s[i] + 1, Window) /\ s[i] \in 0..Window
    BY <1>2
  <2>5. CASE s[i] >= Window
    BY <2>4, <2>5 DEF Least
  <2>6. CASE s[i] + th[own[i]].wait >= Interval
    <3>1. \A a \in 0..Window, w \in Nat :
            a + w >= Interval =>
              Least(a + 1, Window) >= Window \/ Least(a + 1, Window) + (w - 1) >= Interval
      BY DEF Least
    <3>2. o[i] >= Window \/ o[i] + (th[own[i]].wait - 1) >= Interval
      BY <2>2, <2>4, <2>6, <3>1
    <3> QED
      BY <2>2, <3>2
  <2> QED
    BY <2>3, <2>5, <2>6
<1>5. Owns(own, o, new)
  BY <1>1, <1>2, <1>3, <1>4 DEF Owns
<1> QED
  BY <1>5 DEF Spread, o

(* A thread begins to wait for at least what is missing to Interval.       *)
LEMMA SpreadPaced ==
  ASSUME NEW s \in AgeSeq, NEW th, Spread(s, th), NEW t \in Thread, NEW new,
         \A i \in 1..Len(s) : new[t].at = "pacing" => s[i] >= Window \/ s[i] + new[t].wait >= Interval,
         \A u \in Thread \ {t} : new[u].at = th[u].at /\ new[u].wait = th[u].wait
  PROVE  Spread(s, new)
<1>1. PICK own : Owns(own, s, th)
  BY DEF Spread
<1>2. \A i \in 1..Len(s) :
        new[own[i]].at = "pacing" => s[i] >= Window \/ s[i] + new[own[i]].wait >= Interval
  <2> TAKE i \in 1..Len(s)
  <2>1. CASE own[i] = t
    BY <2>1
  <2>2. CASE own[i] # t
    <3>1. own[i] \in Thread \ {t}
      BY <1>1, <2>2 DEF Owns
    <3> QED
      BY <1>1, <3>1 DEF Owns
  <2> QED
    BY <2>1, <2>2
<1>3. Owns(own, s, new)
  BY <1>1, <1>2 DEF Owns
<1> QED
  BY <1>3 DEF Spread

-----------------------------------------------------------------------------
(* The inductive invariant. *)

(* The last request is none of the ledger's but the youngest. *)
NoneLater(s, l) == \A i \in 1..Len(s) : s[i] >= Window \/ s[i] >= l

(* The ledger holds what the gateway saw in the last window, in its order. *)
Entered(r, g) == Sorted(r) /\ g = Young(r)

Ledger ==
  /\ Entered(requests, gateway) /\ Sorted(quotes)
  /\ NoneLater(requests, last) /\ NoneLater(quotes, last)
  /\ Spread(requests, thread) /\ Spread(quotes, thread)

(* In w from now no more than n of the requests of g are in the window. *)
Vacates(g, n, w) == Len(g) <= n \/ g[Len(g) - n] + w >= Window

(* What a thread computed holds as long as no other thread has sent. *)
SpacedOut(x, l) == x.at = "pacing" /\ ~x.crossed => l + x.wait >= Interval + x.extra

Within(x, g) ==
  x.at = "pacing" /\ ~x.crossed /\ ~x.over =>
    Len(g) <= Limit /\ Vacates(g, Limit - 1, x.wait)

Roomy(x, g) ==
  /\ x.at = "idle" => x.left = 0
  /\ x.at = "reserving" => x.left = Pair
  /\ x.at = "between" => x.left > 0
  /\ x.left > 0 /\ ~x.shared /\ Limit >= Pair =>
       IF x.at = "reserving" THEN Vacates(g, Limit - Pair, x.wait) ELSE Len(g) <= Limit - x.left

Careful(x, l, g) == SpacedOut(x, l) /\ Within(x, g) /\ Roomy(x, g)

PacingInv == ThrottleTypeOK /\ Ledger /\ \A t \in Thread : Careful(thread[t], last, gateway)

-----------------------------------------------------------------------------
LEMMA BoundType == Bound \in Nat
<1>1. Cardinality(Thread) \in Nat
  BY ThrottleAssumption, FS_CardinalityType
<1> QED
  BY <1>1 DEF Bound

LEMMA LedgerFacts ==
  ASSUME PacingInv
  PROVE  /\ Young(requests) = gateway
         /\ gateway \in AgeSeq /\ Sorted(gateway) /\ AllYoung(gateway) /\ Len(gateway) <= Bound
         /\ Young(gateway) = gateway
         /\ Young(quotes) \in AgeSeq /\ Sorted(Young(quotes)) /\ AllYoung(Young(quotes))
         /\ Len(Young(quotes)) <= Bound
         /\ Spread(gateway, thread) /\ Spread(Young(quotes), thread)
         /\ NoneLater(gateway, last) /\ NoneLater(Young(quotes), last)
<1>1. /\ requests \in AgeSeq /\ Sorted(requests) /\ gateway = Young(requests)
      /\ quotes \in AgeSeq /\ Sorted(quotes)
      /\ Len(requests) <= Bound /\ Len(quotes) <= Bound /\ Len(gateway) <= Bound
      /\ Spread(requests, thread) /\ Spread(quotes, thread)
      /\ NoneLater(requests, last) /\ NoneLater(quotes, last)
  BY DEF PacingInv, ThrottleTypeOK, Ages, AgeSeq, Ledger, Entered
<1>2. /\ Young(requests) \in AgeSeq /\ Sorted(Young(requests)) /\ AllYoung(Young(requests))
      /\ Young(quotes) \in AgeSeq /\ Sorted(Young(quotes)) /\ AllYoung(Young(quotes))
      /\ Len(Young(quotes)) <= Len(quotes)
  BY <1>1, YoungOfSorted
<1>3. Spread(Young(requests), thread) /\ Spread(Young(quotes), thread)
  BY <1>1, SpreadYoung
<1>4. ASSUME NEW s \in AgeSeq, Sorted(s), NoneLater(s, last) PROVE NoneLater(Young(s), last)
  <2>1. PICK n \in 0..Len(s) : Dropped(s, n)
    BY <1>4, YoungOfSorted
  <2>2. \A i \in 1..Len(Young(s)) : i + n \in 1..Len(s) /\ Young(s)[i] = s[i + n]
    BY <2>1 DEF Dropped, AgeSeq
  <2> QED
    BY <1>4, <2>2 DEF NoneLater
<1>5. Len(Young(quotes)) <= Bound
  BY <1>1, <1>2, BoundType DEF AgeSeq
<1>6. Young(gateway) = gateway
  BY <1>1, <1>2, YoungOfYoung
<1> QED
  BY <1>1, <1>2, <1>3, <1>4, <1>5, <1>6

LEMMA ThreadFacts ==
  ASSUME ThrottleTypeOK, NEW t \in Thread
  PROVE  /\ thread[t] \in Threads /\ thread[t].wait \in Nat /\ thread[t].left \in 0..Pair
         /\ thread[t].extra \in 0..Extra
         /\ thread[t].at \in Places /\ thread[t].kind \in Kinds
         /\ thread[t].over \in BOOLEAN /\ thread[t].crossed \in BOOLEAN /\ thread[t].shared \in BOOLEAN
BY DEF ThrottleTypeOK, Threads, Longest, Most

LEMMA PenaltyType == Penalty \in 0..Extra
BY DEF Penalty

LEMMA FloorWaitIs ==
  ASSUME ThrottleTypeOK
  PROVE  FloorWait \in 0..Interval /\ last + FloorWait >= Interval
BY DEF ThrottleTypeOK, FloorWait, Minus

(* The time until the n-th oldest has left the window. *)
LEMMA ExpiryIs ==
  ASSUME NEW s \in AgeSeq, AllYoung(s), NEW n \in 1..Len(s)
  PROVE  Expiry(s, n) \in 0..Window + Buffer /\ s[n] + Expiry(s, n) >= Window
<1>1. s[n] \in 0..Window
  BY DEF AgeSeq
<1> QED
  BY <1>1 DEF Expiry

LEMMA WindowWaitIs ==
  ASSUME NEW s \in AgeSeq, AllYoung(s), NEW n \in Nat \ {0}
  PROVE  /\ WindowWait(s, n) \in 0..Window + Buffer
         /\ Len(s) >= n => s[1] + WindowWait(s, n) >= Window
         /\ Len(s) < n => WindowWait(s, n) = 0
<1>1. Len(s) \in Nat
  BY DEF AgeSeq
<1>2. CASE Len(s) >= n
  <2>1. 1 \in 1..Len(s)
    BY <1>1, <1>2
  <2> QED
    BY <1>1, <1>2, <2>1, ExpiryIs DEF WindowWait
<1>3. CASE Len(s) < n
  BY <1>1, <1>3 DEF WindowWait
<1> QED
  BY <1>1, <1>2, <1>3

(* What throttle's sleep achieves, if nothing comes between. *)
LEMMA PacedWaitIs ==
  ASSUME PacingInv, NEW kind \in Kinds
  PROVE  /\ PacedWait(kind) \in 0..Longest
         /\ last + PacedWait(kind) >= Interval + Penalty
         /\ Len(gateway) >= Limit => gateway[1] + PacedWait(kind) >= Window
         /\ kind = "request" /\ Len(gateway) < Limit => PacedWait(kind) <= Interval + Extra
<1> DEFINE f == FloorWait
           w == WindowWait(gateway, Limit)
           q == IF kind = "quote" THEN WindowWait(Young(quotes), QuoteLimit) ELSE 0
           p == Penalty
<1>1. f \in 0..Interval /\ last + f >= Interval /\ last \in Nat
  BY FloorWaitIs DEF PacingInv, ThrottleTypeOK
<1>2. /\ w \in 0..Window + Buffer /\ (Len(gateway) >= Limit => gateway[1] + w >= Window)
      /\ (Len(gateway) < Limit => w = 0)
  BY LedgerFacts, WindowWaitIs
<1>3. q \in 0..Window + Buffer /\ (kind = "request" => q = 0)
  BY LedgerFacts, WindowWaitIs
<1>4. p \in 0..Extra
  BY PenaltyType
<1>5. PacedWait(kind) = Most(f, Most(w, q)) + p
  BY LedgerFacts DEF PacedWait
<1>6. Len(gateway) >= Limit => gateway[1] \in Nat
  <2>1. gateway \in Seq(0..Window) /\ Len(gateway) \in Nat
    BY LedgerFacts DEF AgeSeq
  <2>2. Len(gateway) >= Limit => 1 \in 1..Len(gateway)
    BY <2>1
  <2> QED
    BY <2>1, <2>2
<1> HIDE DEF f, w, q, p
<1> DEFINE v == PacedWait(kind)
<1>7. v = Most(f, Most(w, q)) + p
  BY <1>5
<1>8. v \in 0..Longest /\ v >= f + p /\ v >= w
  <2> DEFINE m == Most(f, Most(w, q))
  <2>1. m \in Nat /\ m >= f /\ m >= w /\ m <= Most(Window + Buffer, Interval)
    BY <1>1, <1>2, <1>3 DEF Most
  <2> HIDE DEF m
  <2>2. v = m + p /\ v \in 0..Longest
    BY <1>4, <1>7, <2>1 DEF Longest, Most, m
  <2> QED
    BY <1>1, <1>2, <1>4, <2>1, <2>2
<1>9. kind = "request" /\ Len(gateway) < Limit => v <= Interval + Extra
  BY <1>1, <1>2, <1>3, <1>4, <1>7 DEF Most
<1> HIDE DEF v
<1>10. last + v >= Interval + p
  BY <1>1, <1>4, <1>8 DEF Longest, Most
<1>11. Len(gateway) >= Limit => gateway[1] + v >= Window
  BY <1>2, <1>6, <1>8 DEF Longest, Most
<1> QED
  BY <1>8, <1>9, <1>10, <1>11 DEF v, p

(* What wait_for_request_slots achieves, if nothing comes between. *)
LEMMA SlotWaitIs ==
  ASSUME PacingInv
  PROVE  SlotWait \in 0..Longest /\ (Limit >= Pair => Vacates(gateway, Limit - Pair, SlotWait))
<1> DEFINE n == Limit - Least(Pair, Limit)
           o == Minus(Len(gateway), n)
           e == IF o > 0 THEN Expiry(gateway, o) ELSE 0
           f == FloorWait
<1>1. f \in 0..Interval
  BY FloorWaitIs DEF PacingInv
<1>2. n \in Nat /\ Len(gateway) \in Nat /\ (Limit >= Pair => n = Limit - Pair)
  BY LedgerFacts DEF AgeSeq, Least
<1>3. o \in 0..Len(gateway) /\ (Len(gateway) > n => o = Len(gateway) - n /\ o > 0)
  BY <1>2 DEF Minus
<1>4. SlotWait = Most(f, e)
  BY LedgerFacts DEF SlotWait
<1>5. o > 0 => o \in 1..Len(gateway) /\ gateway[o] \in Nat
  BY <1>2, <1>3, LedgerFacts DEF AgeSeq
<1> HIDE DEF o, n, f
<1>6. e \in 0..Window + Buffer /\ (o > 0 => gateway[o] + e >= Window)
  BY <1>3, <1>5, LedgerFacts, ExpiryIs
<1> HIDE DEF e
<1>7. SlotWait \in 0..Longest /\ SlotWait >= e
  BY <1>1, <1>4, <1>6 DEF Most, Longest
<1>8. Len(gateway) > n => gateway[Len(gateway) - n] + SlotWait >= Window
  <2>1. SlotWait \in Nat /\ e \in Nat
    BY <1>6, <1>7 DEF Longest, Most
  <2> QED
    BY <1>3, <1>5, <1>6, <1>7, <2>1
<1> QED
  BY <1>2, <1>7, <1>8 DEF Vacates

(* Time passes for the window as for the thread that waits for it. *)
LEMMA VacatesOlder ==
  ASSUME NEW g \in AgeSeq, Sorted(g), AllYoung(g), NEW n \in Nat, NEW w \in Nat \ {0},
         Vacates(g, n, w)
  PROVE  Vacates(Young(Older(g)), n, w - 1)
<1> DEFINE o == Older(g)
           y == Young(o)
<1>1. /\ o \in AgeSeq /\ Len(o) = Len(g) /\ Sorted(o)
      /\ \A i \in 1..Len(g) : o[i] = Least(g[i] + 1, Window)
  BY OlderIs
<1>2. PICK m \in 0..Len(o) : Dropped(o, m)
  BY <1>1, YoungOfSorted
<1>3. Len(g) \in Nat /\ \A i \in 1..Len(g) : g[i] \in Nat /\ g[i] < Window
  <2>1. Len(g) \in Nat /\ \A i \in 1..Len(g) : g[i] \in 0..Window
    BY DEF AgeSeq
  <2>2. \A i \in 1..Len(g) : g[i] < Window
    BY DEF AllYoung
  <2> QED
    BY <2>1, <2>2
<1>4. Len(y) = Len(g) - m /\ \A i \in 1..Len(y) : y[i] = o[i + m]
  BY <1>1, <1>2 DEF Dropped
<1> HIDE DEF o, y
<1>5. ASSUME Len(y) > n PROVE y[Len(y) - n] + (w - 1) >= Window
  <2> DEFINE k == Len(g) - n
  <2>1. Len(g) > n /\ k \in 1..Len(g) /\ Len(y) - n \in 1..Len(y) /\ Len(y) - n + m = k
    <3>1. Len(g) \in Nat /\ m \in 0..Len(g) /\ Len(y) = Len(g) - m /\ Len(g) - m > n
      BY <1>1, <1>2, <1>3, <1>4, <1>5
    <3>2. \A a, b, d \in Nat : a - b > d =>
            a > d /\ a - d \in 1..a /\ a - b - d \in 1..a - b /\ a - b - d + b = a - d
      OBVIOUS
    <3>3. m \in Nat
      BY <3>1
    <3> QED
      BY <3>1, <3>2, <3>3
  <2>2. g[k] + w >= Window
    BY <1>3, <2>1 DEF Vacates
  <2>3. y[Len(y) - n] = Least(g[k] + 1, Window)
    BY <1>1, <1>4, <2>1
  <2>4. g[k] \in Nat /\ g[k] < Window
    BY <1>3, <2>1
  <2>5. Least(g[k] + 1, Window) = g[k] + 1
    BY <2>4 DEF Least
  <2> HIDE DEF k
  <2> QED
    BY <2>2, <2>3, <2>4, <2>5
<1>6. Len(y) \in Nat
  BY <1>1, <1>2, <1>3, <1>4
<1> QED
  BY <1>5, <1>6 DEF Vacates, y, o

-----------------------------------------------------------------------------
LEMMA PacingInitially == ThrottleInit => PacingInv
<1> SUFFICES ASSUME ThrottleInit PROVE PacingInv
  OBVIOUS
<1>1. <<>> \in AgeSeq /\ Len(<<>>) = 0 /\ 1..0 = {}
  BY DEF AgeSeq
<1>2. Sorted(<<>>) /\ AllYoung(<<>>) /\ NoneLater(<<>>, last)
  BY <1>1 DEF Sorted, AllYoung, NoneLater
<1>3. Young(<<>>) = <<>>
  BY <1>1, <1>2, YoungOfYoung
<1>4. Spread(<<>>, thread)
  <2>1. Owns(<<>>, <<>>, thread)
    BY <1>1 DEF Owns
  <2> QED
    BY <2>1 DEF Spread
<1>5. Ledger
  BY <1>2, <1>3, <1>4 DEF ThrottleInit, Ledger, Entered
<1>6. Idle \in Threads /\ Idle.at = "idle" /\ Idle.left = 0
  <2>1. 0 \in 0..Longest
    BY DEF Longest, Most
  <2> QED
    BY <2>1 DEF Idle, Threads, Places, Kinds
<1>7. ThrottleTypeOK
  BY <1>1, <1>6, BoundType DEF ThrottleInit, ThrottleTypeOK, Ages, AgeSeq
<1>8. \A t \in Thread : Careful(thread[t], last, gateway)
  BY <1>6 DEF ThrottleInit, Careful, SpacedOut, Within, Roomy
<1> QED
  BY <1>5, <1>7, <1>8 DEF PacingInv

(* A thread looks at the ledger, and what it decides on is sound. *)
LEMMA ThreadStep ==
  ASSUME PacingInv, NEW t \in Thread, Pruned, UNCHANGED <<penalty, gateway>>,
         thread' \in [Thread -> Threads],
         \A u \in Thread \ {t} : thread'[u] = thread[u],
         Careful(thread'[t], last, gateway),
         thread'[t].at = "pacing" => last + thread'[t].wait >= Interval
  PROVE  PacingInv'
<1>1. /\ requests' = gateway /\ quotes' = Young(quotes) /\ last' = last
      /\ gateway' = gateway /\ penalty' = penalty
  BY LedgerFacts DEF Pruned
<1>2. last \in Nat /\ thread'[t].wait \in Nat
  BY DEF PacingInv, ThrottleTypeOK, Threads, Longest, Most
<1>3. ASSUME NEW s \in AgeSeq, NoneLater(s, last), Spread(s, thread)
      PROVE  Spread(s, thread')
  <2>1. \A i \in 1..Len(s) :
          thread'[t].at = "pacing" => s[i] >= Window \/ s[i] + thread'[t].wait >= Interval
    <3> TAKE i \in 1..Len(s)
    <3> HAVE thread'[t].at = "pacing"
    <3>1. s[i] \in 0..Window
      BY DEF AgeSeq
    <3>2. s[i] >= Window \/ s[i] >= last
      BY <1>3 DEF NoneLater
    <3> QED
      BY <1>2, <3>1, <3>2
  <2>2. \A u \in Thread \ {t} : thread'[u].at = thread[u].at /\ thread'[u].wait = thread[u].wait
    OBVIOUS
  <2> QED
    BY <1>3, <2>1, <2>2, SpreadPaced
<1>4. Spread(gateway, thread') /\ Spread(Young(quotes), thread')
  BY <1>3, LedgerFacts
<1>5. Ledger'
  BY <1>1, <1>4, LedgerFacts DEF Ledger, Entered
<1>6. ThrottleTypeOK'
  BY <1>1, LedgerFacts DEF PacingInv, ThrottleTypeOK, Ages, AgeSeq
<1>7. \A u \in Thread : Careful(thread'[u], last, gateway)
  BY DEF PacingInv
<1> QED
  BY <1>1, <1>5, <1>6, <1>7 DEF PacingInv

LEMMA PaceStep ==
  ASSUME PacingInv, NEW t \in Thread, thread[t].at \in {"idle", "between"},
         NEW kind \in Kinds, Pace(t, kind)
  PROVE  PacingInv'
<1> DEFINE w == PacedWait(kind)
           p == Penalty
           o == Len(gateway) > Limit
           x == [thread[t] EXCEPT !.at = "pacing", !.kind = kind, !.extra = p, !.wait = w,
                                  !.crossed = FALSE, !.over = o]
<1>1. /\ w \in 0..Longest /\ last + w >= Interval + p
      /\ Len(gateway) >= Limit => gateway[1] + w >= Window
  BY PacedWaitIs
<1>2. p \in 0..Extra
  BY PenaltyType
<1>3. /\ thread' = [thread EXCEPT ![t].at = "pacing", ![t].kind = kind, ![t].extra = p,
                                  ![t].wait = w, ![t].crossed = FALSE, ![t].over = o]
      /\ Pruned /\ UNCHANGED <<penalty, gateway>>
  BY LedgerFacts DEF Pace
<1> o \in BOOLEAN /\ (o <=> Len(gateway) > Limit)
  OBVIOUS
<1> HIDE DEF w, p, o
<1>4. thread \in [Thread -> Threads] /\ thread[t] \in Threads
  BY DEF PacingInv, ThrottleTypeOK
<1>5. x \in Threads
  BY <1>1, <1>2, <1>4 DEF Threads, Places
<1>6. thread'[t] = x /\ \A u \in Thread \ {t} : thread'[u] = thread[u]
  BY <1>3, <1>4
<1>7. thread' \in [Thread -> Threads]
  BY <1>3, <1>4, <1>5, <1>6
<1>8. /\ x.at = "pacing" /\ x.wait = w /\ x.extra = p /\ x.over = o
      /\ x.left = thread[t].left /\ x.shared = thread[t].shared
  BY <1>4 DEF Threads
<1> HIDE DEF x
<1>9. Len(gateway) \in Nat
  BY LedgerFacts DEF AgeSeq
<1>10. SpacedOut(x, last)
  BY <1>1, <1>8 DEF SpacedOut
<1>11. Within(x, gateway)
  <2>1. Len(gateway) <= Limit => Vacates(gateway, Limit - 1, w)
    <3>1. Len(gateway) = Limit => Len(gateway) - (Limit - 1) = 1 /\ Len(gateway) >= Limit
      BY <1>9
    <3>2. Len(gateway) <= Limit => Len(gateway) = Limit \/ Len(gateway) <= Limit - 1
      BY <1>9
    <3> QED
      BY <1>1, <3>1, <3>2 DEF Vacates
  <2> QED
    BY <1>8, <1>9, <2>1 DEF Within
<1>12. Roomy(x, gateway)
  BY <1>8 DEF PacingInv, Careful, Roomy
<1>13. last + w >= Interval
  <2>1. last \in Nat /\ w \in Nat
    BY <1>1 DEF PacingInv, ThrottleTypeOK, Longest, Most
  <2> QED
    BY <1>1, <1>2, <2>1
<1> QED
  BY <1>3, <1>6, <1>7, <1>8, <1>10, <1>11, <1>12, <1>13, ThreadStep DEF Careful

LEMMA OrderStep == ASSUME PacingInv, NEW t \in Thread, Order(t) PROVE PacingInv'
<1> DEFINE w == SlotWait
           x == [thread[t] EXCEPT !.at = "reserving", !.wait = w, !.left = Pair]
<1>1. w \in 0..Longest /\ (Limit >= Pair => Vacates(gateway, Limit - Pair, w))
  BY SlotWaitIs
<1>2. /\ thread' = [thread EXCEPT ![t].at = "reserving", ![t].wait = w, ![t].left = Pair]
      /\ Pruned /\ UNCHANGED <<penalty, gateway>>
  BY DEF Order
<1> HIDE DEF w
<1>3. thread \in [Thread -> Threads] /\ thread[t] \in Threads
  BY DEF PacingInv, ThrottleTypeOK
<1>4. x \in Threads
  <2>1. Pair \in 0..Pair
    OBVIOUS
  <2> QED
    BY <1>1, <1>3, <2>1 DEF Threads, Places
<1>5. thread'[t] = x /\ \A u \in Thread \ {t} : thread'[u] = thread[u]
  BY <1>2, <1>3
<1>6. thread' \in [Thread -> Threads]
  BY <1>2, <1>3, <1>4, <1>5
<1>7. x.at = "reserving" /\ x.wait = w /\ x.left = Pair
  BY <1>3 DEF Threads
<1> HIDE DEF x
<1>8. Careful(x, last, gateway)
  BY <1>1, <1>7 DEF Careful, SpacedOut, Within, Roomy
<1> QED
  BY <1>2, <1>5, <1>6, <1>7, <1>8, ThreadStep

LEMMA ReservedStep == ASSUME PacingInv, NEW t \in Thread, Reserved(t) PROVE PacingInv'
<1> DEFINE x == [thread[t] EXCEPT !.at = "between"]
<1>1. /\ thread' = [thread EXCEPT ![t].at = "between"] /\ Pruned /\ UNCHANGED <<penalty, gateway>>
      /\ thread[t].at = "reserving" /\ thread[t].wait = 0
  BY DEF Reserved
<1>2. thread \in [Thread -> Threads] /\ thread[t] \in Threads
  BY DEF PacingInv, ThrottleTypeOK
<1>3. x \in Threads
  BY <1>2 DEF Threads, Places
<1>4. thread'[t] = x /\ \A u \in Thread \ {t} : thread'[u] = thread[u]
  BY <1>1, <1>2
<1>5. thread' \in [Thread -> Threads]
  BY <1>1, <1>2, <1>3, <1>4
<1>6. x.at = "between" /\ x.left = thread[t].left /\ x.shared = thread[t].shared
  BY <1>2 DEF Threads
<1> HIDE DEF x
<1>7. ASSUME Limit >= Pair, Vacates(gateway, Limit - Pair, 0)
      PROVE  Len(gateway) <= Limit - Pair
  <2>1. Len(gateway) \in Nat /\ \A i \in 1..Len(gateway) : gateway[i] \in Nat
    BY LedgerFacts DEF AgeSeq
  <2>2. Len(gateway) > Limit - Pair => Len(gateway) - (Limit - Pair) \in 1..Len(gateway)
    BY <1>7, <2>1
  <2>3. \A i \in 1..Len(gateway) : gateway[i] < Window
    BY LedgerFacts DEF AllYoung
  <2> QED
    BY <1>7, <2>1, <2>2, <2>3 DEF Vacates
<1>8. Roomy(x, gateway)
  BY <1>1, <1>6, <1>7 DEF PacingInv, Careful, Roomy
<1>9. Careful(x, last, gateway)
  BY <1>6, <1>8 DEF Careful, SpacedOut, Within
<1> QED
  BY <1>1, <1>4, <1>5, <1>6, <1>9, ThreadStep

(* A request is entered and sent: what the others decided on is crossed.   *)
LEMMA SendStep == ASSUME PacingInv, NEW t \in Thread, Send(t) PROVE PacingInv'
<1> DEFINE a == Append(gateway, 0)
           x == IF thread[t].left > 1
                THEN [thread[t] EXCEPT !.at = "between", !.left = @ - 1, !.extra = 0, !.over = FALSE]
                ELSE Idle
           y(u) == [thread[u] EXCEPT !.crossed = @ \/ thread[u].at = "pacing",
                                     !.shared  = @ \/ thread[u].left > 0]
<1>1. /\ thread[t].at = "pacing" /\ thread[t].wait = 0
      /\ requests' = a /\ gateway' = a /\ last' = 0 /\ penalty' = penalty
      /\ quotes' \in {Append(Young(quotes), 0), Young(quotes)}
      /\ thread' = [u \in Thread |-> IF u = t THEN x ELSE y(u)]
  BY LedgerFacts DEF Send
<1>2. /\ a \in AgeSeq /\ Sorted(a) /\ AllYoung(a)
  BY LedgerFacts, AppendSorted
<1>3. \A u \in Thread : /\ thread[u] \in Threads /\ thread[u].wait \in Nat
                        /\ thread[u].left \in 0..Pair
                        /\ thread[u].crossed \in BOOLEAN /\ thread[u].shared \in BOOLEAN
  BY ThreadFacts DEF PacingInv
<1>4. x \in Threads /\ x.at \in {"idle", "between"} /\ x.wait = 0
  <2>1. 0 \in 0..Longest /\ 0 \in 0..Extra
    BY DEF Longest, Most
  <2>2. CASE thread[t].left > 1
    <3>1. thread[t].left - 1 \in 0..Pair
      BY <1>3, <2>2
    <3>2. x = [thread[t] EXCEPT !.at = "between", !.left = @ - 1, !.extra = 0, !.over = FALSE]
      BY <2>2
    <3> HIDE DEF x
    <3> QED
      BY <1>1, <1>3, <2>1, <3>1, <3>2 DEF Threads, Places
  <2>3. CASE ~(thread[t].left > 1)
    BY <2>1, <2>3 DEF Idle, Threads, Places, Kinds
  <2> QED
    BY <2>2, <2>3
<1>5. \A u \in Thread :
        /\ y(u) \in Threads /\ y(u).at = thread[u].at /\ y(u).wait = thread[u].wait
        /\ y(u).left = thread[u].left
        /\ y(u).at = "pacing" => y(u).crossed
        /\ y(u).left > 0 => y(u).shared
  <2> TAKE u \in Thread
  <2> DEFINE c == thread[u].crossed \/ thread[u].at = "pacing"
             s == thread[u].shared \/ thread[u].left > 0
  <2>1. y(u) = [thread[u] EXCEPT !.crossed = c, !.shared = s]
    BY <1>3 DEF Threads
  <2>2. c \in BOOLEAN /\ s \in BOOLEAN /\ (thread[u].at = "pacing" => c)
        /\ (thread[u].left > 0 => s)
    BY <1>3
  <2> HIDE DEF c, s, y
  <2> QED
    BY <1>3, <2>1, <2>2 DEF Threads
<1>6. Careful(x, 0, a)
  <2>1. Len(a) = Len(gateway) + 1 /\ Len(gateway) \in Nat
    BY LedgerFacts, AppendSorted DEF AgeSeq
  <2>2. Roomy(x, a)
    <3>1. CASE thread[t].left > 1
      <4>1. x = [thread[t] EXCEPT !.at = "between", !.left = @ - 1, !.extra = 0, !.over = FALSE]
        BY <3>1
      <4>2. x.at = "between" /\ x.left = thread[t].left - 1 /\ x.shared = thread[t].shared
        BY <1>3, <4>1 DEF Threads
      <4>3. thread[t].left > 0 /\ ~thread[t].shared /\ Limit >= Pair =>
              Len(gateway) <= Limit - thread[t].left
        BY <1>1 DEF PacingInv, Careful, Roomy
      <4>4. thread[t].left \in Nat
        BY <1>3
      <4> HIDE DEF x, a
      <4>5. x.left > 0
        BY <3>1, <4>2, <4>4
      <4>6. ~x.shared /\ Limit >= Pair => Len(a) <= Limit - x.left
        <5>1. \A n, l \in Nat : n <= Limit - l => n + 1 <= Limit - (l - 1)
          OBVIOUS
        <5>2. thread[t].left > 0
          BY <3>1, <4>4
        <5> QED
          BY <2>1, <4>2, <4>3, <4>4, <5>1, <5>2
      <4> QED
        BY <4>2, <4>5, <4>6 DEF Roomy
    <3>2. CASE ~(thread[t].left > 1)
      BY <3>2 DEF Idle, Roomy
    <3> QED
      BY <3>1, <3>2
  <2> HIDE DEF x
  <2> QED
    BY <1>4, <2>2 DEF Careful, SpacedOut, Within
<1>7. \A u \in Thread : Careful(y(u), 0, a)
  <2> TAKE u \in Thread
  <2>1. Roomy(thread[u], gateway)
    BY DEF PacingInv, Careful
  <2> HIDE DEF y
  <2> QED
    BY <1>5, <2>1 DEF Careful, SpacedOut, Within, Roomy
<1> HIDE DEF x, y
<1>8. thread' \in [Thread -> Threads] /\ \A u \in Thread : Careful(thread'[u], last', gateway')
  BY <1>1, <1>4, <1>5, <1>6, <1>7
<1>9. /\ thread'[t].at # "pacing"
      /\ \A u \in Thread \ {t} : thread'[u].at = thread[u].at /\ thread'[u].wait = thread[u].wait
  BY <1>1, <1>4, <1>5
<1>10. ASSUME NEW s \in AgeSeq, Spread(s, thread)
       PROVE  Spread(Append(s, 0), thread') /\ Spread(s, thread')
  <2>1. Spread(Append(s, 0), thread')
    <3>1. \A u \in Thread : thread[u].wait \in Nat
      BY <1>3
    <3>2. thread[t].at = "pacing" /\ thread[t].wait = 0
      BY <1>1
    <3> QED
      BY <1>9, <1>10, <3>1, <3>2, SpreadSent
  <2>2. Spread(s, thread')
    BY <1>9, <1>10, SpreadPaced
  <2> QED
    BY <2>1, <2>2
<1>11. Spread(a, thread') /\ Len(a) <= Bound
  <2>1. Spread(a, thread')
    BY <1>10, LedgerFacts
  <2> HIDE DEF a
  <2> QED
    BY <1>2, <2>1, SpreadIsBounded
<1>12. /\ quotes' \in AgeSeq /\ Sorted(quotes') /\ AllYoung(quotes')
       /\ Spread(quotes', thread') /\ Len(quotes') <= Bound
  <2>1. quotes' \in AgeSeq /\ Sorted(quotes') /\ AllYoung(quotes')
    BY <1>1, LedgerFacts, AppendSorted
  <2>2. Spread(quotes', thread')
    BY <1>1, <1>10, LedgerFacts
  <2> QED
    BY <2>1, <2>2, SpreadIsBounded
<1>13. NoneLater(a, 0) /\ NoneLater(quotes', 0)
  <2>1. ASSUME NEW s \in AgeSeq PROVE NoneLater(s, 0)
    BY DEF AgeSeq, NoneLater
  <2> HIDE DEF a
  <2> QED
    BY <1>2, <1>12, <2>1
<1>14. Young(a) = a
  BY <1>2, YoungOfYoung
<1> HIDE DEF a
<1>15. Ledger'
  BY <1>1, <1>2, <1>11, <1>12, <1>13, <1>14 DEF Ledger, Entered
<1>16. ThrottleTypeOK'
  BY <1>1, <1>2, <1>8, <1>11, <1>12 DEF PacingInv, ThrottleTypeOK, Ages, AgeSeq
<1> QED
  BY <1>8, <1>15, <1>16 DEF PacingInv

LEMMA PassStep == ASSUME PacingInv, Pass PROVE PacingInv'
<1>1. /\ requests' = Older(requests) /\ quotes' = Older(quotes)
      /\ gateway' = Young(Older(gateway))
      /\ last' = Least(last + 1, Interval + Extra) /\ penalty' = Minus(penalty, 1)
      /\ thread' = [t \in Thread |-> [thread[t] EXCEPT !.wait = Minus(@, 1)]]
      /\ \A t \in Thread : thread[t].at \in {"reserving", "pacing"} => thread[t].wait > 0
  BY DEF Pass
<1>2. /\ requests \in AgeSeq /\ Sorted(requests) /\ quotes \in AgeSeq /\ Sorted(quotes)
      /\ gateway \in AgeSeq /\ Len(requests) <= Bound /\ Len(quotes) <= Bound
      /\ NoneLater(requests, last) /\ NoneLater(quotes, last)
      /\ Spread(requests, thread) /\ Spread(quotes, thread)
      /\ last \in 0..Interval + Extra /\ penalty \in 0..PenaltyFor
      /\ gateway = Young(requests)
  BY DEF PacingInv, ThrottleTypeOK, Ages, AgeSeq, Ledger, Entered
<1>3. /\ requests' \in AgeSeq /\ Sorted(requests') /\ Len(requests') = Len(requests)
      /\ quotes' \in AgeSeq /\ Sorted(quotes') /\ Len(quotes') = Len(quotes)
  BY <1>1, <1>2, OlderIs
<1>4. gateway' = Young(requests')
  BY <1>1, <1>2, OlderYoung
<1>5. gateway' \in AgeSeq /\ Len(gateway') <= Bound
  <2>1. gateway' \in AgeSeq /\ Len(gateway') <= Len(requests')
    BY <1>3, <1>4, YoungOfSorted
  <2>2. Len(gateway') \in Nat /\ Len(requests') \in Nat
    BY <1>3, <2>1 DEF AgeSeq
  <2> QED
    BY <1>2, <1>3, <2>1, <2>2, BoundType
<1>6. \A t \in Thread :
        /\ thread[t] \in Threads /\ thread[t].wait \in Nat /\ thread[t].wait \in 0..Longest
        /\ thread[t].extra \in 0..Extra /\ thread[t].left \in 0..Pair
  BY DEF PacingInv, ThrottleTypeOK, Threads, Longest, Most
<1>7. \A t \in Thread :
        /\ thread'[t] \in Threads /\ thread'[t] = [thread[t] EXCEPT !.wait = Minus(@, 1)]
        /\ thread'[t].wait = Minus(thread[t].wait, 1)
  <2> TAKE t \in Thread
  <2>1. Minus(thread[t].wait, 1) \in 0..Longest
    BY <1>6 DEF Minus, Longest, Most
  <2>2. thread'[t] = [thread[t] EXCEPT !.wait = Minus(thread[t].wait, 1)]
    BY <1>1, <1>6 DEF Threads
  <2> QED
    BY <1>1, <1>6, <2>1, <2>2 DEF Threads
<1>8. \A t \in Thread :
        /\ thread'[t].at = thread[t].at /\ thread'[t].left = thread[t].left
        /\ thread'[t].extra = thread[t].extra /\ thread'[t].crossed = thread[t].crossed
        /\ thread'[t].over = thread[t].over /\ thread'[t].shared = thread[t].shared
        /\ thread[t].at \in {"reserving", "pacing"} =>
             thread[t].wait > 0 /\ thread'[t].wait = thread[t].wait - 1
  <2> TAKE t \in Thread
  <2>1. thread[t].at \in {"reserving", "pacing"} =>
          thread[t].wait > 0 /\ thread'[t].wait = thread[t].wait - 1
    BY <1>1, <1>6, <1>7 DEF Minus
  <2> QED
    BY <1>6, <1>7, <2>1 DEF Threads
<1>9. Spread(requests', thread') /\ Spread(quotes', thread')
  BY <1>1, <1>2, <1>6, <1>8, SpreadOlder
<1>10. ASSUME NEW s \in AgeSeq, NoneLater(s, last) PROVE NoneLater(Older(s), last')
  <2> SUFFICES ASSUME NEW i \in 1..Len(s)
               PROVE  Older(s)[i] >= Window \/ Older(s)[i] >= last'
    BY OlderIs DEF NoneLater
  <2>1. Older(s)[i] = Least(s[i] + 1, Window) /\ s[i] \in 0..Window
    BY OlderIs DEF AgeSeq
  <2>2. s[i] >= Window \/ s[i] >= last
    BY <1>10 DEF NoneLater
  <2>3. last' <= last + 1 /\ last' \in Nat /\ last \in Nat
    BY <1>1, <1>2 DEF Least
  <2>4. CASE s[i] >= Window
    BY <2>1, <2>4 DEF Least
  <2>5. CASE s[i] >= last
    BY <2>1, <2>3, <2>5 DEF Least
  <2> QED
    BY <2>2, <2>4, <2>5
<1>11. NoneLater(requests', last') /\ NoneLater(quotes', last')
  BY <1>1, <1>2, <1>10
<1>12. Ledger'
  BY <1>3, <1>4, <1>9, <1>11 DEF Ledger, Entered
<1>13. ThrottleTypeOK'
  <2>1. thread' \in [Thread -> Threads]
    BY <1>1, <1>7
  <2>2. last' \in 0..Interval + Extra
    BY <1>1, <1>2 DEF Least
  <2>3. penalty' \in 0..PenaltyFor
    <3>1. \A p \in 0..PenaltyFor : Minus(p, 1) \in 0..PenaltyFor
      BY DEF Minus
    <3> QED
      BY <1>1, <1>2, <3>1
  <2> QED
    BY <1>2, <1>3, <1>5, <2>1, <2>2, <2>3 DEF ThrottleTypeOK, Ages, AgeSeq
<1>14. \A t \in Thread : SpacedOut(thread'[t], last')
  <2> TAKE t \in Thread
  <2>1. SUFFICES ASSUME thread[t].at = "pacing", ~thread[t].crossed
                 PROVE  last' + thread'[t].wait >= Interval + thread[t].extra
    BY <1>8 DEF SpacedOut
  <2>2. last + thread[t].wait >= Interval + thread[t].extra
    BY <2>1 DEF PacingInv, Careful, SpacedOut
  <2>3. thread[t].wait > 0 /\ thread'[t].wait = thread[t].wait - 1
    BY <1>8, <2>1
  <2>4. \A l \in 0..Interval + Extra, w \in Nat, e \in 0..Extra :
          w > 0 /\ l + w >= Interval + e =>
            Least(l + 1, Interval + Extra) + (w - 1) >= Interval + e
    BY DEF Least
  <2> QED
    BY <1>1, <1>2, <1>6, <2>2, <2>3, <2>4
<1>15. Len(gateway') <= Len(gateway) /\ Len(gateway') \in Nat /\ Len(gateway) \in Nat
  <2>1. /\ Older(gateway) \in AgeSeq /\ Sorted(Older(gateway))
        /\ Len(Older(gateway)) = Len(gateway)
    BY LedgerFacts, OlderIs
  <2>2. Len(gateway') <= Len(Older(gateway))
    BY <1>1, <2>1, YoungOfSorted
  <2>3. Len(gateway') \in Nat /\ Len(gateway) \in Nat
    BY <1>2, <1>5 DEF AgeSeq
  <2> QED
    BY <2>1, <2>2, <2>3
<1>16. ASSUME NEW n \in Nat, NEW w \in Nat \ {0}, Vacates(gateway, n, w)
       PROVE  Vacates(gateway', n, w - 1)
  BY <1>1, <1>16, LedgerFacts, VacatesOlder
<1>17. \A t \in Thread : Within(thread'[t], gateway')
  <2> TAKE t \in Thread
  <2>1. SUFFICES ASSUME thread[t].at = "pacing", ~thread[t].crossed, ~thread[t].over
                 PROVE  Len(gateway') <= Limit /\ Vacates(gateway', Limit - 1, thread'[t].wait)
    BY <1>8 DEF Within
  <2>2. Len(gateway) <= Limit /\ Vacates(gateway, Limit - 1, thread[t].wait)
    BY <2>1 DEF PacingInv, Careful, Within
  <2>3. thread[t].wait \in Nat \ {0} /\ thread'[t].wait = thread[t].wait - 1 /\ Limit - 1 \in Nat
    BY <1>6, <1>8, <2>1
  <2>4. Vacates(gateway', Limit - 1, thread[t].wait - 1)
    BY <1>16, <2>2, <2>3
  <2> QED
    BY <1>15, <2>2, <2>3, <2>4
<1>18. \A t \in Thread : Roomy(thread'[t], gateway')
  <2> TAKE t \in Thread
  <2>1. Roomy(thread[t], gateway)
    BY DEF PacingInv, Careful
  <2>2. CASE thread[t].at = "reserving"
    <3>1. thread[t].wait \in Nat \ {0} /\ thread'[t].wait = thread[t].wait - 1
      BY <1>6, <1>8, <2>2
    <3>2. Limit >= Pair => Limit - Pair \in Nat
      OBVIOUS
    <3>3. Limit >= Pair /\ Vacates(gateway, Limit - Pair, thread[t].wait) =>
            Vacates(gateway', Limit - Pair, thread'[t].wait)
      BY <1>16, <3>1, <3>2
    <3> QED
      BY <1>8, <2>1, <2>2, <3>3 DEF Roomy
  <2>3. CASE thread[t].at # "reserving"
    <3>1. Limit - thread[t].left \in Int
      BY <1>6
    <3>2. Len(gateway) <= Limit - thread[t].left => Len(gateway') <= Limit - thread[t].left
      BY <1>15, <3>1
    <3> QED
      BY <1>8, <2>1, <2>3, <3>2 DEF Roomy
  <2> QED
    BY <2>2, <2>3
<1> QED
  BY <1>12, <1>13, <1>14, <1>17, <1>18 DEF PacingInv, Careful

LEMMA PacingStep == PacingInv /\ [ThrottleNext]_throttleVars => PacingInv'
<1> SUFFICES ASSUME PacingInv, [ThrottleNext]_throttleVars PROVE PacingInv'
  OBVIOUS
<1>1. ASSUME NEW t \in Thread, Step(t) PROVE PacingInv'
  <2>1. CASE Call(t)
    <3>1. PICK kind \in Kinds : Pace(t, kind) /\ thread[t].at = "idle"
      BY <2>1 DEF Call
    <3> QED
      BY <3>1, PaceStep
  <2>2. CASE OfPair(t)
    <3>1. Pace(t, "request") /\ thread[t].at = "between" /\ "request" \in Kinds
      BY <2>2 DEF OfPair, Kinds
    <3> QED
      BY <3>1, PaceStep
  <2> QED
    BY <1>1, <2>1, <2>2, OrderStep, ReservedStep, SendStep DEF Step
<1>2. CASE NoteRateLimit
  <2>1. penalty' \in 0..PenaltyFor /\ UNCHANGED <<requests, quotes, last, thread, gateway>>
    BY <1>2 DEF NoteRateLimit, ledger
  <2> QED
    BY <2>1 DEF PacingInv, ThrottleTypeOK, Ledger, Entered
<1>3. CASE UNCHANGED throttleVars
  BY <1>3 DEF throttleVars, ledger, PacingInv, ThrottleTypeOK, Ledger, Entered
<1> QED
  BY <1>1, <1>2, <1>3, PassStep DEF ThrottleNext

LEMMA PacingInvariant == ThrottleSpec => []PacingInv
BY PacingInitially, PacingStep, PTL DEF ThrottleSpec

(* Every variable of the throttle keeps its type: neither ledger grows       *)
(* beyond Bound (throttle.py:75-80 prunes before it appends).                *)
THEOREM ThrottleTypeCorrect == ThrottleSpec => []ThrottleTypeOK
<1>1. PacingInv => ThrottleTypeOK
  BY DEF PacingInv
<1> QED
  BY <1>1, PacingInvariant, PTL

(* throttle computes, sleeps and appends without a lock (throttle.py:226-271), *)
(* and yet for any number of threads, whatever limit, window and floor: the    *)
(* gateway sees at most Limit requests of each thread in a window.             *)
THEOREM WindowBoundAlways == ThrottleSpec => []WindowBound
<1>1. PacingInv => WindowBound
  BY DEF PacingInv, ThrottleTypeOK, Ages, WindowBound
<1> QED
  BY <1>1, PacingInvariant, PTL

(* A request that no other thread crossed keeps the floor to the last one,   *)
(* and the penalty of a rate limit (throttle.py:234-259).                    *)
THEOREM SpacingHoldsAlways == ThrottleSpec => SpacingHolds
<1> DEFINE A == \A t \in Thread :
                  Send(t) /\ ~thread[t].crossed => last >= Interval + thread[t].extra
<1>1. PacingInv => A
  <2> SUFFICES ASSUME PacingInv, NEW t \in Thread, Send(t), ~thread[t].crossed
               PROVE  last >= Interval + thread[t].extra
    OBVIOUS
  <2>1. thread[t].at = "pacing" /\ thread[t].wait = 0
    BY DEF Send
  <2>2. last + 0 >= Interval + thread[t].extra
    BY <2>1 DEF PacingInv, Careful, SpacedOut
  <2> QED
    BY <2>2 DEF PacingInv, ThrottleTypeOK
<1> QED
  BY <1>1, PacingInvariant, PTL DEF ThrottleSpec, SpacingHolds

(* Without a race there are at most Limit requests in the window             *)
(* (throttle.py:246-250), for any limit and any length of the buffer.        *)
THEOREM NoExcessAloneAlways == ThrottleSpec => NoExcessAlone
<1> DEFINE A == \A t \in Thread : Send(t) /\ ~thread[t].crossed /\ ~thread[t].over
                                    => Len(gateway') <= Limit
<1>1. PacingInv => A
  <2> SUFFICES ASSUME PacingInv, NEW t \in Thread, Send(t), ~thread[t].crossed, ~thread[t].over
               PROVE  Len(gateway') <= Limit
    OBVIOUS
  <2>1. thread[t].at = "pacing" /\ thread[t].wait = 0 /\ gateway' = Append(gateway, 0)
    BY DEF Send
  <2>2. Len(gateway) <= Limit /\ Vacates(gateway, Limit - 1, 0)
    BY <2>1 DEF PacingInv, Careful, Within
  <2>3. /\ Len(gateway) \in Nat /\ Len(gateway') = Len(gateway) + 1
        /\ \A i \in 1..Len(gateway) : gateway[i] \in Nat /\ gateway[i] < Window
    <3>1. Len(gateway) \in Nat /\ \A i \in 1..Len(gateway) : gateway[i] \in 0..Window
      BY LedgerFacts DEF AgeSeq
    <3>2. \A i \in 1..Len(gateway) : gateway[i] < Window
      BY LedgerFacts DEF AllYoung
    <3> QED
      BY <2>1, <3>1, <3>2, LedgerFacts, AppendSorted
  <2>4. Len(gateway) = Limit => Len(gateway) - (Limit - 1) \in 1..Len(gateway)
    BY <2>3
  <2>5. Len(gateway) # Limit
    BY <2>2, <2>3, <2>4 DEF Vacates
  <2> QED
    BY <2>2, <2>3, <2>5
<1> QED
  BY <1>1, PacingInvariant, PTL DEF ThrottleSpec, NoExcessAlone

(* wait_for_request_slots (throttle.py:278-337) leaves room for the order    *)
(* as well as for its hashkey, unless another thread takes it.               *)
THEOREM PairFitsAlways == ThrottleSpec => PairFits
<1> DEFINE A == \A t \in Thread : OfPair(t) /\ ~thread[t].shared /\ Limit >= Pair
                                    => thread'[t].wait <= Interval + Extra
<1>1. PacingInv => A
  <2> SUFFICES ASSUME PacingInv, NEW t \in Thread, OfPair(t), ~thread[t].shared, Limit >= Pair
               PROVE  thread'[t].wait <= Interval + Extra
    OBVIOUS
  <2>1. thread[t].at = "between" /\ thread'[t].wait = PacedWait("request")
    BY DEF OfPair, Pace, PacingInv, ThrottleTypeOK, Threads
  <2>2. thread[t].left > 0 /\ thread[t].left \in 0..Pair /\ Len(gateway) <= Limit - thread[t].left
    BY <2>1, ThreadFacts DEF PacingInv, Careful, Roomy
  <2>3. Len(gateway) < Limit
    <3>1. Len(gateway) \in Nat
      BY LedgerFacts DEF AgeSeq
    <3> QED
      BY <2>2, <3>1
  <2> QED
    BY <2>1, <2>3, PacedWaitIs DEF Kinds
<1> QED
  BY <1>1, PacingInvariant, PTL DEF ThrottleSpec, PairFits
=============================================================================

--------------------------- MODULE OrderDayProofs ---------------------------
(***************************************************************************)
(* Proofs about OrderDay, for any symbols, limits and length of the day:   *)
(* its types, that a day on which the state file could not be trusted      *)
(* stays blocked, the daily limit, and what the guards of a symbol rest    *)
(* on: that the dict of a trusted cycle remembers the day.                 *)
(***************************************************************************)
EXTENDS OrderDay, SequenceTheorems, FiniteSetTheorems, TLAPS

LEMMA Numbers ==
  /\ DayLength \in Nat /\ DayLength > 0 /\ RecentMax \in Nat /\ RecentMax >= 2
  /\ Horizon \in Nat /\ MaxOrders \in Nat /\ MaxMishaps \in Nat /\ DailyMax \in Nat
  /\ NoSymbol \notin Symbol /\ Reasons \subseteq AllReasons
BY OrderDayAssumption

(* A later moment is not on an earlier day. *)
LEMMA DayIsMonotone ==
  ASSUME NEW t \in Nat, NEW u \in Nat, t <= u
  PROVE  Day(t) \in Nat /\ Day(u) \in Nat /\ Day(t) <= Day(u)
<1>1. Day(t) \in Nat /\ Day(u) \in Nat
  BY Numbers DEF Day
<1> QED
  BY <1>1, Numbers DEF Day

LEMMA DayFits ==
  ASSUME NEW t \in 0..Horizon
  PROVE  Day(t) \in Days
BY DayIsMonotone, Numbers DEF Days

-----------------------------------------------------------------------------
(* A dict as the program keeps it, with at most n submissions counted for  *)
(* any symbol.                                                             *)
Recents == {r \in Seq(0..MaxOrders) : Len(r) <= RecentMax}

Sound(st, n) ==
  /\ st \in States /\ st.recent \in Recents
  /\ \A s \in Symbol : st.entries[s] <= n

(* The shape of a dict, for the provers that do not know records. *)
LEMMA StatesShape ==
  ASSUME NEW date, NEW trusted, NEW recent, NEW entries, NEW exit, NEW n \in Nat
  PROVE  Sound([date |-> date, trusted |-> trusted, recent |-> recent,
                entries |-> entries, exit |-> exit], n)
         <=> /\ date \in Days /\ trusted \in BOOLEAN /\ recent \in Recents
             /\ entries \in [Symbol -> 0..MaxOrders] /\ exit \in [Symbol -> Exits]
             /\ \A s \in Symbol : entries[s] <= n
BY DEF Sound, States, Recents

LEMMA StateIsItsFields ==
  ASSUME NEW n \in Nat, NEW st, Sound(st, n)
  PROVE  /\ st = [date |-> st.date, trusted |-> st.trusted, recent |-> st.recent,
                  entries |-> st.entries, exit |-> st.exit]
         /\ st.date \in Days /\ st.trusted \in BOOLEAN /\ st.recent \in Recents
         /\ st.entries \in [Symbol -> 0..MaxOrders] /\ st.exit \in [Symbol -> Exits]
         /\ \A s \in Symbol : st.entries[s] <= n
BY DEF Sound, States

(* recent_orders never holds more than its newest records. *)
LEMMA RememberFits ==
  ASSUME NEW r \in Recents, NEW x \in Seq(0..MaxOrders)
  PROVE  Remember(r, x) \in Recents
<1> DEFINE all == r \o x
           lo  == (IF Len(all) > RecentMax THEN Len(all) - RecentMax ELSE 0) + 1
<1>1. all \in Seq(0..MaxOrders) /\ Len(all) \in Nat
  BY ConcatProperties, LenProperties DEF Recents
<1>2. lo \in Nat /\ lo >= 1 /\ Len(all) - lo + 1 <= RecentMax
  BY <1>1, Numbers
<1>3. \A i \in lo..Len(all) : all[i] \in 0..MaxOrders
  <2>1. \A i \in lo..Len(all) : i \in 1..Len(all)
    BY <1>1, <1>2
  <2> HIDE DEF all, lo
  <2> QED
    BY <2>1, <1>1, ElementOfSeq
<1>4. Remember(r, x) = SubSeq(all, lo, Len(all))
  BY DEF Remember
<1> HIDE DEF all, lo
<1>5. /\ SubSeq(all, lo, Len(all)) \in Seq(0..MaxOrders)
      /\ Len(SubSeq(all, lo, Len(all))) = IF lo <= Len(all) THEN Len(all) - lo + 1 ELSE 0
  <2>1. lo \in Int /\ Len(all) \in Int
    BY <1>1, <1>2
  <2> QED
    BY <2>1, <1>3, SubSeqProperties
<1>6. Len(SubSeq(all, lo, Len(all))) <= RecentMax
  BY <1>1, <1>2, <1>5, Numbers
<1> QED
  BY <1>4, <1>5, <1>6 DEF Recents

LEMMA NothingFits == Sound(Nothing, 0)
<1>1. <<>> \in Recents
  BY Numbers DEF Recents
<1>2. NoExit \in Exits
  BY Numbers DEF NoExit, Exits
<1>3. 0 \in Days
  BY DayFits, DayIsMonotone, Numbers DEF Days
<1>4. /\ [s \in Symbol |-> 0] \in [Symbol -> 0..MaxOrders]
      /\ [s \in Symbol |-> NoExit] \in [Symbol -> Exits]
      /\ \A r \in Symbol : [s \in Symbol |-> 0][r] <= 0
  BY <1>2, Numbers
<1> QED
  BY <1>1, <1>3, <1>4, StatesShape, Zenon DEF Nothing

LEMMA SoundIsMonotone ==
  ASSUME NEW st, NEW m \in Nat, NEW n \in Nat, m <= n, Sound(st, m)
  PROVE  Sound(st, n)
<1>1. \A s \in Symbol : st.entries[s] \in Nat
  BY StateIsItsFields, Numbers
<1> QED
  BY <1>1 DEF Sound

LEMMA DefaultFits ==
  ASSUME now \in 0..Horizon, NEW trusted \in BOOLEAN
  PROVE  Sound(DefaultState(trusted), 0) /\ DefaultState(trusted).trusted = trusted
<1>1. Today \in Days
  BY DayFits DEF Today
<1>2. DefaultState(trusted) = [date |-> Today, trusted |-> trusted, recent |-> Nothing.recent,
                               entries |-> Nothing.entries, exit |-> Nothing.exit]
  <2> DEFINE one == [Nothing EXCEPT !.date = Today]
  <2>1. Nothing = [date |-> Nothing.date, trusted |-> Nothing.trusted, recent |-> Nothing.recent,
                   entries |-> Nothing.entries, exit |-> Nothing.exit]
    BY NothingFits, StateIsItsFields
  <2>2. one = [date |-> Today, trusted |-> Nothing.trusted, recent |-> Nothing.recent,
               entries |-> Nothing.entries, exit |-> Nothing.exit]
    BY <2>1
  <2>3. DefaultState(trusted) = [one EXCEPT !.trusted = trusted]
    BY DEF DefaultState
  <2> HIDE DEF one
  <2> QED
    BY <2>2, <2>3
<1>3. /\ Nothing.recent \in Recents /\ Nothing.entries \in [Symbol -> 0..MaxOrders]
      /\ Nothing.exit \in [Symbol -> Exits] /\ \A s \in Symbol : Nothing.entries[s] <= 0
  BY NothingFits, StateIsItsFields
<1>4. Sound(DefaultState(trusted), 0)
  BY <1>1, <1>2, <1>3, StatesShape
<1> QED
  BY <1>2, <1>4

LEMMA LoadFits ==
  ASSUME now \in 0..Horizon, NEW n \in Nat, Sound(file.state, n)
  PROVE  Sound(LoadedState, n)
<1>1. \A b \in BOOLEAN : Sound(DefaultState(b), n)
  BY DefaultFits, SoundIsMonotone
<1> QED
  BY <1>1 DEF LoadedState

(* What the steps of the program do to a dict. *)
LEMMA SubmissionFits ==
  ASSUME NEW n \in Nat, n < MaxOrders, NEW st, Sound(st, n), NEW s \in Symbol
  PROVE  /\ Sound(RecordSubmission(st, s, n + 1), n + 1)
         /\ RecordSubmission(st, s, n + 1).trusted = st.trusted
<1> DEFINE r == Remember(st.recent, <<n + 1>>)
           e == [st.entries EXCEPT ![s] = @ + 1]
<1>1. n + 1 \in 0..MaxOrders
  BY Numbers
<1>2. r \in Recents
  <2>1. <<n + 1>> \in Seq(0..MaxOrders)
    BY <1>1
  <2> QED
    BY <2>1, RememberFits, StateIsItsFields
<1>3. /\ st.entries \in [Symbol -> 0..MaxOrders]
      /\ \A q \in Symbol : st.entries[q] <= n
  BY StateIsItsFields
<1>4. e \in [Symbol -> 0..MaxOrders] /\ \A q \in Symbol : e[q] <= n + 1
  BY <1>3, Numbers
<1>5. RecordSubmission(st, s, n + 1) =
        [date |-> st.date, trusted |-> st.trusted, recent |-> r, entries |-> e, exit |-> st.exit]
  <2>1. st = [date |-> st.date, trusted |-> st.trusted, recent |-> st.recent,
              entries |-> st.entries, exit |-> st.exit]
    BY StateIsItsFields
  <2> DEFINE one == [st EXCEPT !.recent = r]
  <2>2. one = [date |-> st.date, trusted |-> st.trusted, recent |-> r, entries |-> st.entries,
               exit |-> st.exit]
    BY <2>1
  <2>3. RecordSubmission(st, s, n + 1) = [one EXCEPT !.entries[s] = @ + 1]
    BY <2>1 DEF RecordSubmission
  <2> HIDE DEF one
  <2> QED
    BY <2>2, <2>3
<1> HIDE DEF r, e
<1>6. Sound(RecordSubmission(st, s, n + 1), n + 1)
  BY <1>2, <1>4, <1>5, StatesShape, StateIsItsFields
<1> QED
  BY <1>5, <1>6

LEMMA RecordFits ==
  ASSUME NEW n \in Nat, NEW st, Sound(st, n), NEW x \in Seq(0..MaxOrders)
  PROVE  /\ Sound([st EXCEPT !.recent = Remember(@, x)], n)
         /\ [st EXCEPT !.recent = Remember(@, x)].trusted = st.trusted
<1> DEFINE r == Remember(st.recent, x)
<1>1. r \in Recents
  BY RememberFits, StateIsItsFields
<1>2. [st EXCEPT !.recent = Remember(@, x)] =
        [date |-> st.date, trusted |-> st.trusted, recent |-> r, entries |-> st.entries,
         exit |-> st.exit]
  <2>1. st = [date |-> st.date, trusted |-> st.trusted, recent |-> st.recent,
              entries |-> st.entries, exit |-> st.exit]
    BY StateIsItsFields
  <2> QED
    BY <2>1
<1> HIDE DEF r
<1> QED
  BY <1>1, <1>2, StatesShape, StateIsItsFields

LEMMA ExitFits ==
  ASSUME NEW n \in Nat, NEW st, Sound(st, n), NEW s \in Symbol, NEW x \in Exits
  PROVE  /\ Sound([st EXCEPT !.exit[s] = x], n)
         /\ [st EXCEPT !.exit[s] = x].trusted = st.trusted
<1> DEFINE e == [st.exit EXCEPT ![s] = x]
<1>1. e \in [Symbol -> Exits]
  BY StateIsItsFields
<1>2. [st EXCEPT !.exit[s] = x] =
        [date |-> st.date, trusted |-> st.trusted, recent |-> st.recent, entries |-> st.entries,
         exit |-> e]
  <2>1. st = [date |-> st.date, trusted |-> st.trusted, recent |-> st.recent,
              entries |-> st.entries, exit |-> st.exit]
    BY StateIsItsFields
  <2> QED
    BY <2>1
<1> HIDE DEF e
<1> QED
  BY <1>1, <1>2, StatesShape, StateIsItsFields

-----------------------------------------------------------------------------
Order == [symbol : Symbol, at : 0..Horizon, kept : Keepers]
Stops == [at : 0..Horizon, kept : Keepers]

(* Histories keep their length when the records of their orders change.    *)
LEMMA OrdersFit ==
  ASSUME NEW os \in Seq(Order), NEW f, f \in [DOMAIN os -> Order]
  PROVE  f \in Seq(Order) /\ Len(f) = Len(os)
BY LenProperties

LEMMA PushedFits ==
  ASSUME NEW os \in Seq(Order), NEW r, NEW q
  PROVE  Pushed(os, r, q) \in Seq(Order) /\ Len(Pushed(os, r, q)) = Len(os)
<1>1. \A k \in DOMAIN os : os[k] \in Order
  BY LenProperties, ElementOfSeq
<1>2. \A k \in DOMAIN os : [os[k] EXCEPT !.kept = "pushed"] \in Order
  BY <1>1 DEF Order, Keepers
<1>3. Pushed(os, r, q) \in [DOMAIN os -> Order]
  BY <1>1, <1>2 DEF Pushed
<1> QED
  BY <1>3, OrdersFit

LEMMA BecomeFits ==
  ASSUME orders \in Seq(Order), stops \in [Symbol -> Stops], NEW kept \in {"file", "lost"}
  PROVE  /\ OrdersBecome(kept) \in Seq(Order) /\ Len(OrdersBecome(kept)) = Len(orders)
         /\ StopsBecome(kept) \in [Symbol -> Stops]
<1>1. \A k \in DOMAIN orders : orders[k] \in Order
  BY LenProperties, ElementOfSeq
<1>2. \A k \in DOMAIN orders : [orders[k] EXCEPT !.kept = kept] \in Order
  BY <1>1 DEF Order, Keepers
<1>3. OrdersBecome(kept) \in [DOMAIN orders -> Order]
  BY <1>1, <1>2 DEF OrdersBecome
<1>4. Forgotten \in Stops /\ \A s \in Symbol : [stops[s] EXCEPT !.kept = kept] \in Stops
  BY Numbers DEF Forgotten, Stops, Keepers
<1>5. StopsBecome(kept) \in [Symbol -> Stops]
  BY <1>4 DEF StopsBecome
<1> QED
  BY <1>3, <1>5, OrdersFit

-----------------------------------------------------------------------------
(* No dict and no file counts more submissions than there were orders. *)
Stores ==
  /\ Sound(state, Len(orders)) /\ Sound(orphan, Len(orders)) /\ Sound(file.state, Len(orders))
  /\ file \in [kind : {"missing", "cut", "whole"}, state : States, day : Days]

(* Every order left one record, or none, and a record is archived once. *)
Counted ==
  /\ orders \in Seq(Order) /\ Len(orders) \in 0..MaxOrders
  /\ stops \in [Symbol -> Stops]
  /\ log \in [Days -> Nat] /\ unlogged \in [Days -> Nat] /\ archived \in [Days -> Nat]
  /\ \A d \in Days : log[d] + unlogged[d] + archived[d] <= Len(orders)

(* A handler that works on the dict of the cycle is waited for. *)
Thread ==
  /\ pc \in Pcs
  /\ handler \in [stage : Stages, symbol : Symbol \cup {NoSymbol}, own : BOOLEAN]
  /\ handler.stage # "none" => handler.symbol \in Symbol
  /\ handler.stage \in {"evaluate", "submit"} => Len(orders) < MaxOrders
  /\ handler.stage # "none" /\ ~handler.own => pc \in {"wait", "finalize"}

Rest ==
  /\ now \in 0..Horizon
  /\ torn \in BOOLEAN
  /\ mishaps \in 0..MaxMishaps
  /\ blocked \subseteq Days

(* What a load of the file would not trust today. *)
Untrusted ==
  \/ file.kind = "cut"
  \/ file.kind = "whole" /\ file.state.date # Today /\ file.day = Today
  \/ file.kind = "whole" /\ file.state.date = Today /\ ~file.state.trusted

(* The days on which a load refused the file are today or past, and today  *)
(* neither the file nor the dict of the running cycle lifts the refusal.   *)
Blocking ==
  /\ \A d \in blocked : d <= Today
  /\ Today \in blocked => Untrusted
  /\ Today \in blocked /\ pc \in {"sell", "buy", "wait", "finalize"} => ~state.trusted

IInv == Stores /\ Counted /\ Thread /\ Rest /\ Blocking

LEMMA TypesFollow == IInv => TypeOK
<1> SUFFICES ASSUME IInv PROVE TypeOK
  OBVIOUS
<1>1. \A st \in {state, orphan, file.state} : st \in States /\ Len(st.recent) <= RecentMax
  BY DEF IInv, Stores, Sound, Recents
<1>2. \A d \in Days : /\ log[d] \in 0..MaxOrders /\ unlogged[d] \in 0..MaxOrders
                      /\ archived[d] \in 0..MaxOrders
  BY Numbers DEF IInv, Counted
<1>3. /\ log \in [Days -> 0..MaxOrders] /\ unlogged \in [Days -> 0..MaxOrders]
      /\ archived \in [Days -> 0..MaxOrders]
  BY <1>2 DEF IInv, Counted
<1>4. /\ orders \in Seq(Order) /\ Len(orders) <= MaxOrders /\ stops \in [Symbol -> Stops]
  BY DEF IInv, Counted
<1> QED
  BY <1>1, <1>3, <1>4, Zenon DEF TypeOK, IInv, Stores, Thread, Rest, Order, Stops

LEMMA LoadIsBlocked ==
  ASSUME now \in 0..Horizon, file.kind \in {"missing", "cut", "whole"}
  PROVE  Untrusted <=> ~LoadedState.trusted
<1>1. DefaultState(TRUE).trusted /\ ~DefaultState(FALSE).trusted
  BY DefaultFits
<1>2. CASE file.kind # "whole"
  BY <1>1, <1>2 DEF Untrusted, LoadedState
<1>3. CASE file.kind = "whole" /\ file.state.date # Today
  <2>1. LoadedState = DefaultState(file.day # Today)
    BY <1>3 DEF LoadedState
  <2>2. CASE file.day = Today
    BY <1>1, <1>3, <2>1, <2>2 DEF Untrusted
  <2>3. CASE file.day # Today
    BY <1>1, <1>3, <2>1, <2>3 DEF Untrusted
  <2> QED
    BY <2>2, <2>3
<1>4. CASE file.kind = "whole" /\ file.state.date = Today
  BY <1>1, <1>4 DEF Untrusted, LoadedState
<1> QED
  BY <1>2, <1>3, <1>4

-----------------------------------------------------------------------------
LEMMA Initially == Init => IInv
<1> SUFFICES ASSUME Init PROVE IInv
  OBVIOUS
<1>1. Len(orders) = 0 /\ orders \in Seq(Order)
  BY DEF Init
<1>2. 0 \in Days
  BY NothingFits, StateIsItsFields DEF Nothing
<1>3. Stores
  BY <1>1, <1>2, NothingFits DEF Init, Stores, Sound
<1>4. Counted
  BY <1>1, Numbers DEF Init, Counted, Forgotten, Stops, Keepers
<1>5. Thread
  BY DEF Init, Thread, Idle, Pcs, Stages
<1>6. Rest
  <2>1. 0 \in 0..Horizon /\ 0 \in 0..MaxMishaps
    BY Numbers
  <2> QED
    BY <2>1, Zenon DEF Init, Rest
<1>7. Blocking
  BY Zenon DEF Init, Blocking
<1> QED
  BY <1>3, <1>4, <1>5, <1>6, <1>7 DEF IInv

(* The thread after a handler's end, and the end of a cycle. *)
LEMMA EndFits ==
  ASSUME Thread, HandlerEnds, Len(orders') = Len(orders)
  PROVE  Thread'
BY DEF Thread, HandlerEnds, Idle, Pcs, Stages

(* Steps that change neither the clock nor the file nor the trust of the   *)
(* cycle's dict leave the refusal as it is.                                *)
LEMMA StillBlocking ==
  ASSUME Blocking, UNCHANGED <<now, file, blocked>>, state'.trusted = state.trusted,
         pc' \in {"sell", "buy", "wait", "finalize"} => pc \in {"sell", "buy", "wait", "finalize"}
  PROVE  Blocking'
BY DEF Blocking, Untrusted, Today

-----------------------------------------------------------------------------
LEMMA MishapFits == ASSUME Rest, NEW b, Mishap(b) PROVE mishaps' \in 0..MaxMishaps
<1>1. CASE b
  BY <1>1, Numbers DEF Rest, Mishap
<1>2. CASE ~b
  BY <1>2 DEF Rest, Mishap
<1> QED
  BY <1>1, <1>2

LEMMA TickStep == ASSUME IInv, Tick PROVE IInv'
<1> USE DEF IInv
<1>1. now \in Nat /\ now' \in Nat /\ now <= now' /\ now' \in 0..Horizon
  BY Numbers DEF Rest, Tick
<1>2. Stores' /\ Counted' /\ Thread'
  BY DEF Stores, Counted, Thread, Tick, memory, disk, history
<1>3. Rest'
  BY <1>1, Zenon DEF Rest, Tick, disk, history
<1>4. Today \in Nat /\ Today' \in Nat /\ Today <= Today' /\ \A d \in blocked : d \in Nat
  BY <1>1, DayIsMonotone, Numbers DEF Today, Rest, Days
<1>5. blocked' = blocked /\ file' = file /\ pc' = pc /\ state' = state
  BY DEF Tick, memory, disk, history
<1>6. Today' \in blocked' => Today' = Today
  BY <1>4, <1>5 DEF Blocking
<1>7. Blocking'
  <2>1. \A d \in blocked' : d <= Today'
    BY <1>4, <1>5 DEF Blocking
  <2>2. Today' \in blocked' => Untrusted'
    BY <1>5, <1>6 DEF Blocking, Untrusted
  <2> QED
    BY <1>5, <1>6, <2>1, <2>2 DEF Blocking
<1> QED
  BY <1>2, <1>3, <1>7

LEMMA StartStep == ASSUME IInv, NEW oversized \in BOOLEAN, Start(oversized) PROVE IInv'
<1> USE DEF IInv
<1>1. Stores' /\ Thread'
  BY DEF Stores, Thread, Start, memory, Pcs
<1>2. Today \in Days
  BY DayFits DEF Rest, Today
<1>3. Counted'
  <2>1. CASE oversized
    <3>1. /\ log' = [d \in Days |-> 0] /\ archived' = [archived EXCEPT ![Today] = @ + log[Today]]
          /\ UNCHANGED <<orders, stops, unlogged>>
      BY <2>1 DEF Start
    <3>2. \A d \in Days : log'[d] + unlogged'[d] + archived'[d] <= Len(orders')
      BY <1>2, <3>1 DEF Counted
    <3> QED
      BY <1>2, <3>1, <3>2 DEF Counted
  <2>2. CASE ~oversized
    BY <2>2 DEF Start, Counted
  <2> QED
    BY <2>1, <2>2
<1>4. Rest'
  <2>1. mishaps' \in 0..MaxMishaps
    BY MishapFits DEF Start
  <2> QED
    BY <2>1, Zenon DEF Rest, Start
<1>5. Blocking'
  BY StillBlocking DEF Start, memory
<1> QED
  BY <1>1, <1>3, <1>4, <1>5

LEMMA CrashStep ==
  ASSUME IInv, NEW inAppend \in BOOLEAN, NEW inSave \in BOOLEAN, Crash(inAppend, inSave)
  PROVE  IInv'
<1> USE DEF IInv
<1>1. orders' \in Seq(Order) /\ Len(orders') = Len(orders) /\ stops' \in [Symbol -> Stops]
  BY BecomeFits DEF Crash, Counted
<1>2. Counted'
  BY <1>1 DEF Counted, Crash
<1>3. Sound(Nothing, Len(orders)) /\ 0 \in Days
  <2>1. Len(orders) \in Nat /\ 0 <= Len(orders)
    BY DEF Counted
  <2> QED
    BY <2>1, NothingFits, SoundIsMonotone, StateIsItsFields DEF Nothing
<1>4. Sound(CutFile.state, Len(orders)) /\ CutFile.kind = "cut"
      /\ CutFile \in [kind : {"missing", "cut", "whole"}, state : States, day : Days]
  BY <1>3 DEF CutFile, Sound
<1>5. Stores'
  BY <1>1, <1>3, <1>4 DEF Stores, Crash
<1>6. Thread'
  BY <1>1 DEF Thread, Crash, Idle, Pcs, Stages
<1>7. Rest'
  <2>1. mishaps' \in 0..MaxMishaps
    BY MishapFits DEF Crash
  <2> QED
    BY <2>1, Zenon DEF Rest, Crash
<1>8. Blocking'
  <2>1. pc' = "down" /\ UNCHANGED <<now, blocked>> /\ (file' = file \/ file' = CutFile)
    BY DEF Crash
  <2>2. Untrusted => Untrusted'
    BY <1>4, <2>1 DEF Untrusted, Today
  <2> QED
    BY <2>1, <2>2 DEF Blocking, Today
<1> QED
  BY <1>2, <1>5, <1>6, <1>7, <1>8

LEMMA LoadStep == ASSUME IInv, LoadState PROVE IInv'
<1> USE DEF IInv
<1>1. Len(orders) \in Nat
  BY DEF Counted
<1>2. Today \in Days
  BY DayFits DEF Rest, Today
<1>3. Stores'
  BY <1>1, LoadFits DEF Stores, Rest, LoadState, disk
<1>4. Counted' /\ Thread'
  BY DEF Counted, Thread, LoadState, disk, Pcs
<1>5. Rest'
  BY <1>2, Zenon DEF Rest, LoadState, disk
<1>6. Untrusted <=> ~LoadedState.trusted
  BY LoadIsBlocked DEF Rest, Stores
<1>7. Blocking'
  <2>1. UNCHANGED <<now, file>> /\ state' = LoadedState
    BY DEF LoadState, disk
  <2>2. Untrusted' = Untrusted /\ Today' = Today
    BY <2>1 DEF Untrusted, Today
  <2>3. Today \in Nat
    BY DayIsMonotone, Numbers DEF Rest, Today
  <2>4. CASE LoadedState.trusted
    BY <1>6, <2>1, <2>2, <2>4 DEF Blocking, LoadState
  <2>5. CASE ~LoadedState.trusted
    <3>1. blocked' = blocked \cup {Today}
      BY <2>5 DEF LoadState
    <3> QED
      BY <1>6, <2>1, <2>2, <2>3, <2>5, <3>1 DEF Blocking
  <2> QED
    BY <2>4, <2>5
<1> QED
  BY <1>3, <1>4, <1>5, <1>7

LEMMA SellExitStep ==
  ASSUME IInv, NEW s \in Symbol, NEW reason \in Reasons, SellExit(s, reason)
  PROVE  IInv'
<1> USE DEF IInv
<1> DEFINE one == [state EXCEPT !.recent = Remember(@, <<Other, Other>>)]
           x   == [reason |-> reason, at |-> now]
<1>1. Len(orders) \in Nat /\ <<Other, Other>> \in Seq(0..MaxOrders)
  BY Numbers DEF Counted, Other
<1>2. Sound(one, Len(orders)) /\ one.trusted = state.trusted
  BY <1>1, RecordFits DEF Stores
<1>3. x \in Exits
  BY Numbers DEF Rest, Exits
<1>4. state' = [one EXCEPT !.exit[s] = x]
  BY DEF SellExit
<1> HIDE DEF one, x
<1>5. Sound(state', Len(orders)) /\ state'.trusted = state.trusted
  BY <1>1, <1>2, <1>3, <1>4, ExitFits
<1>6. orders' \in Seq(Order) /\ Len(orders') = Len(orders)
  BY PushedFits DEF SellExit, Counted
<1>7. Stores'
  BY <1>5, <1>6 DEF Stores, SellExit, disk
<1>8. Counted'
  <2>1. stops' \in [Symbol -> Stops]
    BY Numbers DEF SellExit, Counted, Rest, Stops, Keepers, Forgotten
  <2> QED
    BY <1>6, <2>1 DEF Counted, SellExit, disk
<1>9. Thread' /\ Rest'
  BY <1>6, Zenon DEF Thread, Rest, SellExit, disk, Pcs
<1>10. Blocking'
  BY <1>5, StillBlocking DEF SellExit, disk
<1> QED
  BY <1>7, <1>8, <1>9, <1>10

(* The steps that only move the thread: every variable but pc and handler  *)
(* stays as it is.                                                         *)
LEMMA MoveStep ==
  ASSUME IInv, UNCHANGED <<now, state, disk, orders, stops, unlogged, archived, blocked>>,
         Sound(orphan', Len(orders)), mishaps' \in 0..MaxMishaps, Thread',
         pc' \in {"sell", "buy", "wait", "finalize"} => pc \in {"sell", "buy", "wait", "finalize"}
  PROVE  IInv'
<1>1. Stores' /\ Counted'
  BY DEF IInv, Stores, Counted, disk
<1>2. Rest'
  BY Zenon DEF IInv, Rest, disk
<1>3. Blocking'
  BY StillBlocking DEF IInv, disk
<1> QED
  BY <1>1, <1>2, <1>3 DEF IInv

LEMMA OrphanFits == ASSUME IInv PROVE Sound(Nothing, Len(orders)) /\ Sound(orphan, Len(orders))
<1>1. Len(orders) \in Nat /\ 0 <= Len(orders)
  BY DEF IInv, Counted
<1> QED
  BY <1>1, NothingFits, SoundIsMonotone DEF IInv, Stores

LEMMA ThreadSteps ==
  ASSUME IInv,
         \/ NoSell \/ NoBuy \/ TimesOut \/ Refuse \/ SendSucceeds
         \/ \E s \in Symbol : StartBuy(s)
         \/ \E fresh, riskOff \in BOOLEAN : Clear(fresh, riskOff)
  PROVE  IInv'
<1> USE DEF IInv, memory, history, disk
<1>1. Thread /\ Sound(Nothing, Len(orders)) /\ Sound(orphan, Len(orders)) /\ Rest
  BY OrphanFits
<1>2. CASE NoSell \/ NoBuy \/ TimesOut \/ \E s \in Symbol : StartBuy(s)
  <2>1. Thread'
    <3>1. CASE NoSell
      BY <1>1, <3>1 DEF NoSell, Thread, Pcs
    <3>2. CASE NoBuy
      BY <1>1, <3>2 DEF NoBuy, Thread, Pcs
    <3>3. CASE TimesOut
      BY <1>1, <3>3 DEF TimesOut, Thread, Pcs
    <3>4. ASSUME NEW s \in Symbol, StartBuy(s) PROVE Thread'
      <4>1. /\ handler' = [stage |-> "evaluate", symbol |-> s, own |-> FALSE] /\ pc' = "wait"
            /\ Len(orders') < MaxOrders
        BY <3>4 DEF StartBuy
      <4> QED
        BY <4>1 DEF Thread, Pcs, Stages
    <3> QED
      BY <1>2, <3>1, <3>2, <3>3, <3>4
  <2>2. mishaps' \in 0..MaxMishaps
    BY <1>1, <1>2, MishapFits DEF NoSell, NoBuy, TimesOut, StartBuy, Rest
  <2> QED
    BY <1>1, <1>2, <2>1, <2>2, MoveStep DEF NoSell, NoBuy, TimesOut, StartBuy
<1>3. CASE Refuse \/ SendSucceeds
  <2>1. HandlerEnds /\ UNCHANGED <<now, state, disk, history>>
    BY <1>3, Zenon DEF Refuse, SendSucceeds
  <2>2. Thread'
    BY <1>1, <2>1, EndFits
  <2> QED
    BY <1>1, <2>1, <2>2, MoveStep DEF HandlerEnds, Rest
<1>4. CASE \E fresh, riskOff \in BOOLEAN : Clear(fresh, riskOff)
  <2>1. /\ handler.stage = "evaluate" /\ handler' = [handler EXCEPT !.stage = "submit"]
        /\ UNCHANGED <<now, pc, memory, disk, history>>
    BY <1>4, Zenon DEF Clear
  <2>2. Thread'
    BY <1>1, <2>1 DEF Thread, Stages
  <2> QED
    BY <1>1, <2>1, <2>2, MoveStep DEF Rest
<1> QED
  BY <1>2, <1>3, <1>4

LEMMA SubmitStep ==
  ASSUME IInv, NEW written \in BOOLEAN, NEW half \in BOOLEAN, Submit(written, half)
  PROVE  IInv'
<1> USE DEF IInv
<1> DEFINE n == Len(orders)
           o == IF handler.own THEN orders ELSE Pushed(orders, state.recent, state'.recent)
           r == [symbol |-> handler.symbol, at |-> now,
                 kept |-> IF handler.own THEN "lost" ELSE "dict"]
<1>1. n \in Nat /\ n < MaxOrders /\ handler.stage = "submit" /\ handler.symbol \in Symbol
  <2>1. handler.stage = "submit"
    BY DEF Submit
  <2> QED
    BY <2>1 DEF Thread, Counted
<1>2. o \in Seq(Order) /\ Len(o) = n
  BY PushedFits DEF Counted
<1>3. r \in Order
  BY <1>1 DEF Rest, Order, Keepers
<1>4. orders' = Append(o, r)
  BY DEF Submit
<1> HIDE DEF o, r
<1>5. orders' \in Seq(Order) /\ Len(orders') = n + 1
  BY <1>2, <1>3, <1>4
<1>6. \A st : Sound(st, n) =>
        /\ Sound(st, n + 1)
        /\ Sound(RecordSubmission(st, handler.symbol, n + 1), n + 1)
        /\ RecordSubmission(st, handler.symbol, n + 1).trusted = st.trusted
  BY <1>1, SubmissionFits, SoundIsMonotone
<1>7. /\ Sound(state', n + 1) /\ Sound(orphan', n + 1) /\ state'.trusted = state.trusted
      /\ Sound(file.state, n + 1)
  BY <1>6 DEF Submit, Stores
<1>8. Stores'
  BY <1>5, <1>7 DEF Stores, Submit
<1>9. Today \in Days
  BY DayFits DEF Rest, Today
<1>10. Counted'
  <2>1. /\ log' \in [Days -> Nat] /\ unlogged' \in [Days -> Nat] /\ archived' \in [Days -> Nat]
        /\ \A d \in Days : log'[d] + unlogged'[d] + archived'[d] <= n + 1
    <3>1. CASE written
      BY <1>1, <1>9, <3>1 DEF Counted, Submit, WriteRecord
    <3>2. CASE ~written
      BY <1>1, <1>9, <3>2 DEF Counted, Submit, WriteRecord
    <3> QED
      BY <3>1, <3>2
  <2>2. n + 1 \in 0..MaxOrders
    BY <1>1, Numbers
  <2> QED
    BY <1>5, <2>1, <2>2 DEF Counted, Submit
<1>11. Thread'
  BY <1>1 DEF Thread, Submit, Stages
<1>12. Rest'
  <2>1. mishaps' \in 0..MaxMishaps
    BY MishapFits DEF Submit
  <2> QED
    BY <2>1, Zenon DEF Rest, Submit, WriteRecord
<1>13. Blocking'
  BY <1>7, StillBlocking DEF Submit
<1> QED
  BY <1>8, <1>10, <1>11, <1>12, <1>13

LEMMA SendFailsStep == ASSUME IInv, SendFails PROVE IInv'
<1> USE DEF IInv
<1>1. Len(orders) \in Nat /\ <<Other>> \in Seq(0..MaxOrders)
  BY Numbers DEF Counted, Other
<1>2. Sound(state', Len(orders)) /\ state'.trusted = state.trusted
  BY <1>1, RecordFits DEF SendFails, Stores
<1>3. orders' \in Seq(Order) /\ Len(orders') = Len(orders)
  BY PushedFits DEF SendFails, Counted
<1>4. Thread'
  BY <1>3, EndFits DEF SendFails
<1>5. Stores'
  BY <1>2, <1>3, OrphanFits DEF Stores, SendFails, HandlerEnds, disk
<1>6. Counted'
  BY <1>3 DEF Counted, SendFails, disk
<1>7. Rest'
  BY Zenon DEF Rest, SendFails, disk
<1>8. Blocking'
  BY <1>2, StillBlocking DEF SendFails, HandlerEnds, disk
<1> QED
  BY <1>4, <1>5, <1>6, <1>7, <1>8

LEMMA SaveStep ==
  ASSUME IInv, NEW after, NEW kept \in {"file", "lost"}, NEW b, Mishap(b), Save(after, kept),
         after \in {file, CutFile, [kind |-> "whole", state |-> state, day |-> Today]}
  PROVE  IInv'
<1> USE DEF IInv
<1>1. orders' \in Seq(Order) /\ Len(orders') = Len(orders) /\ stops' \in [Symbol -> Stops]
  BY BecomeFits DEF Save, Counted
<1>2. Today \in Days /\ 0 \in Days
  <2>1. Today \in Days
    BY DayFits DEF Rest, Today
  <2>2. 0 \in Days
    BY NothingFits, StateIsItsFields DEF Nothing
  <2> QED
    BY <2>1, <2>2
<1>3. Sound(Nothing, Len(orders)) /\ Sound(orphan, Len(orders)) /\ Sound(state, Len(orders))
  BY OrphanFits DEF Stores
<1>4. /\ Sound(after.state, Len(orders))
      /\ after \in [kind : {"missing", "cut", "whole"}, state : States, day : Days]
  BY <1>2, <1>3 DEF Stores, CutFile, Sound
<1>5. Stores'
  BY <1>1, <1>3, <1>4 DEF Stores, Save
<1>6. Counted'
  BY <1>1 DEF Counted, Save
<1>7. Thread'
  BY <1>1 DEF Thread, Save, Pcs
<1>8. Rest'
  <2>1. mishaps' \in 0..MaxMishaps
    BY MishapFits
  <2> QED
    BY <2>1, Zenon DEF Rest, Save
<1>9. Blocking'
  <2>1. pc = "finalize" /\ pc' = "idle" /\ UNCHANGED <<now, blocked>> /\ file' = after
    BY DEF Save
  <2>2. Today \in blocked => Untrusted'
    BY <2>1 DEF Blocking, Untrusted, Today, CutFile
  <2> QED
    BY <2>1, <2>2 DEF Blocking, Today
<1> QED
  BY <1>5, <1>6, <1>7, <1>8, <1>9

-----------------------------------------------------------------------------
LEMMA Step == ASSUME IInv, [Next]_vars PROVE IInv'
<1>1. CASE \/ NoSell \/ NoBuy \/ TimesOut \/ Refuse \/ SendSucceeds
           \/ \E s \in Symbol : StartBuy(s)
           \/ \E fresh, riskOff \in BOOLEAN : Clear(fresh, riskOff)
  BY <1>1, ThreadSteps
<1>2. CASE SaveSucceeds \/ SaveFails \/ SaveTears
  BY <1>2, SaveStep DEF SaveSucceeds, SaveFails, SaveTears
<1>3. CASE UNCHANGED vars
  BY <1>3 DEF vars, memory, disk, history, IInv, Stores, Counted, Thread, Rest, Blocking,
              Untrusted, Today
<1> QED
  BY <1>1, <1>2, <1>3, TickStep, StartStep, CrashStep, LoadStep, SellExitStep, SubmitStep,
     SendFailsStep DEF Next

LEMMA Invariant == Spec => []IInv
<1>1. IInv /\ [Next]_vars => IInv'
  BY Step
<1> QED
  BY <1>1, Initially, PTL DEF Spec

(* Every variable of the day keeps its type: recent_orders stays within    *)
(* its cap, and no symbol's entries exceed the orders that were made.      *)
THEOREM TypeCorrect == Spec => []TypeOK
BY Invariant, TypesFollow, PTL

LEMMA OnlyClearSubmits ==
  ASSUME IInv, [Next]_vars, handler.stage = "evaluate", handler'.stage = "submit"
  PROVE  \E fresh, riskOff \in BOOLEAN : Clear(fresh, riskOff)
<1>1. handler.stage # handler'.stage
  OBVIOUS
<1>2. ~(Tick \/ LoadState \/ NoSell \/ NoBuy \/ TimesOut \/ UNCHANGED vars)
      /\ ~(\E oversized \in BOOLEAN : Start(oversized))
      /\ ~(\E s \in Symbol, reason \in Reasons : SellExit(s, reason))
  BY <1>1 DEF Tick, Start, LoadState, SellExit, NoSell, NoBuy, TimesOut, vars
<1>3. ~(\E s \in Symbol : StartBuy(s))
  BY DEF StartBuy
<1>4. ~(Refuse \/ SendSucceeds \/ SendFails)
      /\ ~(\E inAppend, inSave \in BOOLEAN : Crash(inAppend, inSave))
  <2>1. Idle.stage # "submit"
    BY DEF Idle
  <2>2. handler' # Idle
    BY <2>1
  <2> QED
    BY <2>2, Zenon DEF Refuse, SendSucceeds, SendFails, HandlerEnds, Crash
<1>5. ~(\E written, half \in BOOLEAN : Submit(written, half))
  BY DEF Submit
<1>6. ~(SaveSucceeds \/ SaveFails \/ SaveTears)
  BY <1>1 DEF SaveSucceeds, SaveFails, SaveTears, Save, IInv, Thread
<1> QED
  BY <1>2, <1>3, <1>4, <1>5, <1>6 DEF Next

(* A day on which a load refused the state file stays blocked: no cycle    *)
(* clears an order on it, whatever is saved, lost, cut or restarted.       *)
THEOREM BlockedDay == Spec => BlockedDayStaysBlocked
<1> DEFINE A == handler.stage = "evaluate" /\ handler'.stage = "submit" /\ ~handler.own
                  => Today \notin blocked
<1>1. ASSUME IInv, [Next]_vars PROVE A
  <2> SUFFICES ASSUME handler.stage = "evaluate", handler'.stage = "submit", ~handler.own
               PROVE  Today \notin blocked
    OBVIOUS
  <2>1. PICK fresh \in BOOLEAN, riskOff \in BOOLEAN : Clear(fresh, riskOff)
    BY <1>1, OnlyClearSubmits
  <2>2. state.trusted
    BY <2>1 DEF Clear, BuyGuard, Held
  <2>3. pc \in {"wait", "finalize"}
    BY <1>1 DEF IInv, Thread
  <2> QED
    BY <1>1, <2>2, <2>3 DEF IInv, Blocking
<1>2. IInv /\ [Next]_vars => [A]_vars
  BY <1>1
<1> QED
  BY <1>2, Invariant, PTL DEF Spec, BlockedDayStaysBlocked

-----------------------------------------------------------------------------
(* The log accounts for the orders of today, and its records of today stay *)
(* within the limit; of a day that is over, only the limit is left.        *)
Daily ==
  /\ \A d \in Days : IsFiniteSet(OrdersOf(d))
  /\ \A d \in Days : d > Today => log[d] = 0 /\ OrdersOf(d) = {}
  /\ Cardinality(OrdersOf(Today)) <= log[Today] + unlogged[Today] + archived[Today]
  /\ DailyLimit
  /\ handler.stage = "submit" => log[Today] < DailyMax

LEMMA DailyInitially == Init => Daily
<1> SUFFICES ASSUME Init PROVE Daily
  OBVIOUS
<1>1. IInv
  BY Initially
<1>2. \A d : OrdersOf(d) = {}
  BY DEF Init, OrdersOf
<1>3. IsFiniteSet({}) /\ Cardinality({}) = 0
  BY FS_EmptySet
<1>4. Today \in Days
  BY <1>1, DayFits DEF IInv, Rest, Today
<1>5. \A d \in Days : log[d] = 0 /\ unlogged[d] = 0 /\ archived[d] = 0
  BY DEF Init
<1>6. handler.stage # "submit"
  BY DEF Init, Idle
<1>7. DailyLimit
  <2>1. DailyMax \in Nat
    BY Numbers
  <2>2. \A d \in Days : Cardinality(OrdersOf(d)) = 0 /\ unlogged[d] = 0 /\ archived[d] = 0
    BY <1>2, <1>3, <1>5
  <2> QED
    BY <2>1, <2>2 DEF DailyLimit
<1> QED
  BY <1>2, <1>3, <1>4, <1>5, <1>6, <1>7 DEF Daily

(* Histories of the same orders, whoever remembers them. *)
LEMMA SameOrders ==
  ASSUME NEW os \in Seq(Order), NEW f, DOMAIN f = DOMAIN os, \A k \in DOMAIN os : f[k].at = os[k].at,
         NEW d
  PROVE  {k \in DOMAIN f : Day(f[k].at) = d} = {k \in DOMAIN os : Day(os[k].at) = d}
OBVIOUS

LEMMA PushedKeeps ==
  ASSUME NEW os \in Seq(Order), NEW r, NEW q
  PROVE  DOMAIN Pushed(os, r, q) = DOMAIN os
         /\ \A k \in DOMAIN os : Pushed(os, r, q)[k].at = os[k].at
<1>1. \A k \in DOMAIN os : os[k] \in Order
  BY LenProperties, ElementOfSeq
<1>2. \A k \in DOMAIN os : [os[k] EXCEPT !.kept = "pushed"].at = os[k].at
  BY <1>1 DEF Order
<1> QED
  BY <1>2 DEF Pushed

LEMMA BecomeKeeps ==
  ASSUME orders \in Seq(Order), NEW kept
  PROVE  DOMAIN OrdersBecome(kept) = DOMAIN orders
         /\ \A k \in DOMAIN orders : OrdersBecome(kept)[k].at = orders[k].at
<1>1. \A k \in DOMAIN orders : orders[k] \in Order
  BY LenProperties, ElementOfSeq
<1>2. \A k \in DOMAIN orders : [orders[k] EXCEPT !.kept = kept].at = orders[k].at
  BY <1>1 DEF Order
<1> QED
  BY <1>2 DEF OrdersBecome

(* Steps that make no order and write no record of one. *)
LEMMA QuietStep ==
  ASSUME Daily, orders \in Seq(Order), UNCHANGED <<now, log, unlogged, archived>>,
         DOMAIN orders' = DOMAIN orders, \A k \in DOMAIN orders : orders'[k].at = orders[k].at,
         handler'.stage = "submit" => handler.stage = "submit"
  PROVE  Daily'
<1>1. \A d : OrdersOf(d)' = OrdersOf(d)
  BY SameOrders DEF OrdersOf
<1>2. Today' = Today
  BY DEF Today
<1> QED
  BY <1>1, <1>2 DEF Daily, DailyLimit

LEMMA QuietSteps ==
  ASSUME IInv, Daily,
         \/ LoadState \/ NoSell \/ NoBuy \/ TimesOut \/ Refuse \/ SendSucceeds \/ SendFails
         \/ SaveSucceeds \/ SaveFails \/ SaveTears \/ UNCHANGED vars
         \/ \E inAppend, inSave \in BOOLEAN : Crash(inAppend, inSave)
         \/ \E s \in Symbol, reason \in Reasons : SellExit(s, reason)
         \/ \E s \in Symbol : StartBuy(s)
  PROVE  Daily'
<1>1. orders \in Seq(Order)
  BY DEF IInv, Counted
<1>2. Idle.stage # "submit"
  BY DEF Idle
<1>3. CASE LoadState \/ NoSell \/ NoBuy \/ TimesOut \/ UNCHANGED vars
           \/ \E s \in Symbol : StartBuy(s)
  <2>1. UNCHANGED <<now, log, unlogged, archived, orders>>
    BY <1>3 DEF LoadState, NoSell, NoBuy, TimesOut, StartBuy, vars, disk, history
  <2>2. handler'.stage = "submit" => handler.stage = "submit"
    <3>1. CASE \E s \in Symbol : StartBuy(s)
      BY <3>1 DEF StartBuy
    <3>2. CASE LoadState \/ NoSell \/ NoBuy \/ TimesOut \/ UNCHANGED vars
      BY <3>2 DEF LoadState, NoSell, NoBuy, TimesOut, vars
    <3> QED
      BY <1>3, <3>1, <3>2
  <2> QED
    BY <1>1, <2>1, <2>2, QuietStep
<1>4. CASE Refuse \/ SendSucceeds
  <2>1. UNCHANGED <<now, log, unlogged, archived, orders>> /\ handler' = Idle
    BY <1>4, Zenon DEF Refuse, SendSucceeds, HandlerEnds, disk, history
  <2> QED
    BY <1>1, <1>2, <2>1, QuietStep
<1>5. CASE SendFails \/ \E s \in Symbol, reason \in Reasons : SellExit(s, reason)
  <2>1. /\ UNCHANGED <<now, log, unlogged, archived>>
        /\ orders' = Pushed(orders, state.recent, state'.recent)
        /\ handler' = Idle \/ handler' = handler
    BY <1>5, Zenon DEF SendFails, SellExit, HandlerEnds, disk
  <2> QED
    BY <1>1, <1>2, <2>1, PushedKeeps, QuietStep
<1>6. CASE SaveSucceeds \/ SaveFails \/ SaveTears
           \/ \E inAppend, inSave \in BOOLEAN : Crash(inAppend, inSave)
  <2>1. PICK kept \in {"file", "lost"} : orders' = OrdersBecome(kept)
    BY <1>6, Zenon DEF SaveSucceeds, SaveFails, SaveTears, Save, Crash
  <2>2. UNCHANGED <<now, log, unlogged, archived>>
    BY <1>6 DEF SaveSucceeds, SaveFails, SaveTears, Save, Crash
  <2>3. handler' \in {Idle, handler, [handler EXCEPT !.own = TRUE]}
    BY <1>6, Zenon DEF SaveSucceeds, SaveFails, SaveTears, Save, Crash
  <2>4. [handler EXCEPT !.own = TRUE].stage = handler.stage
    BY DEF IInv, Thread
  <2>5. handler'.stage = "submit" => handler.stage = "submit"
    BY <1>2, <2>3, <2>4
  <2> QED
    BY <1>1, <2>1, <2>2, <2>5, BecomeKeeps, QuietStep
<1> QED
  BY <1>3, <1>4, <1>5, <1>6

LEMMA DailyTick == ASSUME IInv, Daily, Tick PROVE Daily'
<1>1. now \in Nat /\ now' \in Nat /\ now <= now' /\ now' \in 0..Horizon
  BY Numbers DEF IInv, Rest, Tick
<1>2. Today \in Nat /\ Today' \in Nat /\ Today <= Today' /\ Today' \in Days
  BY <1>1, DayIsMonotone, DayFits DEF Today
<1>3. UNCHANGED <<log, unlogged, archived, orders, handler>> /\ \A d : OrdersOf(d)' = OrdersOf(d)
  BY DEF Tick, disk, history, OrdersOf
<1>4. DailyLimit'
  BY <1>3 DEF Daily, DailyLimit
<1>5. /\ log \in [Days -> Nat] /\ unlogged \in [Days -> Nat] /\ archived \in [Days -> Nat]
      /\ Days \subseteq Nat
  BY Numbers DEF IInv, Counted, Days
<1>6. \A d \in Days : d > Today' => d > Today
  BY <1>2, <1>5
<1>7. CASE Today' = Today
  BY <1>3, <1>4, <1>7 DEF Daily
<1>8. CASE Today' # Today
  <2>1. Today' > Today
    BY <1>2, <1>8
  <2>2. log[Today'] = 0 /\ OrdersOf(Today') = {}
    BY <1>2, <2>1 DEF Daily
  <2>3. Cardinality(OrdersOf(Today')) = 0
    BY <2>2, FS_EmptySet
  <2>4. Cardinality(OrdersOf(Today')) <= log[Today'] + unlogged[Today'] + archived[Today']
    BY <1>2, <1>5, <2>3
  <2>5. handler.stage = "submit" => log[Today'] < DailyMax
    <3>1. Today \in Days
      BY DayFits DEF IInv, Rest, Today
    <3> QED
      BY <1>5, <2>2, <3>1, Numbers DEF Daily
  <2>6. OrdersOf(Today)' = OrdersOf(Today')
    BY <1>3 DEF OrdersOf
  <2> QED
    BY <1>3, <1>4, <1>6, <2>4, <2>5, <2>6 DEF Daily
<1> QED
  BY <1>7, <1>8

LEMMA DailyStart ==
  ASSUME IInv, Daily, NEW oversized \in BOOLEAN, Start(oversized)
  PROVE  Daily'
<1>1. Today' = Today /\ Today \in Days /\ \A d : OrdersOf(d)' = OrdersOf(d)
  BY DayFits DEF Start, Today, OrdersOf, IInv, Rest
<1>2. /\ log \in [Days -> Nat] /\ unlogged \in [Days -> Nat] /\ archived \in [Days -> Nat]
      /\ \A d \in Days : Cardinality(OrdersOf(d)) \in Nat
  BY FS_CardinalityType DEF IInv, Counted, Daily
<1>3. UNCHANGED <<handler, unlogged>>
  BY DEF Start
<1>4. CASE oversized
  <2>1. log' = [d \in Days |-> 0] /\ archived' = [archived EXCEPT ![Today] = @ + log[Today]]
    BY <1>4 DEF Start
  <2>2. \A d \in Days : log'[d] = 0 /\ archived'[d] \in Nat /\ archived'[d] >= archived[d]
    BY <1>1, <1>2, <2>1
  <2>3. archived'[Today] = archived[Today] + log[Today]
    BY <1>1, <1>2, <2>1
  <2>4. DailyLimit'
    <3>1. \A d \in Days : Cardinality(OrdersOf(d)) <= DailyMax + unlogged'[d] + archived'[d]
      BY <1>2, <1>3, <2>2, Numbers DEF Daily, DailyLimit
    <3> QED
      BY <1>1, <3>1 DEF DailyLimit
  <2>5. Cardinality(OrdersOf(Today)) <= log'[Today] + unlogged'[Today] + archived'[Today]
    BY <1>1, <1>2, <1>3, <2>2, <2>3 DEF Daily
  <2>6. handler.stage = "submit" => log'[Today] < DailyMax
    BY <1>1, <1>2, <2>2, Numbers DEF Daily
  <2> QED
    BY <1>1, <1>3, <2>2, <2>4, <2>5, <2>6 DEF Daily
<1>5. CASE ~oversized
  <2>1. UNCHANGED <<now, log, archived, orders>>
    BY <1>5 DEF Start
  <2> QED
    BY <1>3, <2>1, QuietStep DEF IInv, Counted
<1> QED
  BY <1>4, <1>5

LEMMA DailyClear ==
  ASSUME IInv, Daily, NEW fresh, NEW riskOff, Clear(fresh, riskOff)
  PROVE  Daily'
<1>1. UNCHANGED <<now, log, unlogged, archived, orders>> /\ log[Today] < DailyMax
  BY DEF Clear, RiskGuards, Readable, disk, history
<1>2. Today' = Today /\ \A d : OrdersOf(d)' = OrdersOf(d)
  BY <1>1 DEF Today, OrdersOf
<1> QED
  BY <1>1, <1>2 DEF Daily, DailyLimit

LEMMA DailySubmit ==
  ASSUME IInv, Daily, NEW written \in BOOLEAN, NEW half \in BOOLEAN, Submit(written, half)
  PROVE  Daily'
<1> DEFINE n == Len(orders)
           o == IF handler.own THEN orders ELSE Pushed(orders, state.recent, state'.recent)
           r == [symbol |-> handler.symbol, at |-> now,
                 kept |-> IF handler.own THEN "lost" ELSE "dict"]
<1>1. n \in Nat /\ orders \in Seq(Order) /\ handler.stage = "submit" /\ log[Today] < DailyMax
  BY DEF IInv, Counted, Submit, Daily
<1>2. /\ o \in Seq(Order) /\ Len(o) = n /\ DOMAIN o = DOMAIN orders
      /\ \A k \in DOMAIN orders : o[k].at = orders[k].at
  BY <1>1, PushedFits, PushedKeeps
<1>3. orders' = Append(o, r) /\ r.at = now
  BY DEF Submit
<1> HIDE DEF o, r
<1>0. PICK t \in Days : t = Today
  BY DayFits DEF IInv, Rest, Today
<1>4. /\ DOMAIN orders' = 1..n + 1 /\ DOMAIN orders = 1..n
      /\ \A k \in 1..n : orders'[k] = o[k] /\ orders'[n + 1] = r
  BY <1>1, <1>2, <1>3
<1>5. \A k \in 1..n + 1 : k \in 1..n \/ k = n + 1
  BY <1>1
<1>6. \A d : OrdersOf(d)' = IF d = t THEN OrdersOf(d) \cup {n + 1} ELSE OrdersOf(d)
  <2>1. \A d, k : k \in OrdersOf(d)' <=> k \in 1..n + 1 /\ Day(orders'[k].at) = d
    BY <1>4 DEF OrdersOf
  <2>2. \A d, k : k \in OrdersOf(d) <=> k \in 1..n /\ Day(orders[k].at) = d
    BY <1>4 DEF OrdersOf
  <2>3. \A k \in 1..n : orders'[k].at = orders[k].at
    BY <1>2, <1>4
  <2>4. Day(orders'[n + 1].at) = t /\ n + 1 \in 1..n + 1 /\ 1..n \subseteq 1..n + 1
    BY <1>1, <1>3, <1>4, <1>0 DEF Today
  <2>5. ASSUME NEW d, NEW k
        PROVE  k \in OrdersOf(d)' <=> k \in OrdersOf(d) \/ (d = t /\ k = n + 1)
    <3>1. CASE k \in 1..n
      BY <1>1, <2>1, <2>2, <2>3, <2>4, <3>1
    <3>2. CASE k \notin 1..n
      BY <1>5, <2>1, <2>2, <2>4, <3>2
    <3> QED
      BY <3>1, <3>2
  <2>6. ASSUME NEW d PROVE OrdersOf(d)' = IF d = t THEN OrdersOf(d) \cup {n + 1} ELSE OrdersOf(d)
    <3>1. CASE d = t
      BY <2>5, <3>1
    <3>2. CASE d # t
      <4>1. \A k : k \in OrdersOf(d)' <=> k \in OrdersOf(d)
        BY <2>5, <3>2
      <4>2. OrdersOf(d)' = OrdersOf(d)
        BY <4>1, Zenon
      <4> QED
        BY <3>2, <4>2
    <3> QED
      BY <3>1, <3>2
  <2> QED
    BY <2>6
<1>7. Today = t /\ Today' = t /\ Days \subseteq Nat
  BY <1>0 DEF Submit, Today, Days
<1>8. /\ log \in [Days -> Nat] /\ unlogged \in [Days -> Nat] /\ archived \in [Days -> Nat]
      /\ \A d \in Days : IsFiniteSet(OrdersOf(d)) /\ Cardinality(OrdersOf(d)) \in Nat
  BY FS_CardinalityType DEF IInv, Counted, Daily
<1>9. n + 1 \notin OrdersOf(t)
  BY <1>1, <1>4 DEF OrdersOf
<1>10. /\ IsFiniteSet(OrdersOf(t) \cup {n + 1})
       /\ Cardinality(OrdersOf(t) \cup {n + 1}) = Cardinality(OrdersOf(t)) + 1
  BY <1>8, <1>9, FS_AddElement
<1>11. /\ archived' = archived
       /\ \/ log' = [log EXCEPT ![t] = @ + 1] /\ unlogged' = unlogged
          \/ log' = log /\ unlogged' = [unlogged EXCEPT ![t] = @ + 1]
  BY <1>7, Zenon DEF Submit, WriteRecord
<1>12. \A d \in Days : d # t =>
         log'[d] = log[d] /\ unlogged'[d] = unlogged[d] /\ OrdersOf(d)' = OrdersOf(d)
  BY <1>6, <1>8, <1>11
<1>13. \A d \in Days : IsFiniteSet(OrdersOf(d)')
  BY <1>6, <1>8, <1>10
<1>14. \A d \in Days : d > t => log'[d] = 0 /\ OrdersOf(d)' = {}
  BY <1>7, <1>12 DEF Daily
<1> DEFINE q == Cardinality(OrdersOf(t)')
           p == Cardinality(OrdersOf(t))
<1>15. q = p + 1 /\ p \in Nat /\ p <= log[t] + unlogged[t] + archived[t] /\ log[t] < DailyMax
       /\ p <= DailyMax + unlogged[t] + archived[t]
  BY <1>1, <1>6, <1>7, <1>8, <1>10 DEF Daily, DailyLimit
<1> HIDE DEF q, p
<1>16. q <= log'[t] + unlogged'[t] + archived'[t] /\ q <= DailyMax + unlogged'[t] + archived'[t]
  <2>1. log[t] \in Nat /\ unlogged[t] \in Nat /\ archived[t] \in Nat /\ DailyMax \in Nat
    BY <1>8, Numbers
  <2>2. \/ log'[t] = log[t] + 1 /\ unlogged'[t] = unlogged[t]
        \/ log'[t] = log[t] /\ unlogged'[t] = unlogged[t] + 1
    BY <1>8, <1>11
  <2> QED
    BY <1>11, <1>15, <2>1, <2>2
<1>17. DailyLimit'
  <2>1. \A d \in Days : d # t =>
          Cardinality(OrdersOf(d)') <= DailyMax + unlogged'[d] + archived'[d]
    BY <1>11, <1>12 DEF Daily, DailyLimit
  <2> QED
    BY <1>16, <2>1 DEF DailyLimit, q
<1>18. handler'.stage # "submit"
  BY DEF Submit, IInv, Thread
<1>19. OrdersOf(Today)' = OrdersOf(t)'
  BY <1>7 DEF OrdersOf
<1> QED
  BY <1>7, <1>13, <1>14, <1>16, <1>17, <1>18, <1>19 DEF Daily, q

LEMMA DailyStep == ASSUME IInv, Daily, [Next]_vars PROVE Daily'
BY QuietSteps, DailyTick, DailyStart, DailyClear, DailySubmit DEF Next

(* A day's BUY orders exceed buy_daily_max_order_submissions by no more    *)
(* than the orders whose record was not written and the records archived   *)
(* on the day, however the process is killed and restarted, whatever state *)
(* is lost, and even while a detached handler is at work.                  *)
THEOREM LimitIsKept == Spec => []DailyLimit
<1>1. Init => IInv /\ Daily
  BY Initially, DailyInitially
<1>2. IInv /\ Daily /\ [Next]_vars => IInv' /\ Daily'
  BY Step, DailyStep
<1>3. Daily => DailyLimit
  BY DEF Daily
<1> QED
  BY <1>1, <1>2, <1>3, PTL DEF Spec

-----------------------------------------------------------------------------
(* What the program remembers of the orders and exits of a day: st is one  *)
(* of its dicts, os and xs the history, ks who may remember an order.      *)
In(r, k) == \E i \in DOMAIN r : r[i] = k

KeptBy(os, ks, d, s) ==
  {k \in DOMAIN os : Day(os[k].at) = d /\ os[k].symbol = s /\ os[k].kept \in ks}

(* Every order is counted for its symbol, also one that recent_orders has  *)
(* dropped, every other one is a recent order, and every exit is recorded. *)
Counts(os, d, st, ks) ==
  \A s \in Symbol : Cardinality(KeptBy(os, ks \cup {"pushed"}, d, s)) <= st.entries[s]

Lists(os, d, st, ks) ==
  \A k \in DOMAIN os : Day(os[k].at) = d /\ os[k].kept \in ks => In(st.recent, k)

Exited(xs, d, st, ks) ==
  \A s \in Symbol : xs[s].kept \in ks /\ Day(xs[s].at) = d =>
    st.exit[s] = [reason |-> "stop_loss", at |-> xs[s].at]

Recalls(os, xs, d, st, ks) == Counts(os, d, st, ks) /\ Lists(os, d, st, ks) /\ Exited(xs, d, st, ks)

(* The records of a list are orders that were not lost. *)
Records(os, r, ks) == \A i \in DOMAIN r : r[i] # Other => r[i] \in DOMAIN os /\ os[r[i]].kept \in ks

(* Two histories of the same orders, of which the second remembers what    *)
(* the first does, but for some that recent_orders has dropped.            *)
SameBut(os, ps, dropped) ==
  /\ ps \in Seq(Order) /\ DOMAIN ps = DOMAIN os
  /\ \A k \in DOMAIN os : ps[k].at = os[k].at /\ ps[k].symbol = os[k].symbol
  /\ \A k \in DOMAIN os : ps[k].kept = IF k \in dropped THEN "pushed" ELSE os[k].kept

-----------------------------------------------------------------------------
(* The end of a sequence. *)
LEMMA Newest ==
  ASSUME NEW S, NEW q \in Seq(S), NEW lo \in Nat, lo >= 1
  PROVE  LET t == SubSeq(q, lo, Len(q))
         IN  /\ t \in Seq(S) /\ DOMAIN t = 1..Len(t)
             /\ lo <= Len(q) => Len(t) = Len(q) - lo + 1
             /\ \A i \in DOMAIN t : t[i] = q[lo + i - 1] /\ lo + i - 1 \in 1..Len(q)
<1>1. Len(q) \in Nat
  BY LenProperties
<1>2. \A i \in lo..Len(q) : i \in 1..Len(q)
  BY <1>1
<1>3. \A i \in lo..Len(q) : q[i] \in S
  BY <1>2, ElementOfSeq
<1>4. lo \in Int /\ Len(q) \in Int
  BY <1>1
<1> DEFINE t == SubSeq(q, lo, Len(q))
<1>5. /\ t \in Seq(S) /\ Len(t) = (IF lo <= Len(q) THEN Len(q) - lo + 1 ELSE 0)
      /\ \A i \in 1..Len(q) - lo + 1 : t[i] = q[lo + i - 1]
  BY <1>3, <1>4, SubSeqProperties
<1> HIDE DEF t
<1>6. DOMAIN t = 1..Len(t)
  BY <1>5, LenProperties
<1>7. \A i \in DOMAIN t : i \in 1..Len(q) - lo + 1 /\ lo + i - 1 \in 1..Len(q)
  BY <1>1, <1>5, <1>6
<1> QED
  BY <1>1, <1>5, <1>6, <1>7 DEF t

(* Which records recent_orders keeps: none but its own and the new ones,   *)
(* the newest of them, and the one before if there was room for it.        *)
LEMMA RememberHolds ==
  ASSUME NEW r \in Recents, NEW x \in Seq(0..MaxOrders)
  PROVE  \A k : In(Remember(r, x), k) => In(r, k) \/ In(x, k)
<1> DEFINE all == r \o x
           lo  == (IF Len(all) > RecentMax THEN Len(all) - RecentMax ELSE 0) + 1
<1>1. all \in Seq(0..MaxOrders) /\ Len(all) = Len(r) + Len(x) /\ Len(r) \in Nat /\ Len(x) \in Nat
  BY ConcatProperties, LenProperties DEF Recents
<1>2. lo \in Nat /\ lo >= 1
  BY <1>1, Numbers
<1>3. \A i \in 1..Len(all) : all[i] = IF i <= Len(r) THEN r[i] ELSE x[i - Len(r)]
  BY <1>1, ConcatProperties DEF Recents
<1>4. Remember(r, x) = SubSeq(all, lo, Len(all))
  BY DEF Remember
<1> HIDE DEF all, lo
<1>6. \A i \in DOMAIN Remember(r, x) :
        Remember(r, x)[i] = all[lo + i - 1] /\ lo + i - 1 \in 1..Len(all)
  BY <1>1, <1>2, <1>4, Newest
<1>7. DOMAIN r = 1..Len(r) /\ DOMAIN x = 1..Len(x)
  BY LenProperties DEF Recents
<1>8. ASSUME NEW k, NEW i \in DOMAIN Remember(r, x), Remember(r, x)[i] = k
      PROVE  In(r, k) \/ In(x, k)
  <2>1. PICK j \in 1..Len(all) : all[j] = k
    BY <1>6, <1>8
  <2>2. CASE j <= Len(r)
    <3>1. j \in 1..Len(r) /\ r[j] = k
      BY <1>1, <1>3, <2>1, <2>2
    <3> QED
      BY <1>7, <3>1 DEF In
  <2>3. CASE j > Len(r)
    <3>1. j - Len(r) \in 1..Len(x) /\ x[j - Len(r)] = k
      BY <1>1, <1>3, <2>1, <2>3
    <3> QED
      BY <1>7, <3>1 DEF In
  <2> QED
    BY <1>1, <2>2, <2>3
<1> QED
  BY <1>8 DEF In

LEMMA RememberEnds ==
  ASSUME NEW r \in Recents, NEW v \in 0..MaxOrders
  PROVE  /\ Remember(r, <<v>>) # <<>>
         /\ Remember(r, <<v>>)[Len(Remember(r, <<v>>))] = v
         /\ r # <<>> => In(Remember(r, <<v>>), r[Len(r)])
<1> DEFINE x   == <<v>>
           all == r \o x
           lo  == (IF Len(all) > RecentMax THEN Len(all) - RecentMax ELSE 0) + 1
           m   == Remember(r, x)
<1>1. x \in Seq(0..MaxOrders) /\ Len(x) = 1 /\ x[1] = v
  OBVIOUS
<1>2. all \in Seq(0..MaxOrders) /\ Len(all) = Len(r) + 1 /\ Len(r) \in Nat
  BY <1>1, ConcatProperties, LenProperties DEF Recents
<1>3. lo \in Nat /\ lo >= 1 /\ lo <= Len(all) /\ (Len(r) >= 1 => lo <= Len(r))
  BY <1>2, Numbers DEF Recents
<1>4. /\ \A i \in 1..Len(all) : all[i] = IF i <= Len(r) THEN r[i] ELSE x[i - Len(r)]
  BY <1>1, <1>2, ConcatProperties DEF Recents
<1>5. all[Len(all)] = v /\ (Len(r) >= 1 => all[Len(r)] = r[Len(r)])
  BY <1>1, <1>2, <1>4
<1>6. m = SubSeq(all, lo, Len(all))
  BY DEF Remember
<1> HIDE DEF all, lo, x
<1>8. /\ Len(m) = Len(all) - lo + 1 /\ DOMAIN m = 1..Len(m)
      /\ \A i \in DOMAIN m : m[i] = all[lo + i - 1]
  BY <1>2, <1>3, <1>6, Newest
<1> HIDE DEF m
<1>10. Len(m) \in Nat /\ Len(m) >= 1 /\ m[Len(m)] = v
  BY <1>2, <1>3, <1>5, <1>8
<1>11. ASSUME r # <<>> PROVE In(m, r[Len(r)])
  <2>1. Len(r) >= 1
    BY <1>2, <1>11, EmptySeq DEF Recents
  <2>2. Len(m) - 1 \in 1..Len(m) /\ m[Len(m) - 1] = r[Len(r)]
    BY <1>2, <1>3, <1>5, <1>8, <2>1
  <2> QED
    BY <1>8, <2>2 DEF In
<1>12. m # <<>>
  BY <1>10
<1> QED
  BY <1>10, <1>11, <1>12 DEF m, x

-----------------------------------------------------------------------------
LEMMA KeptIsFinite ==
  ASSUME NEW os \in Seq(Order), NEW ks, NEW d, NEW s
  PROVE  IsFiniteSet(KeptBy(os, ks, d, s)) /\ Cardinality(KeptBy(os, ks, d, s)) \in Nat
<1>1. DOMAIN os = 1..Len(os) /\ Len(os) \in Nat
  BY LenProperties
<1>2. IsFiniteSet(1..Len(os))
  BY <1>1, FS_Interval
<1>3. KeptBy(os, ks, d, s) \subseteq 1..Len(os)
  BY <1>1 DEF KeptBy
<1> QED
  BY <1>2, <1>3, FS_Subset, FS_CardinalityType

(* What add_recent_order drops is all that changes hands.                  *)
LEMMA PushedDrops ==
  ASSUME NEW os \in Seq(Order), NEW r, NEW q
  PROVE  SameBut(os, Pushed(os, r, q), {k \in DOMAIN os : In(r, k) /\ ~In(q, k)})
<1>1. \A k \in DOMAIN os : os[k] \in Order
  BY LenProperties, ElementOfSeq
<1>2. \A k \in DOMAIN os : /\ [os[k] EXCEPT !.kept = "pushed"].at = os[k].at
                           /\ [os[k] EXCEPT !.kept = "pushed"].symbol = os[k].symbol
                           /\ [os[k] EXCEPT !.kept = "pushed"].kept = "pushed"
  BY <1>1 DEF Order
<1>3. Pushed(os, r, q) \in Seq(Order)
  BY PushedFits
<1> QED
  BY <1>2, <1>3 DEF Pushed, In, SameBut

(* Then a day remembers as much as before. *)
Alike(os, ps, d, ks) ==
  /\ \A s : KeptBy(ps, ks \cup {"pushed"}, d, s) = KeptBy(os, ks \cup {"pushed"}, d, s)
  /\ \A st : Counts(os, d, st, ks) => Counts(ps, d, st, ks)
  /\ \A st : Lists(os, d, st, ks) => Lists(ps, d, st, ks)

LEMMA SameBy ==
  ASSUME NEW os \in Seq(Order), NEW ps, NEW dropped, SameBut(os, ps, dropped),
         NEW ks, "file" \in ks, "pushed" \notin ks, NEW d,
         \A k \in DOMAIN os \cap dropped : os[k].kept \in {"file", "pushed"}
  PROVE  Alike(os, ps, d, ks)
<1>1. \A k \in DOMAIN os : ps[k].kept \in ks \cup {"pushed"} <=> os[k].kept \in ks \cup {"pushed"}
  BY DEF SameBut
<1>2. \A s : KeptBy(ps, ks \cup {"pushed"}, d, s) = KeptBy(os, ks \cup {"pushed"}, d, s)
  BY <1>1 DEF SameBut, KeptBy
<1>3. \A k \in DOMAIN os : ps[k].kept \in ks => os[k].kept \in ks
  BY DEF SameBut
<1>4. \A st : Lists(os, d, st, ks) => Lists(ps, d, st, ks)
  BY <1>3 DEF SameBut, Lists
<1> QED
  BY <1>2, <1>4 DEF Counts, Alike

LEMMA SameRecords ==
  ASSUME NEW os, NEW ps, NEW dropped, SameBut(os, ps, dropped), NEW r, NEW ks, "pushed" \in ks,
         Records(os, r, ks)
  PROVE  Records(ps, r, ks)
BY DEF Records, SameBut

(* What OrdersBecome and StopsBecome leave of the memory of a day. *)
Became(os, ps, kept) ==
  /\ ps \in Seq(Order) /\ DOMAIN ps = DOMAIN os
  /\ \A k \in DOMAIN os : ps[k].at = os[k].at /\ ps[k].symbol = os[k].symbol
  /\ \A k \in DOMAIN os : ps[k].kept = IF os[k].kept = "dict" THEN kept ELSE os[k].kept

LEMMA OrdersBecame ==
  ASSUME orders \in Seq(Order), stops \in [Symbol -> Stops], NEW kept \in {"file", "lost"}
  PROVE  Became(orders, OrdersBecome(kept), kept)
<1>1. \A k \in DOMAIN orders : orders[k] \in Order
  BY LenProperties, ElementOfSeq
<1>2. \A k \in DOMAIN orders : /\ [orders[k] EXCEPT !.kept = kept].at = orders[k].at
                               /\ [orders[k] EXCEPT !.kept = kept].symbol = orders[k].symbol
                               /\ [orders[k] EXCEPT !.kept = kept].kept = kept
  BY <1>1 DEF Order
<1>3. OrdersBecome(kept) \in Seq(Order)
  BY BecomeFits
<1> QED
  BY <1>2, <1>3 DEF OrdersBecome, Became

LEMMA SavedBy ==
  ASSUME NEW os \in Seq(Order), NEW ps, Became(os, ps, "file"), NEW d
  PROVE  /\ \A s : KeptBy(ps, {"file"} \cup {"pushed"}, d, s) = KeptBy(os, {"dict", "file"} \cup {"pushed"}, d, s)
         /\ \A st : Counts(os, d, st, {"dict", "file"}) => Counts(ps, d, st, {"file"})
         /\ \A st : Lists(os, d, st, {"dict", "file"}) => Lists(ps, d, st, {"file"})
<1>1. \A k \in DOMAIN os : ps[k].kept \in {"file"} \cup {"pushed"}
                             <=> os[k].kept \in {"dict", "file"} \cup {"pushed"}
  BY DEF Became
<1>2. \A s : KeptBy(ps, {"file"} \cup {"pushed"}, d, s) = KeptBy(os, {"dict", "file"} \cup {"pushed"}, d, s)
  BY <1>1 DEF Became, KeptBy
<1>3. \A k \in DOMAIN os : ps[k].kept \in {"file"} => os[k].kept \in {"dict", "file"}
  BY DEF Became
<1> QED
  BY <1>2, <1>3 DEF Became, Lists, Counts

LEMMA LostBy ==
  ASSUME NEW os \in Seq(Order), NEW ps, Became(os, ps, "lost"), NEW d
  PROVE  /\ \A s : KeptBy(ps, {"file"} \cup {"pushed"}, d, s) = KeptBy(os, {"file"} \cup {"pushed"}, d, s)
         /\ \A st : Counts(os, d, st, {"file"}) => Counts(ps, d, st, {"file"})
         /\ \A st : Lists(os, d, st, {"file"}) => Lists(ps, d, st, {"file"})
<1>1. \A k \in DOMAIN os : ps[k].kept \in {"file"} \cup {"pushed"} <=> os[k].kept \in {"file"} \cup {"pushed"}
  BY DEF Became
<1>2. \A s : KeptBy(ps, {"file"} \cup {"pushed"}, d, s) = KeptBy(os, {"file"} \cup {"pushed"}, d, s)
  BY <1>1 DEF Became, KeptBy
<1>3. \A k \in DOMAIN os : ps[k].kept \in {"file"} => os[k].kept \in {"file"}
  BY DEF Became
<1> QED
  BY <1>2, <1>3 DEF Became, Lists, Counts

-----------------------------------------------------------------------------
Cycle  == {"sell", "buy", "wait", "finalize"}
Living == {"dict", "file"}

(* Nothing of a day's history is younger than the clock. *)
Past ==
  /\ \A k \in DOMAIN orders : orders[k].at <= now
  /\ \A s \in Symbol : stops[s].at <= now

(* A trusted dict of the running cycle knows all that is not lost of today.*)
InDict == pc \in Cycle /\ state.trusted => Recalls(orders, stops, Today, state, Living)

(* So does the dict of a handler left behind, of what reached the file.    *)
InOrphan ==
  handler.own /\ handler.stage = "evaluate" /\ orphan.trusted =>
    Lists(orders, Today, orphan, {"file"})

(* What the next load would trust today knows all that reached the file,   *)
(* or nothing of today ever did.                                           *)
Unknown ==
  /\ \A k \in DOMAIN orders : Day(orders[k].at) = Today => orders[k].kept \notin {"file", "pushed"}
  /\ \A s \in Symbol : Day(stops[s].at) = Today => stops[s].kept # "file"

OnDisk ==
  ~Untrusted =>
    \/ Unknown
    \/ /\ file.kind = "whole" /\ file.state.date = Today
       /\ Recalls(orders, stops, Today, file.state, {"file"})

(* A cycle has one unsaved order at most: its handler has just recorded    *)
(* it, or is done with it.                                                 *)
NonePending == \A k \in DOMAIN orders : orders[k].kept # "dict"

Pending ==
  /\ \/ pc \in {"down", "idle", "sell", "buy"}
     \/ handler.stage \in {"evaluate", "submit"}
     \/ handler.own
     => NonePending
  /\ handler.stage = "send" /\ ~handler.own =>
       \A k \in DOMAIN orders :
         orders[k].kept = "dict" => state.recent # <<>> /\ state.recent[Len(state.recent)] = k
  /\ pc \in {"down", "idle", "sell"} => \A s \in Symbol : stops[s].kept # "dict"
  /\ \A s \in Symbol : stops[s].kept # "pushed"

Written ==
  /\ Records(orders, state.recent, {"dict", "file", "pushed"})
  /\ Records(orders, file.state.recent, {"file", "pushed"})

(* What the guards established still holds when the order is submitted. *)
Cleared ==
  handler.stage = "submit" =>
    /\ ~handler.own /\ SymbolMax > 0 => state.trusted /\ state.entries[handler.symbol] < SymbolMax
    /\ Rebuy > 0 => \A k \in DOMAIN orders :
                      /\ Day(orders[k].at) = Today
                      /\ orders[k].symbol = handler.symbol /\ orders[k].kept \in Living
                      => now - orders[k].at > Rebuy

Limit ==
  SymbolMax > 0 =>
    \A d \in Days, s \in Symbol :
      Cardinality(KeptBy(orders, Living \cup {"pushed"}, d, s)) <= SymbolMax

Memory ==
  /\ Past /\ InDict /\ InOrphan /\ OnDisk /\ Pending /\ Written /\ Cleared
  /\ Limit /\ CooldownHolds

LEMMA LimitFollows == ASSUME IInv, Limit PROVE SymbolLimit
<1>1. \A k \in DOMAIN orders : orders[k].kept \in Keepers
  <2>1. orders \in Seq(Order)
    BY DEF IInv, Counted
  <2>2. \A k \in DOMAIN orders : orders[k] \in Order
    BY <2>1, LenProperties, ElementOfSeq
  <2> QED
    BY <2>2 DEF Order
<1>2. \A d, s : {k \in OrdersOf(d) : orders[k].symbol = s /\ orders[k].kept # "lost"}
                 = KeptBy(orders, Living \cup {"pushed"}, d, s)
  BY <1>1 DEF OrdersOf, KeptBy, Keepers, Living
<1>3. ASSUME SymbolMax > 0, NEW d \in Days, NEW s \in Symbol
      PROVE  Cardinality({k \in OrdersOf(d) : orders[k].symbol = s /\ orders[k].kept # "lost"})
               <= SymbolMax
  <2>1. {k \in OrdersOf(d) : orders[k].symbol = s /\ orders[k].kept # "lost"}
          = KeptBy(orders, Living \cup {"pushed"}, d, s)
    BY <1>2
  <2>2. Cardinality(KeptBy(orders, Living \cup {"pushed"}, d, s)) <= SymbolMax
    BY <1>3 DEF Limit
  <2> QED
    BY <2>1, <2>2
<1> QED
  BY <1>3 DEF SymbolLimit

LEMMA MemoryInitially == Init => Memory
<1> SUFFICES ASSUME Init PROVE Memory
  OBVIOUS
<1>1. DOMAIN orders = {} /\ now = 0 /\ pc = "down" /\ handler = Idle
  BY DEF Init
<1>2. DOMAIN Nothing.recent = {}
  BY DEF Nothing
<1>3. \A s \in Symbol : stops[s].kept = "lost" /\ stops[s].at = 0
  BY DEF Init, Forgotten
<1>4. state.recent = Nothing.recent /\ file.state.recent = Nothing.recent
  BY DEF Init
<1>5. Past /\ Written /\ Pending /\ CooldownHolds /\ Unknown
  BY <1>1, <1>2, <1>3, <1>4 DEF Past, Written, Records, Pending, NonePending, CooldownHolds, Idle, Unknown
<1>6. InDict /\ InOrphan /\ OnDisk /\ Cleared
  BY <1>1, <1>5 DEF InDict, Cycle, InOrphan, Idle, OnDisk, Cleared
<1>7. Limit
  <2>1. \A ks, d, s : KeptBy(orders, ks, d, s) = {}
    BY <1>1 DEF KeptBy
  <2>2. Cardinality({}) = 0 /\ SymbolMax \in Nat
    BY FS_EmptySet, OrderDayAssumption
  <2> QED
    BY <2>1, <2>2 DEF Limit
<1> QED
  BY <1>5, <1>6, <1>7 DEF Memory

(* Steps that change neither the memory nor the clock. *)
LEMMA IdleStep ==
  ASSUME Memory, UNCHANGED <<now, state, file, orders, stops>>,
         pc' \in Cycle => pc \in Cycle,
         handler'.own => handler.own /\ orphan' = orphan,
         handler'.own /\ handler'.stage = "evaluate" => handler.stage = "evaluate",
         Pending', Cleared'
  PROVE  Memory'
<1>1. Today' = Today
  BY DEF Today
<1>2. Past' /\ Written' /\ Limit' /\ CooldownHolds'
  BY DEF Memory, Past, Written, Limit, CooldownHolds
<1>3. InDict' /\ InOrphan'
  BY <1>1 DEF Memory, InDict, InOrphan
<1>4. OnDisk'
  BY <1>1 DEF Memory, OnDisk, Unknown, Untrusted
<1> QED
  BY <1>2, <1>3, <1>4 DEF Memory

LEMMA EntriesFit ==
  ASSUME IInv
  PROVE  \A s \in Symbol : state.entries[s] \in Nat /\ file.state.entries[s] \in Nat
<1>1. Len(orders) \in Nat
  BY DEF IInv, Counted
<1>2. state.entries \in [Symbol -> 0..MaxOrders] /\ file.state.entries \in [Symbol -> 0..MaxOrders]
  BY <1>1, StateIsItsFields DEF IInv, Stores
<1> QED
  BY <1>2, Numbers

LEMMA MoveSteps ==
  ASSUME IInv, Memory,
         \/ NoSell \/ NoBuy \/ TimesOut \/ Refuse \/ SendSucceeds \/ UNCHANGED vars
         \/ \E s \in Symbol : StartBuy(s)
         \/ \E oversized \in BOOLEAN : Start(oversized)
  PROVE  Memory'
<1> USE DEF memory, disk, history, Cycle
<1>1. CASE NoSell \/ NoBuy \/ TimesOut \/ UNCHANGED vars \/ \E oversized \in BOOLEAN : Start(oversized)
  <2>1. /\ UNCHANGED <<now, state, file, orders, stops, handler, orphan>>
        /\ pc' = pc \/ (pc = "sell" /\ pc' = "buy") \/ (pc = "buy" /\ pc' = "finalize")
           \/ (pc = "wait" /\ pc' = "finalize") \/ (pc = "down" /\ pc' = "idle")
    BY <1>1 DEF NoSell, NoBuy, TimesOut, vars, Start
  <2>2. Pending'
    BY <2>1 DEF Memory, Pending, NonePending
  <2>3. Cleared'
    BY <2>1 DEF Memory, Cleared, Today
  <2> QED
    BY <2>1, <2>2, <2>3, IdleStep
<1>2. CASE \E s \in Symbol : StartBuy(s)
  <2>1. PICK s \in Symbol : StartBuy(s)
    BY <1>2
  <2>2. /\ UNCHANGED <<now, state, file, orders, stops, orphan>> /\ pc = "buy" /\ pc' = "wait"
        /\ ~handler'.own /\ handler'.stage = "evaluate"
    BY <2>1 DEF StartBuy
  <2>3. Pending'
    BY <2>2 DEF Memory, Pending, NonePending
  <2> QED
    BY <2>2, <2>3, IdleStep DEF Cleared
<1>3. CASE Refuse \/ SendSucceeds
  <2>1. /\ UNCHANGED <<now, state, file, orders, stops>> /\ handler' = Idle
        /\ pc' = pc \/ (pc = "wait" /\ pc' = "finalize")
    BY <1>3 DEF Refuse, SendSucceeds, HandlerEnds
  <2>2. ~Idle.own /\ Idle.stage = "none"
    BY DEF Idle
  <2>3. Pending'
    BY <2>1, <2>2 DEF Memory, Pending, NonePending
  <2> QED
    BY <2>1, <2>2, <2>3, IdleStep DEF Cleared
<1> QED
  BY <1>1, <1>2, <1>3

(* The guards of the handler look at what its dict knows of today.         *)
LEMMA ClearStep ==
  ASSUME IInv, Memory, NEW fresh, NEW riskOff, Clear(fresh, riskOff)
  PROVE  Memory'
<1>1. /\ UNCHANGED <<now, pc, state, orphan, file, orders, stops>>
      /\ handler.stage = "evaluate" /\ handler' = [handler EXCEPT !.stage = "submit"]
  BY DEF Clear, memory, disk, history
<1>2. handler'.stage = "submit" /\ handler'.own = handler.own /\ handler'.symbol = handler.symbol
  BY <1>1 DEF IInv, Thread
<1>3. Held.trusted /\ NonePending
  BY <1>1 DEF Clear, BuyGuard, Memory, Pending
<1>4. ~handler.own => state.trusted /\ InDict /\ pc \in Cycle
  BY <1>1, <1>3 DEF Held, Memory, IInv, Thread, Cycle
<1>5. Lists(orders, Today, Held, {"file"})
  <2>1. CASE handler.own
    BY <1>1, <1>3, <2>1 DEF Held, Memory, InOrphan
  <2>2. CASE ~handler.own
    BY <1>4, <2>2 DEF InDict, Recalls, Lists, Living, Held
  <2> QED
    BY <2>1, <2>2
<1>6. ASSUME Rebuy > 0, NEW k \in DOMAIN orders, Day(orders[k].at) = Today,
             orders[k].symbol = handler.symbol, orders[k].kept \in Living
      PROVE  now - orders[k].at > Rebuy
  <2>1. orders[k].kept = "file"
    BY <1>3, <1>6 DEF NonePending, Living
  <2>2. PICK i \in DOMAIN Held.recent : Held.recent[i] = k
    BY <1>5, <1>6, <2>1 DEF Lists, In
  <2>3. k # Other
    BY LenProperties, <1>6 DEF IInv, Counted, Other
  <2>4. i \in RecentBuys(Held, handler.symbol)
    BY <1>6, <2>2, <2>3 DEF RecentBuys
  <2> QED
    BY <1>6, <2>2, <2>4 DEF Clear, BuyGuard
<1>7. ~handler.own /\ SymbolMax > 0 => state.entries[handler.symbol] < SymbolMax
  <2>1. handler.symbol \in Symbol /\ SymbolMax \in Nat
    BY <1>1, OrderDayAssumption DEF IInv, Thread
  <2>2. state.entries[handler.symbol] \in Nat
    BY <2>1, EntriesFit
  <2> QED
    BY <2>1, <2>2 DEF Clear, Reentry, Entered, Held
<1>8. Cleared'
  BY <1>1, <1>2, <1>4, <1>6, <1>7 DEF Cleared, Today
<1>9. Pending'
  BY <1>1, <1>2 DEF Memory, Pending, NonePending
<1> QED
  BY <1>1, <1>2, <1>8, <1>9, IdleStep

(* At midnight there is no order and no exit of the day that begins. *)
LEMMA MemoryTick == ASSUME IInv, Memory, Tick PROVE Memory'
<1>1. now \in Nat /\ now' \in Nat /\ now' = now + 1 /\ now' \in 0..Horizon
  BY Numbers DEF IInv, Rest, Tick
<1>2. UNCHANGED <<pc, handler, state, orphan, file, orders, stops>>
  BY DEF Tick, memory, disk, history
<1>3. Today \in Nat /\ Today' \in Nat /\ Today <= Today'
  BY <1>1, DayIsMonotone DEF Today
<1>4. /\ \A k \in DOMAIN orders : orders[k].at \in Nat /\ orders[k].at <= now
      /\ \A s \in Symbol : stops[s].at \in Nat /\ stops[s].at <= now
  <2>1. \A k \in DOMAIN orders : orders[k] \in Order
    BY LenProperties, ElementOfSeq DEF IInv, Counted
  <2>2. \A s \in Symbol : stops[s] \in Stops
    BY DEF IInv, Counted
  <2> QED
    BY <2>1, <2>2, Numbers DEF Order, Stops, Memory, Past
<1>5. Past' /\ Written' /\ Pending' /\ Limit' /\ CooldownHolds'
  <2>1. Past'
    BY <1>1, <1>2, <1>4 DEF Past
  <2>2. Written' /\ Pending' /\ Limit' /\ CooldownHolds'
    BY <1>2 DEF Memory, Written, Pending, NonePending, Limit, CooldownHolds
  <2> QED
    BY <2>1, <2>2
<1>6. CASE Today' = Today
  <2>1. InDict' /\ InOrphan' /\ OnDisk'
    BY <1>2, <1>6 DEF Memory, InDict, InOrphan, OnDisk, Unknown, Untrusted
  <2>2. \A k \in DOMAIN orders : Rebuy > 0 /\ now - orders[k].at > Rebuy => now' - orders[k].at > Rebuy
    BY <1>1, <1>4, OrderDayAssumption
  <2>3. Cleared'
    BY <1>2, <1>6, <2>2 DEF Memory, Cleared
  <2> QED
    BY <1>5, <2>1, <2>3 DEF Memory
<1>7. CASE Today' # Today
  <2>1. \A k \in DOMAIN orders : Day(orders[k].at) # Today'
    <3>1. \A k \in DOMAIN orders : Day(orders[k].at) \in Nat /\ Day(orders[k].at) <= Day(now)
      BY <1>1, <1>4, DayIsMonotone
    <3> QED
      BY <1>3, <1>7, <3>1 DEF Today
  <2>2. \A s \in Symbol : Day(stops[s].at) # Today'
    <3>1. \A s \in Symbol : Day(stops[s].at) \in Nat /\ Day(stops[s].at) <= Day(now)
      BY <1>1, <1>4, DayIsMonotone
    <3> QED
      BY <1>3, <1>7, <3>1 DEF Today
  <2>3. Unknown'
    BY <1>2, <2>1, <2>2 DEF Unknown
  <2>4. \A ks, s : KeptBy(orders, ks, Today', s) = {}
    BY <2>1 DEF KeptBy
  <2>5. Cardinality({}) = 0
    BY FS_EmptySet
  <2>6. \A s \in Symbol : 0 <= state.entries[s]
    BY EntriesFit
  <2>7. Recalls(orders, stops, Today', state, Living)
    BY <2>1, <2>2, <2>4, <2>5, <2>6 DEF Recalls, Counts, Lists, Exited
  <2>8. Lists(orders, Today', orphan, {"file"})
    BY <2>1 DEF Lists
  <2>9. InDict' /\ InOrphan' /\ OnDisk'
    BY <1>2, <2>3, <2>7, <2>8 DEF InDict, InOrphan, OnDisk
  <2>10. Cleared'
    BY <1>2, <2>1 DEF Memory, Cleared
  <2> QED
    BY <1>5, <2>9, <2>10 DEF Memory
<1> QED
  BY <1>6, <1>7

(* What a load finds in the file is all there is, for nothing is pending.  *)
LEMMA LivesInFile ==
  ASSUME NonePending, \A s \in Symbol : stops[s].kept # "dict", NEW st, NEW d,
         Recalls(orders, stops, d, st, {"file"})
  PROVE  Recalls(orders, stops, d, st, Living)
<1>1. \A s : KeptBy(orders, Living \cup {"pushed"}, d, s) = KeptBy(orders, {"file"} \cup {"pushed"}, d, s)
  BY DEF KeptBy, NonePending, Living
<1>2. Counts(orders, d, st, Living)
  BY <1>1 DEF Recalls, Counts
<1>3. Lists(orders, d, st, Living) /\ Exited(stops, d, st, Living)
  BY DEF Recalls, Lists, Exited, NonePending, Living
<1> QED
  BY <1>2, <1>3 DEF Recalls

LEMMA UnknownIsRecalled ==
  ASSUME Unknown, NEW n \in Nat, NEW st, Sound(st, n)
  PROVE  Recalls(orders, stops, Today, st, {"file"})
<1>1. \A s : KeptBy(orders, {"file"} \cup {"pushed"}, Today, s) = {}
  BY DEF Unknown, KeptBy
<1>2. \A s \in Symbol : Cardinality({}) <= st.entries[s]
  <2>1. st.entries \in [Symbol -> 0..MaxOrders]
    BY StateIsItsFields
  <2> QED
    BY <2>1, FS_EmptySet, Numbers
<1>3. Counts(orders, Today, st, {"file"})
  BY <1>1, <1>2 DEF Counts
<1> QED
  BY <1>3 DEF Recalls, Unknown, Lists, Exited

LEMMA LoadedRecent == LoadedState.recent \in {<<>>, file.state.recent}
<1>1. \A b : DefaultState(b).recent = <<>>
  <2>1. Nothing.recent = <<>>
    BY DEF Nothing
  <2> QED
    BY <2>1 DEF DefaultState, Nothing
<1> QED
  BY <1>1 DEF LoadedState

LEMMA MemoryLoad == ASSUME IInv, Memory, LoadState PROVE Memory'
<1>1. /\ UNCHANGED <<now, handler, orphan, file, orders, stops>> /\ state' = LoadedState
      /\ pc = "idle" /\ pc' = "sell" /\ Today' = Today
  BY DEF LoadState, disk, Today
<1>2. Past' /\ Pending' /\ Limit' /\ CooldownHolds' /\ InOrphan'
  BY <1>1 DEF Memory, Past, Pending, NonePending, Limit, CooldownHolds, InOrphan
<1>3. OnDisk'
  BY <1>1 DEF Memory, OnDisk, Unknown, Untrusted
<1>4. Written'
  BY <1>1, LoadedRecent DEF Memory, Written, Records
<1>5. Cleared'
  <2>1. handler.stage = "submit" => handler.own
    BY <1>1 DEF IInv, Thread
  <2> QED
    BY <1>1, <2>1 DEF Memory, Cleared
<1>6. ASSUME LoadedState.trusted PROVE Recalls(orders, stops, Today, LoadedState, Living)
  <2>1. ~Untrusted
    BY <1>6, LoadIsBlocked DEF IInv, Rest, Stores
  <2>2. Len(orders) \in Nat /\ Sound(LoadedState, Len(orders))
    BY LoadFits DEF IInv, Stores, Rest, Counted
  <2>3. Recalls(orders, stops, Today, LoadedState, {"file"})
    <3>1. CASE Unknown
      BY <2>2, <3>1, UnknownIsRecalled
    <3>2. CASE ~Unknown
      <4>1. /\ file.kind = "whole" /\ file.state.date = Today
            /\ Recalls(orders, stops, Today, file.state, {"file"})
        BY <2>1, <3>2 DEF Memory, OnDisk
      <4>2. LoadedState = file.state
        BY <2>1, <4>1 DEF LoadedState, Untrusted
      <4> QED
        BY <4>1, <4>2
    <3> QED
      BY <3>1, <3>2
  <2>4. NonePending /\ \A s \in Symbol : stops[s].kept # "dict"
    BY <1>1 DEF Memory, Pending
  <2> QED
    BY <2>3, <2>4, LivesInFile
<1>7. InDict'
  BY <1>1, <1>6 DEF InDict
<1> QED
  BY <1>2, <1>3, <1>4, <1>5, <1>7 DEF Memory

(* What a record in recent_orders does to the memory of a day: only orders *)
(* that reached the file are dropped.                                      *)
LEMMA DropFits ==
  ASSUME IInv, Memory, NEW r, NEW o, o = Pushed(orders, state.recent, r),
         \A k \in DOMAIN orders : orders[k].kept = "dict" => In(r, k)
  PROVE  /\ o \in Seq(Order) /\ DOMAIN o = DOMAIN orders
         /\ \A k \in DOMAIN orders :
              /\ o[k].at = orders[k].at /\ o[k].symbol = orders[k].symbol
              /\ o[k].kept \in {"dict", "file"} => orders[k].kept = o[k].kept
              /\ o[k].kept \in {"file", "pushed"} => orders[k].kept \in {"file", "pushed"}
              /\ orders[k].kept \in {"file", "pushed"} => o[k].kept \in {"file", "pushed"}
              /\ orders[k].kept \in {"dict", "lost"} => o[k].kept = orders[k].kept
         /\ \A ks, d : "file" \in ks /\ "pushed" \notin ks => Alike(orders, o, d, ks)
         /\ \A ks, d, st : "pushed" \notin ks /\ st.recent = r /\ Lists(orders, d, state, ks)
                             => Lists(o, d, st, ks)
<1> DEFINE drop == {k \in DOMAIN orders : In(state.recent, k) /\ ~In(r, k)}
<1>0. orders \in Seq(Order)
  BY DEF IInv, Counted
<1>1. SameBut(orders, o, drop)
  BY <1>0, PushedDrops
<1>2. \A k \in drop : orders[k].kept \in {"file", "pushed"}
  BY LenProperties, <1>0 DEF Memory, Written, Records, In, Other
<1> HIDE DEF drop
<1>3. \A ks, d : "file" \in ks /\ "pushed" \notin ks => Alike(orders, o, d, ks)
  <2>1. \A k \in DOMAIN orders \cap drop : orders[k].kept \in {"file", "pushed"}
    BY <1>2
  <2> QED
    BY <1>0, <1>1, <2>1, SameBy
<1>4. \A ks, d, st : "pushed" \notin ks /\ st.recent = r /\ Lists(orders, d, state, ks)
                       => Lists(o, d, st, ks)
  BY <1>1 DEF Lists, SameBut, drop
<1>5. \A k \in DOMAIN orders : o[k].kept = IF k \in drop THEN "pushed" ELSE orders[k].kept
  BY <1>1 DEF SameBut
<1>6. /\ o \in Seq(Order) /\ DOMAIN o = DOMAIN orders
      /\ \A k \in DOMAIN orders : o[k].at = orders[k].at /\ o[k].symbol = orders[k].symbol
  BY <1>1 DEF SameBut
<1> QED
  BY <1>2, <1>3, <1>4, <1>5, <1>6

(* A step that only records something else.                                *)
LEMMA DropStep ==
  ASSUME IInv, Memory, UNCHANGED <<now, file>>,
         orders' = Pushed(orders, state.recent, state'.recent),
         \A k : In(state'.recent, k) => In(state.recent, k) \/ k = Other,
         \A k \in DOMAIN orders : orders[k].kept = "dict" => In(state'.recent, k)
  PROVE  /\ \A ks, st : /\ "file" \in ks /\ "pushed" \notin ks
                        => /\ Counts(orders, Today, st, ks) => Counts(orders', Today, st, ks)
                           /\ Lists(orders, Today, st, ks) => Lists(orders', Today, st, ks)
         /\ \A ks : "pushed" \notin ks /\ Lists(orders, Today, state, ks) => Lists(orders', Today, state', ks)
         /\ NonePending => NonePending'
         /\ \A k \in DOMAIN orders : orders'[k].kept = "dict" => orders[k].kept = "dict"
         /\ \A k \in DOMAIN orders : orders'[k].kept \in {"file", "pushed"} =>
              orders[k].kept \in {"file", "pushed"}
         /\ DOMAIN orders' = DOMAIN orders
         /\ \A k \in DOMAIN orders : orders'[k].at = orders[k].at
         /\ Written' /\ Limit' /\ CooldownHolds'
         /\ Unknown /\ UNCHANGED stops => Unknown'
<1>1. /\ DOMAIN orders' = DOMAIN orders
      /\ \A k \in DOMAIN orders :
              /\ orders'[k].at = orders[k].at /\ orders'[k].symbol = orders[k].symbol
              /\ orders'[k].kept \in {"dict", "file"} => orders[k].kept = orders'[k].kept
              /\ orders'[k].kept \in {"file", "pushed"} => orders[k].kept \in {"file", "pushed"}
              /\ orders[k].kept \in {"file", "pushed"} => orders'[k].kept \in {"file", "pushed"}
              /\ orders[k].kept \in {"dict", "lost"} => orders'[k].kept = orders[k].kept
      /\ \A ks, d : "file" \in ks /\ "pushed" \notin ks => Alike(orders, orders', d, ks)
      /\ \A ks : "pushed" \notin ks /\ Lists(orders, Today, state, ks) => Lists(orders', Today, state', ks)
  BY DropFits
<1>2. NonePending => NonePending'
  BY <1>1 DEF NonePending
<1>3. Written'
  <2>1. Records(orders', file'.state.recent, {"file", "pushed"})
    BY <1>1 DEF Memory, Written, Records
  <2>2. Records(orders', state'.recent, {"dict", "file", "pushed"})
    BY <1>1 DEF Memory, Written, Records, In
  <2> QED
    BY <2>1, <2>2 DEF Written
<1>4. Limit'
  <2>1. "file" \in Living /\ "pushed" \notin Living
    BY DEF Living
  <2>2. \A d, s : KeptBy(orders', Living \cup {"pushed"}, d, s) = KeptBy(orders, Living \cup {"pushed"}, d, s)
    BY <1>1, <2>1 DEF Alike
  <2> QED
    BY <2>2 DEF Memory, Limit
<1>5. CooldownHolds'
  BY <1>1 DEF Memory, CooldownHolds
<1>6. Unknown /\ UNCHANGED stops => Unknown'
  BY <1>1 DEF Unknown, Today
<1>7. \A ks, st : "file" \in ks /\ "pushed" \notin ks
         => /\ Counts(orders, Today, st, ks) => Counts(orders', Today, st, ks)
            /\ Lists(orders, Today, st, ks) => Lists(orders', Today, st, ks)
  BY <1>1 DEF Alike
<1> QED
  BY <1>1, <1>2, <1>3, <1>4, <1>5, <1>6, <1>7

(* The fields of a dict after a record, and after an exit.                 *)
LEMMA RecordShape ==
  ASSUME NEW n \in Nat, NEW st, Sound(st, n), NEW r
  PROVE  LET one == [st EXCEPT !.recent = r]
         IN  one = [date |-> st.date, trusted |-> st.trusted, recent |-> r,
                    entries |-> st.entries, exit |-> st.exit]
<1>1. st = [date |-> st.date, trusted |-> st.trusted, recent |-> st.recent,
            entries |-> st.entries, exit |-> st.exit]
  BY StateIsItsFields
<1> QED
  BY <1>1

LEMMA StateFits ==
  ASSUME IInv
  PROVE  state.recent \in Recents /\ state.exit \in [Symbol -> Exits]
         /\ state.entries \in [Symbol -> 0..MaxOrders]
<1>1. Sound(state, Len(orders)) /\ Len(orders) \in Nat
  BY DEF IInv, Stores, Counted
<1> QED
  BY <1>1, StateIsItsFields

LEMMA SellExitShape ==
  ASSUME IInv, NEW s \in Symbol, NEW reason \in Reasons, SellExit(s, reason)
  PROVE  /\ state'.recent = Remember(state.recent, <<Other, Other>>)
         /\ state'.entries = state.entries /\ state'.trusted = state.trusted
         /\ state'.exit = [state.exit EXCEPT ![s] = [reason |-> reason, at |-> now]]
<1> DEFINE x   == [reason |-> reason, at |-> now]
           r   == Remember(state.recent, <<Other, Other>>)
           one == [state EXCEPT !.recent = r]
<1>1. Sound(state, Len(orders)) /\ Len(orders) \in Nat
  BY DEF IInv, Stores, Counted
<1>2. one = [date |-> state.date, trusted |-> state.trusted, recent |-> r,
             entries |-> state.entries, exit |-> state.exit]
  BY <1>1, RecordShape
<1>3. state' = [one EXCEPT !.exit[s] = x]
  BY DEF SellExit
<1> HIDE DEF one, x, r
<1>4. state' = [date |-> state.date, trusted |-> state.trusted, recent |-> r,
                entries |-> state.entries, exit |-> [state.exit EXCEPT ![s] = x]]
  BY <1>2, <1>3
<1> QED
  BY <1>4 DEF r, x

LEMMA MemorySellExit ==
  ASSUME IInv, Memory, NEW s \in Symbol, NEW reason \in Reasons, SellExit(s, reason)
  PROVE  Memory'
<1>1. /\ UNCHANGED <<now, handler, orphan, file>> /\ pc = "sell" /\ pc' = "buy"
      /\ handler.stage = "none" /\ state.trusted /\ Today' = Today
      /\ orders' = Pushed(orders, state.recent, state'.recent)
      /\ stops' = [stops EXCEPT ![s] = IF reason = "stop_loss" THEN [at |-> now, kept |-> "dict"]
                                       ELSE Forgotten]
  BY DEF SellExit, disk, Today
<1>2. /\ state'.recent = Remember(state.recent, <<Other, Other>>)
      /\ state'.entries = state.entries /\ state'.trusted = state.trusted
      /\ state'.exit = [state.exit EXCEPT ![s] = [reason |-> reason, at |-> now]]
  BY SellExitShape
<1>3. \A k : In(state'.recent, k) => In(state.recent, k) \/ k = Other
  <2>1. Other \in 0..MaxOrders
    BY Numbers DEF Other
  <2>2. state.recent \in Recents
    BY StateFits
  <2>3. \A k : In(<<Other, Other>>, k) => k = Other
    BY DEF In
  <2>4. <<Other, Other>> \in Seq(0..MaxOrders)
    BY <2>1
  <2> QED
    BY <1>2, <2>2, <2>3, <2>4, RememberHolds
<1>4. NonePending
  BY <1>1 DEF Memory, Pending
<1>5. /\ Counts(orders, Today, state, Living) => Counts(orders', Today, state, Living)
      /\ Lists(orders, Today, state, Living) => Lists(orders', Today, state', Living)
      /\ Counts(orders, Today, file.state, {"file"}) => Counts(orders', Today, file.state, {"file"})
      /\ Lists(orders, Today, file.state, {"file"}) => Lists(orders', Today, file.state, {"file"})
      /\ NonePending' /\ Written' /\ Limit' /\ CooldownHolds'
      /\ DOMAIN orders' = DOMAIN orders /\ \A k \in DOMAIN orders : orders'[k].at = orders[k].at
      /\ \A k \in DOMAIN orders : orders'[k].kept \in {"file", "pushed"} => orders[k].kept \in {"file", "pushed"}
  <2>1. "file" \in Living /\ "pushed" \notin Living /\ "file" \in {"file"} /\ "pushed" \notin {"file"}
    BY DEF Living
  <2>2. \A k \in DOMAIN orders : orders[k].kept = "dict" => In(state'.recent, k)
    BY <1>4 DEF NonePending
  <2> QED
    BY <1>1, <1>3, <1>4, <2>1, <2>2, DropStep
<1>6. /\ stops \in [Symbol -> Stops]
      /\ \A q \in Symbol : q # s => stops'[q] = stops[q] /\ state'.exit[q] = state.exit[q]
      /\ stops'[s] = IF reason = "stop_loss" THEN [at |-> now, kept |-> "dict"] ELSE Forgotten
      /\ state'.exit[s] = [reason |-> reason, at |-> now]
  <2>1. stops \in [Symbol -> Stops] /\ state.exit \in [Symbol -> Exits]
    BY StateFits DEF IInv, Counted
  <2> QED
    BY <1>1, <1>2, <2>1
<1>7. Recalls(orders, stops, Today, state, Living)
  BY <1>1 DEF Memory, InDict, Cycle
<1>8. InDict'
  <2>1. Counts(orders', Today, state', Living)
    BY <1>2, <1>5, <1>7 DEF Recalls, Counts
  <2>2. Exited(stops', Today, state', Living)
    BY <1>6, <1>7 DEF Recalls, Exited, Forgotten, Living
  <2> QED
    BY <1>1, <1>5, <1>7, <2>1, <2>2 DEF InDict, Recalls
<1>9. OnDisk'
  <2>1. Unknown => Unknown'
    BY <1>1, <1>5, <1>6 DEF Unknown, Forgotten
  <2>2. Recalls(orders, stops, Today, file.state, {"file"})
          => Recalls(orders', stops', Today, file.state, {"file"})
    BY <1>5, <1>6 DEF Recalls, Exited, Forgotten
  <2> QED
    BY <1>1, <2>1, <2>2 DEF Memory, OnDisk, Untrusted
<1>10. Pending'
  BY <1>1, <1>5, <1>6 DEF Memory, Pending, Forgotten
<1>11. Past'
  BY <1>1, <1>5, <1>6 DEF Memory, Past, Forgotten, IInv, Rest
<1> QED
  BY <1>1, <1>5, <1>8, <1>9, <1>10, <1>11 DEF Memory, InOrphan, Cleared

LEMMA MemorySendFails == ASSUME IInv, Memory, SendFails PROVE Memory'
<1>1. /\ UNCHANGED <<now, file, stops>> /\ handler.stage = "send" /\ handler' = Idle /\ Today' = Today
      /\ pc' = IF pc = "wait" THEN "finalize" ELSE pc
      /\ orders' = Pushed(orders, state.recent, state'.recent)
      /\ state' = IF handler.own THEN state ELSE [state EXCEPT !.recent = Remember(@, <<Other>>)]
  BY DEF SendFails, HandlerEnds, disk, Today
<1>2. /\ state'.entries = state.entries /\ state'.trusted = state.trusted /\ state'.exit = state.exit
      /\ state'.recent = IF handler.own THEN state.recent ELSE Remember(state.recent, <<Other>>)
  <2>1. Sound(state, Len(orders)) /\ Len(orders) \in Nat
    BY DEF IInv, Stores, Counted
  <2> QED
    BY <1>1, <2>1, RecordShape
<1>3. Other \in 0..MaxOrders /\ state.recent \in Recents
  BY StateFits, Numbers DEF Other
<1>4. \A k : In(state'.recent, k) => In(state.recent, k) \/ k = Other
  <2>1. \A k : In(<<Other>>, k) => k = Other
    BY DEF In
  <2>2. <<Other>> \in Seq(0..MaxOrders)
    BY <1>3
  <2> QED
    BY <1>2, <1>3, <2>1, <2>2, RememberHolds
<1>5. \A k \in DOMAIN orders : orders[k].kept = "dict" => In(state'.recent, k)
  <2>1. CASE handler.own
    BY <2>1 DEF Memory, Pending, NonePending
  <2>2. CASE ~handler.own
    BY <1>1, <1>2, <1>3, <2>2, RememberEnds DEF Memory, Pending
  <2> QED
    BY <2>1, <2>2
<1>6. /\ Counts(orders, Today, state, Living) => Counts(orders', Today, state, Living)
      /\ Lists(orders, Today, state, Living) => Lists(orders', Today, state', Living)
      /\ Counts(orders, Today, file.state, {"file"}) => Counts(orders', Today, file.state, {"file"})
      /\ Lists(orders, Today, file.state, {"file"}) => Lists(orders', Today, file.state, {"file"})
      /\ Written' /\ Limit' /\ CooldownHolds' /\ (NonePending => NonePending')
      /\ DOMAIN orders' = DOMAIN orders /\ \A k \in DOMAIN orders : orders'[k].at = orders[k].at
      /\ Unknown => Unknown'
  <2>1. "file" \in Living /\ "pushed" \notin Living /\ "file" \in {"file"} /\ "pushed" \notin {"file"}
    BY DEF Living
  <2> QED
    BY <1>1, <1>4, <1>5, <2>1, DropStep
<1>7. InDict'
  <2>1. Recalls(orders, stops, Today, state, Living)
          => Recalls(orders', stops, Today, state', Living)
    BY <1>2, <1>6 DEF Recalls, Counts, Exited
  <2> QED
    BY <1>1, <1>2, <2>1 DEF Memory, InDict, Cycle
<1>8. OnDisk'
  <2>1. Recalls(orders, stops, Today, file.state, {"file"})
          => Recalls(orders', stops, Today, file.state, {"file"})
    BY <1>6 DEF Recalls
  <2> QED
    BY <1>1, <1>6, <2>1 DEF Memory, OnDisk, Untrusted
<1>9. ~Idle.own /\ Idle.stage = "none"
  BY DEF Idle
<1>10. Pending'
  BY <1>1, <1>6, <1>9 DEF Memory, Pending
<1>11. Past'
  BY <1>1, <1>6 DEF Memory, Past
<1> QED
  BY <1>1, <1>6, <1>7, <1>8, <1>9, <1>10, <1>11 DEF Memory, InOrphan, Cleared

-----------------------------------------------------------------------------
(* One more order at the end of the history.                               *)
LEMMA AppendKeeps ==
  ASSUME NEW o \in Seq(Order), NEW r \in Order
  PROVE  LET q == Append(o, r)
             n == Len(o) + 1
         IN  /\ DOMAIN q = DOMAIN o \cup {n} /\ n \notin DOMAIN o /\ q[n] = r /\ n # Other
             /\ \A k \in DOMAIN o : q[k] = o[k] /\ k < n
             /\ \A ks, d, s : KeptBy(q, ks, d, s) =
                  KeptBy(o, ks, d, s) \cup
                  (IF Day(r.at) = d /\ r.symbol = s /\ r.kept \in ks THEN {n} ELSE {})
<1> DEFINE q == Append(o, r)
           n == Len(o) + 1
<1>1. /\ Len(o) \in Nat /\ DOMAIN o = 1..Len(o) /\ DOMAIN q = 1..n
      /\ q[n] = r /\ \A k \in 1..Len(o) : q[k] = o[k]
  BY AppendProperties, LenProperties
<1> HIDE DEF q
<1>2. DOMAIN q = DOMAIN o \cup {n} /\ n \notin DOMAIN o /\ n # Other /\ \A k \in DOMAIN o : q[k] = o[k] /\ k < n
  BY <1>1 DEF Other
<1> HIDE DEF n
<1>3. \A ks, d, s : KeptBy(q, ks, d, s) =
                  KeptBy(o, ks, d, s) \cup
                  (IF Day(r.at) = d /\ r.symbol = s /\ r.kept \in ks THEN {n} ELSE {})
  BY <1>1, <1>2 DEF KeptBy
<1> QED
  BY <1>1, <1>2, <1>3 DEF q, n

LEMMA SubmissionShape ==
  ASSUME NEW n \in Nat, NEW st, Sound(st, n), NEW s \in Symbol, NEW k
  PROVE  LET next == RecordSubmission(st, s, k)
         IN  /\ next.recent = Remember(st.recent, <<k>>)
             /\ next.entries = [st.entries EXCEPT ![s] = @ + 1]
             /\ next.trusted = st.trusted /\ next.exit = st.exit
<1> DEFINE r   == Remember(st.recent, <<k>>)
           e   == [st.entries EXCEPT ![s] = @ + 1]
           one == [st EXCEPT !.recent = r]
<1>1. one = [date |-> st.date, trusted |-> st.trusted, recent |-> r,
             entries |-> st.entries, exit |-> st.exit]
  BY RecordShape
<1>2. RecordSubmission(st, s, k) = [one EXCEPT !.entries[s] = @ + 1]
  BY DEF RecordSubmission
<1> HIDE DEF one, r
<1>3. RecordSubmission(st, s, k) = [date |-> st.date, trusted |-> st.trusted, recent |-> r,
                                    entries |-> e, exit |-> st.exit]
  BY <1>1, <1>2
<1> QED
  BY <1>3 DEF r

(* The order of a handler left behind is one that nobody remembers.        *)
LEMMA MemorySubmitLost ==
  ASSUME IInv, Memory, NEW written \in BOOLEAN, NEW half \in BOOLEAN, Submit(written, half),
         handler.own
  PROVE  Memory'
<1> DEFINE n == Len(orders) + 1
           r == [symbol |-> handler.symbol, at |-> now, kept |-> "lost"]
<1>1. /\ UNCHANGED <<now, pc, file, stops, state>> /\ handler.stage = "submit" /\ Today' = Today
      /\ orders' = Append(orders, r) /\ handler' = [handler EXCEPT !.stage = "send"]
  BY DEF Submit, Today
<1>2. orders \in Seq(Order) /\ r \in Order
  BY <1>1 DEF IInv, Thread, Counted, Rest, Order, Keepers
<1>3. r.kept = "lost" /\ r.at = now /\ r.symbol = handler.symbol
  OBVIOUS
<1> HIDE DEF r
<1>4. /\ DOMAIN orders' = DOMAIN orders \cup {n} /\ n \notin DOMAIN orders
      /\ orders'[n] = r /\ \A k \in DOMAIN orders : orders'[k] = orders[k] /\ k < n
      /\ \A ks, d, s : "lost" \notin ks => KeptBy(orders', ks, d, s) = KeptBy(orders, ks, d, s)
  <2>1. \A ks, d, s : KeptBy(orders', ks, d, s) =
          KeptBy(orders, ks, d, s) \cup
            (IF Day(r.at) = d /\ r.symbol = s /\ r.kept \in ks THEN {n} ELSE {})
    BY <1>1, <1>2, AppendKeeps
  <2>2. /\ DOMAIN orders' = DOMAIN orders \cup {n} /\ n \notin DOMAIN orders
        /\ orders'[n] = r /\ \A k \in DOMAIN orders : orders'[k] = orders[k] /\ k < n
    BY <1>1, <1>2, AppendKeeps
  <2> HIDE DEF n
  <2> QED
    BY <1>3, <2>1, <2>2
<1> HIDE DEF n
<1>5. \A ks, d, st : "lost" \notin ks
        => /\ Counts(orders, d, st, ks) => Counts(orders', d, st, ks)
           /\ Lists(orders, d, st, ks) => Lists(orders', d, st, ks)
  BY <1>3, <1>4 DEF Counts, Lists
<1>6. handler'.stage = "send" /\ handler'.own
  BY <1>1 DEF IInv, Thread
<1>7. Past' /\ Pending' /\ Written' /\ Limit' /\ CooldownHolds'
  <2>1. now \in Nat
    BY Numbers DEF IInv, Rest
  <2>2. Past'
    BY <1>1, <1>3, <1>4, <2>1 DEF Memory, Past
  <2>3. NonePending
    BY DEF Memory, Pending
  <2>4. Pending'
    BY <1>1, <1>3, <1>4, <1>6, <2>3 DEF Memory, Pending, NonePending
  <2>5. Written'
    BY <1>1, <1>4 DEF Memory, Written, Records
  <2>6. Limit'
    BY <1>4 DEF Memory, Limit, Living
  <2>7. ASSUME NEW k \in DOMAIN orders', NEW m \in DOMAIN orders',
               k < m, orders'[k].symbol = orders'[m].symbol,
               Day(orders'[k].at) = Day(orders'[m].at), orders'[k].kept \in {"dict", "file"}, Rebuy > 0
        PROVE  orders'[m].at - orders'[k].at > Rebuy
    <3>1. k \in DOMAIN orders /\ orders'[k] = orders[k]
      BY <1>3, <1>4, <2>7
    <3>2. CASE m \in DOMAIN orders
      BY <1>4, <2>7, <3>1, <3>2 DEF Memory, CooldownHolds
    <3>3. CASE m = n
      BY <1>1, <1>3, <1>4, <2>7, <3>1, <3>3 DEF Memory, Cleared, Living, Today
    <3> QED
      BY <1>4, <3>2, <3>3
  <2>8. CooldownHolds'
    BY <2>7 DEF CooldownHolds
  <2> QED
    BY <2>2, <2>4, <2>5, <2>6, <2>8
<1>8. InDict'
  BY <1>1, <1>5 DEF Memory, InDict, Recalls, Living
<1>9. OnDisk'
  <2>1. Unknown => Unknown'
    BY <1>1, <1>3, <1>4 DEF Unknown
  <2>2. Recalls(orders, stops, Today, file.state, {"file"}) => Recalls(orders', stops, Today, file.state, {"file"})
    BY <1>5 DEF Recalls
  <2> QED
    BY <1>1, <2>1, <2>2 DEF Memory, OnDisk, Untrusted
<1> QED
  BY <1>6, <1>7, <1>8, <1>9 DEF Memory, InOrphan, Cleared

(* The order of the running cycle is the newest record of its dict, and    *)
(* one more of those that the guards counted.                              *)
LEMMA MemorySubmitKept ==
  ASSUME IInv, Memory, NEW written \in BOOLEAN, NEW half \in BOOLEAN, Submit(written, half),
         ~handler.own
  PROVE  Memory'
<1> DEFINE n == Len(orders) + 1
           s == handler.symbol
           r == [symbol |-> s, at |-> now, kept |-> "dict"]
           o == Pushed(orders, state.recent, state'.recent)
<1>1. /\ UNCHANGED <<now, pc, file, stops, orphan>> /\ handler.stage = "submit" /\ Today' = Today
      /\ orders' = Append(o, r) /\ handler' = [handler EXCEPT !.stage = "send"]
      /\ state' = RecordSubmission(state, s, n)
  BY DEF Submit, Today
<1>2. /\ orders \in Seq(Order) /\ r \in Order /\ s \in Symbol /\ Len(orders) \in Nat
      /\ Len(orders) < MaxOrders /\ now \in Nat /\ pc \in {"wait", "finalize"}
  BY <1>1, Numbers DEF IInv, Thread, Counted, Rest, Order, Keepers
<1>3. r.kept = "dict" /\ r.at = now /\ r.symbol = s
  OBVIOUS
<1>4. NonePending
  BY <1>1 DEF Memory, Pending
<1>5. /\ state'.recent = Remember(state.recent, <<n>>)
      /\ state'.entries = [state.entries EXCEPT ![s] = @ + 1]
      /\ state'.trusted = state.trusted /\ state'.exit = state.exit
  <2>1. Sound(state, Len(orders))
    BY DEF IInv, Stores
  <2> HIDE DEF n, s
  <2> QED
    <3>1. LET next == RecordSubmission(state, s, n)
          IN  /\ next.recent = Remember(state.recent, <<n>>)
              /\ next.entries = [state.entries EXCEPT ![s] = @ + 1]
              /\ next.trusted = state.trusted /\ next.exit = state.exit
      BY <1>2, <2>1, SubmissionShape
    <3> QED
      BY <1>1, <3>1
<1>6. n \in 0..MaxOrders /\ state.recent \in Recents
  BY <1>2, StateFits, Numbers
<1>7. /\ state'.recent # <<>> /\ state'.recent[Len(state'.recent)] = n
      /\ \A k : In(state'.recent, k) => In(state.recent, k) \/ k = n
  <2>1. \A k : In(<<n>>, k) => k = n
    BY DEF In
  <2>2. <<n>> \in Seq(0..MaxOrders)
    BY <1>6
  <2> QED
    <3> HIDE DEF n
    <3>1. \A k : In(Remember(state.recent, <<n>>), k) => In(state.recent, k) \/ In(<<n>>, k)
      BY <1>6, <2>2, RememberHolds
    <3>2. LET m == Remember(state.recent, <<n>>) IN m # <<>> /\ m[Len(m)] = n
      BY <1>6, RememberEnds
    <3> QED
      BY <1>5, <2>1, <3>1, <3>2
<1>8. In(state'.recent, n)
  <2>1. state'.recent \in Seq(0..MaxOrders)
    <3>1. <<n>> \in Seq(0..MaxOrders)
      BY <1>6
    <3> QED
      BY <1>5, <1>6, <3>1, RememberFits DEF Recents
  <2>2. Len(state'.recent) \in DOMAIN state'.recent
    BY <1>7, <2>1, LenProperties, EmptySeq
  <2> QED
    BY <1>7, <2>2 DEF In
<1> HIDE DEF r, o, s
<1>9. /\ o \in Seq(Order) /\ DOMAIN o = DOMAIN orders
      /\ \A k \in DOMAIN orders :
              /\ o[k].at = orders[k].at /\ o[k].symbol = orders[k].symbol
              /\ o[k].kept \in {"dict", "file"} => orders[k].kept = o[k].kept
              /\ o[k].kept \in {"file", "pushed"} => orders[k].kept \in {"file", "pushed"}
              /\ orders[k].kept \in {"file", "pushed"} => o[k].kept \in {"file", "pushed"}
              /\ orders[k].kept \in {"dict", "lost"} => o[k].kept = orders[k].kept
      /\ \A ks, d : "file" \in ks /\ "pushed" \notin ks => Alike(orders, o, d, ks)
      /\ \A ks, d : "pushed" \notin ks /\ Lists(orders, d, state, ks) => Lists(o, d, state', ks)
  <2>1. \A k \in DOMAIN orders : orders[k].kept = "dict" => In(state'.recent, k)
    BY <1>4 DEF NonePending
  <2> QED
    BY <2>1, DropFits DEF o
<1>10. Len(o) + 1 = n
  BY <1>2, PushedFits DEF o
<1>11. /\ DOMAIN orders' = DOMAIN orders \cup {n} /\ n \notin DOMAIN orders /\ n # Other
       /\ orders'[n] = r /\ \A k \in DOMAIN orders : orders'[k] = o[k] /\ k < n
  BY <1>1, <1>2, <1>9, <1>10, AppendKeeps
<1>12. \A ks, d, q : KeptBy(orders', ks, d, q) =
          KeptBy(o, ks, d, q) \cup
            (IF Day(r.at) = d /\ r.symbol = q /\ r.kept \in ks THEN {n} ELSE {})
  BY <1>1, <1>2, <1>9, <1>10, AppendKeeps
<1> HIDE DEF n
<1>13. \A ks, d, q : "file" \in ks /\ "pushed" \notin ks =>
          KeptBy(o, ks \cup {"pushed"}, d, q) = KeptBy(orders, ks \cup {"pushed"}, d, q)
  BY <1>9 DEF Alike
<1>14. /\ \A d, q : d # Today \/ q # s =>
            KeptBy(orders', Living \cup {"pushed"}, d, q) = KeptBy(orders, Living \cup {"pushed"}, d, q)
       /\ KeptBy(orders', Living \cup {"pushed"}, Today, s)
            = KeptBy(orders, Living \cup {"pushed"}, Today, s) \cup {n}
       /\ \A d, q : KeptBy(orders', {"file", "pushed"}, d, q) = KeptBy(orders, {"file", "pushed"}, d, q)
  <2>1. "file" \in Living /\ "pushed" \notin Living /\ "dict" \in Living
    BY DEF Living
  <2>2. {"file"} \cup {"pushed"} = {"file", "pushed"} /\ "dict" \notin {"file", "pushed"}
    OBVIOUS
  <2>3. \A d, q : KeptBy(orders', {"file", "pushed"}, d, q) = KeptBy(o, {"file", "pushed"}, d, q)
    <3>1. r.kept \notin {"file", "pushed"}
      BY <1>3, <2>2
    <3>2. \A d, q : KeptBy(orders', {"file", "pushed"}, d, q)
                      = KeptBy(o, {"file", "pushed"}, d, q) \cup {}
      BY <1>12, <3>1
    <3> QED
      BY <3>2
  <2>4. \A d, q : KeptBy(orders', Living \cup {"pushed"}, d, q) =
          IF Today = d /\ s = q THEN KeptBy(o, Living \cup {"pushed"}, d, q) \cup {n}
          ELSE KeptBy(o, Living \cup {"pushed"}, d, q)
    <3>1. r.kept \in Living \cup {"pushed"} /\ Day(r.at) = Today /\ r.symbol = s
      BY <1>3, <2>1 DEF Today
    <3> QED
      BY <1>12, <3>1
  <2>5. \A d, q : KeptBy(o, {"file", "pushed"}, d, q) = KeptBy(orders, {"file", "pushed"}, d, q)
    BY <1>13, <2>2
  <2>6. \A d, q : KeptBy(o, Living \cup {"pushed"}, d, q) = KeptBy(orders, Living \cup {"pushed"}, d, q)
    BY <1>13, <2>1
  <2>7. \A d, q : d # Today \/ q # s =>
            KeptBy(orders', Living \cup {"pushed"}, d, q) = KeptBy(orders, Living \cup {"pushed"}, d, q)
    BY <2>4, <2>6
  <2>8. KeptBy(orders', Living \cup {"pushed"}, Today, s)
            = KeptBy(orders, Living \cup {"pushed"}, Today, s) \cup {n}
    BY <2>4, <2>6
  <2>9. \A d, q : KeptBy(orders', {"file", "pushed"}, d, q) = KeptBy(orders, {"file", "pushed"}, d, q)
    BY <2>3, <2>5
  <2> QED
    BY <2>7, <2>8, <2>9
<1>15. /\ Cardinality(KeptBy(orders', Living \cup {"pushed"}, Today, s))
            <= Cardinality(KeptBy(orders, Living \cup {"pushed"}, Today, s)) + 1
       /\ Cardinality(KeptBy(orders, Living \cup {"pushed"}, Today, s)) \in Nat
       /\ Cardinality(KeptBy(orders', Living \cup {"pushed"}, Today, s)) \in Nat
  <2>1. /\ IsFiniteSet(KeptBy(orders, Living \cup {"pushed"}, Today, s))
        /\ Cardinality(KeptBy(orders, Living \cup {"pushed"}, Today, s)) \in Nat
    BY <1>2, KeptIsFinite
  <2> DEFINE K == KeptBy(orders, Living \cup {"pushed"}, Today, s)
  <2> HIDE DEF K
  <2>2. IsFiniteSet(K) /\ Cardinality(K) \in Nat
    BY <2>1 DEF K
  <2>3. Cardinality(K \cup {n}) = Cardinality(K) \/ Cardinality(K \cup {n}) = Cardinality(K) + 1
    BY <2>2, FS_AddElement
  <2>4. /\ Cardinality(K \cup {n}) <= Cardinality(K) + 1
        /\ Cardinality(K) \in Nat /\ Cardinality(K \cup {n}) \in Nat
    BY <2>2, <2>3
  <2> QED
    BY <1>14, <2>4 DEF K
<1>16. /\ state.entries \in [Symbol -> Nat] /\ state'.entries[s] = state.entries[s] + 1
       /\ \A q \in Symbol : q # s => state'.entries[q] = state.entries[q]
  <2>1. state.entries \in [Symbol -> 0..MaxOrders] /\ MaxOrders \in Nat
    BY StateFits, Numbers
  <2> QED
    BY <1>2, <1>5, <2>1
<1>17. InDict'
  <2> SUFFICES ASSUME state.trusted PROVE Recalls(orders', stops, Today, state', Living)
    BY <1>1, <1>5 DEF InDict
  <2>1. Recalls(orders, stops, Today, state, Living)
    BY <1>2 DEF Memory, InDict, Cycle
  <2>2. Counts(orders', Today, state', Living)
    <3>1. \A q \in Symbol : Cardinality(KeptBy(orders, Living \cup {"pushed"}, Today, q)) <= state.entries[q]
      BY <2>1 DEF Recalls, Counts
    <3>2. \A q \in Symbol : q # s =>
            Cardinality(KeptBy(orders', Living \cup {"pushed"}, Today, q)) <= state'.entries[q]
      BY <1>14, <1>16, <3>1
    <3>3. Cardinality(KeptBy(orders', Living \cup {"pushed"}, Today, s)) <= state'.entries[s]
      <4>1. Cardinality(KeptBy(orders, Living \cup {"pushed"}, Today, s)) <= state.entries[s]
            /\ state.entries[s] \in Nat
        BY <1>2, <1>16, <3>1
      <4> QED
        BY <1>15, <1>16, <4>1
    <3> QED
      BY <3>2, <3>3 DEF Counts
  <2>3. Lists(o, Today, state', Living)
    BY <1>9, <2>1 DEF Recalls, Living
  <2>4. Lists(orders', Today, state', Living)
    BY <1>8, <1>9, <1>11, <2>3 DEF Lists
  <2>5. Exited(stops, Today, state', Living)
    BY <1>5, <2>1 DEF Recalls, Exited
  <2> QED
    BY <2>2, <2>4, <2>5 DEF Recalls
<1>18. OnDisk'
  <2>1. Unknown => Unknown'
    BY <1>1, <1>3, <1>9, <1>11 DEF Unknown
  <2>2. ASSUME Recalls(orders, stops, Today, file.state, {"file"})
        PROVE  Recalls(orders', stops, Today, file.state, {"file"})
    <3>1. Counts(orders', Today, file.state, {"file"})
      <4>1. {"file"} \cup {"pushed"} = {"file", "pushed"}
        OBVIOUS
      <4> QED
        BY <1>14, <2>2, <4>1 DEF Recalls, Counts
    <3>2. Lists(orders', Today, file.state, {"file"})
      BY <1>3, <1>9, <1>11, <2>2 DEF Recalls, Lists
    <3> QED
      BY <2>2, <3>1, <3>2 DEF Recalls
  <2> QED
    BY <1>1, <2>1, <2>2 DEF Memory, OnDisk, Untrusted
<1>19. handler'.stage = "send" /\ ~handler'.own
  BY <1>1 DEF IInv, Thread
<1>20. Pending'
  <2>1. \A k \in DOMAIN orders' : orders'[k].kept = "dict" => k = n
    BY <1>4, <1>9, <1>11 DEF NonePending
  <2>2. \A q \in Symbol : stops'[q].kept # "pushed"
    BY <1>1 DEF Memory, Pending
  <2>3. pc' \in {"wait", "finalize"}
    BY <1>1, <1>2
  <2> QED
    BY <1>7, <1>19, <2>1, <2>2, <2>3 DEF Pending
<1>21. Past'
  <2>1. \A k \in DOMAIN orders' : orders'[k].at <= now
    BY <1>2, <1>3, <1>9, <1>11 DEF Memory, Past
  <2> QED
    BY <1>1, <2>1 DEF Memory, Past
<1>22. Written'
  <2>1. Records(orders', file.state.recent, {"file", "pushed"})
    BY <1>9, <1>11 DEF Memory, Written, Records
  <2>2. Records(orders', state'.recent, {"dict", "file", "pushed"})
    <3> SUFFICES ASSUME NEW k, In(state'.recent, k), k # Other
                 PROVE  k \in DOMAIN orders' /\ orders'[k].kept \in {"dict", "file", "pushed"}
      BY DEF Records, In
    <3>1. CASE k = n
      BY <1>3, <1>11, <3>1
    <3>2. CASE k # n
      <4>1. k \in DOMAIN orders /\ orders[k].kept \in {"dict", "file", "pushed"}
        BY <1>7, <3>2 DEF Memory, Written, Records, In
      <4>2. orders[k].kept \in {"file", "pushed"}
        BY <1>4, <4>1 DEF NonePending
      <4> QED
        BY <1>9, <1>11, <4>1, <4>2
    <3> QED
      BY <3>1, <3>2
  <2> QED
    BY <1>1, <2>1, <2>2 DEF Written
<1>23. Limit'
  <2> SUFFICES ASSUME SymbolMax > 0, NEW d \in Days, NEW q \in Symbol
               PROVE  Cardinality(KeptBy(orders', Living \cup {"pushed"}, d, q)) <= SymbolMax
    BY DEF Limit
  <2>1. CASE d # Today \/ q # s
    BY <1>14, <2>1 DEF Memory, Limit
  <2>2. CASE d = Today /\ q = s
    <3>1. state.trusted /\ state.entries[s] < SymbolMax
      BY <1>1 DEF Memory, Cleared, s
    <3>2. Cardinality(KeptBy(orders, Living \cup {"pushed"}, Today, s)) <= state.entries[s]
      BY <1>2, <3>1 DEF Memory, InDict, Cycle, Recalls, Counts
    <3>3. state.entries[s] \in Nat /\ SymbolMax \in Nat
      BY <1>2, <1>16, OrderDayAssumption
    <3> QED
      BY <1>15, <2>2, <3>1, <3>2, <3>3
  <2> QED
    BY <2>1, <2>2
<1>24. CooldownHolds'
  <2> SUFFICES ASSUME NEW k \in DOMAIN orders', NEW m \in DOMAIN orders',
               k < m, orders'[k].symbol = orders'[m].symbol,
               Day(orders'[k].at) = Day(orders'[m].at), orders'[k].kept \in {"dict", "file"}, Rebuy > 0
        PROVE  orders'[m].at - orders'[k].at > Rebuy
    BY DEF CooldownHolds
  <2>1. k \in DOMAIN orders /\ orders'[k] = o[k]
    <3>1. ASSUME k = n PROVE FALSE
      <4>1. m = n \/ m < n
        BY <1>11
      <4>2. n \in Nat
        BY <1>6, Numbers
      <4>3. m \in Nat
        BY <1>2, <1>11, <4>2, LenProperties
      <4> QED
        BY <3>1, <4>1, <4>2, <4>3
    <3> QED
      BY <1>11, <3>1
  <2>2. /\ orders[k].kept = o[k].kept /\ orders[k].kept \in {"dict", "file"}
        /\ orders[k].at = o[k].at /\ orders[k].symbol = o[k].symbol
    BY <1>9, <2>1
  <2>3. CASE m \in DOMAIN orders
    BY <1>9, <1>11, <2>1, <2>2, <2>3 DEF Memory, CooldownHolds
  <2>4. CASE m = n
    <3>1. Day(orders[k].at) = Today /\ orders[k].symbol = s
      BY <1>3, <1>11, <2>1, <2>2, <2>4 DEF Today
    <3>2. now - orders[k].at > Rebuy
      BY <1>1, <2>1, <2>2, <3>1 DEF Memory, Cleared, Living, s
    <3> QED
      BY <1>3, <1>11, <2>1, <2>2, <2>4, <3>2
  <2> QED
    BY <1>11, <2>3, <2>4
<1> QED
  BY <1>17, <1>18, <1>19, <1>20, <1>21, <1>22, <1>23, <1>24 DEF Memory, InOrphan, Cleared

-----------------------------------------------------------------------------
(* What the end of a cycle or of the process does to the exits.            *)
LEMMA StopsBecame ==
  ASSUME IInv, Memory, NEW kept \in {"file", "lost"}, stops' = StopsBecome(kept)
  PROVE  \A s \in Symbol :
           /\ stops'[s].kept # "dict" /\ stops'[s].kept # "pushed" /\ stops'[s].at <= now
           /\ kept = "file" /\ stops'[s].kept = "file" =>
                stops[s].kept \in Living /\ stops'[s].at = stops[s].at
           /\ kept = "lost" /\ stops'[s].kept = "file" => stops'[s] = stops[s]
<1> TAKE s \in Symbol
<1>1. stops \in [Symbol -> Stops] /\ now \in Nat
  BY Numbers DEF IInv, Counted, Rest
<1>2. stops[s] \in Stops /\ stops[s].at <= now /\ stops[s].kept # "pushed"
  BY <1>1 DEF Memory, Past, Pending
<1>3. stops'[s] = IF stops[s].kept # "dict" THEN stops[s]
                  ELSE IF kept = "lost" THEN Forgotten ELSE [stops[s] EXCEPT !.kept = kept]
  BY DEF StopsBecome
<1>4. Forgotten.kept = "lost" /\ Forgotten.at = 0
  BY DEF Forgotten
<1>5. CASE stops[s].kept # "dict"
  BY <1>2, <1>3, <1>5 DEF Living
<1>6. CASE stops[s].kept = "dict" /\ kept = "lost"
  BY <1>1, <1>3, <1>4, <1>6
<1>7. CASE stops[s].kept = "dict" /\ kept # "lost"
  <2>1. stops'[s] = [stops[s] EXCEPT !.kept = kept]
    BY <1>3, <1>7
  <2>2. stops'[s].kept = kept /\ stops'[s].at = stops[s].at
    BY <1>2, <2>1 DEF Stops
  <2> QED
    BY <1>2, <1>7, <2>2 DEF Living
<1> QED
  BY <1>5, <1>6, <1>7

(* The end of a cycle or of the process: what the dict alone knew is in    *)
(* the file, or lost, and no cycle runs.                                   *)
LEMMA EndStep ==
  ASSUME IInv, Memory, NEW kept \in {"file", "lost"},
         orders' = OrdersBecome(kept), stops' = StopsBecome(kept),
         state' = Nothing, UNCHANGED now, pc' \notin Cycle,
         \/ file'.state.recent \in {<<>>, file.state.recent}
         \/ kept = "file" /\ file'.state.recent = state.recent,
         handler'.stage = "submit" => handler.stage = "submit" /\ handler'.symbol = handler.symbol
  PROVE  /\ Past' /\ InDict' /\ Pending' /\ Written' /\ Limit' /\ CooldownHolds'
         /\ (handler'.stage = "submit" => handler'.own) => Cleared'
<1>1. Became(orders, orders', kept)
  BY OrdersBecame DEF IInv, Counted
<1>2. orders \in Seq(Order) /\ \A k \in DOMAIN orders : orders[k].kept \in Keepers
  <2>1. orders \in Seq(Order)
    BY DEF IInv, Counted
  <2>2. \A k \in DOMAIN orders : orders[k] \in Order
    BY <2>1, LenProperties, ElementOfSeq
  <2> QED
    BY <2>1, <2>2 DEF Order
<1>3. /\ DOMAIN orders' = DOMAIN orders
      /\ \A k \in DOMAIN orders :
           /\ orders'[k].at = orders[k].at /\ orders'[k].symbol = orders[k].symbol
           /\ orders'[k].kept # "dict"
           /\ orders'[k].kept \in Living => orders[k].kept \in Living
           /\ orders[k].kept \in {"file", "pushed"} => orders'[k].kept \in {"file", "pushed"}
           /\ kept = "file" /\ orders[k].kept \in {"dict", "file", "pushed"}
                => orders'[k].kept \in {"file", "pushed"}
           /\ orders'[k].kept \in Living \cup {"pushed"} => orders[k].kept \in Living \cup {"pushed"}
  BY <1>1 DEF Became, Living
<1>4. Past'
  BY <1>3, StopsBecame DEF Memory, Past
<1>5. Pending'
  <2>1. NonePending'
    BY <1>3 DEF NonePending
  <2>2. \A k \in DOMAIN orders' : orders'[k].kept # "dict"
    BY <2>1 DEF NonePending
  <2> QED
    BY <2>1, <2>2, StopsBecame DEF Pending
<1>6. Written'
  <2>1. Records(orders', state'.recent, {"dict", "file", "pushed"})
    <3>1. DOMAIN Nothing.recent = {}
      BY DEF Nothing
    <3> QED
      BY <3>1 DEF Records
  <2>2. Records(orders', file'.state.recent, {"file", "pushed"})
    <3>1. CASE file'.state.recent = <<>>
      BY <3>1 DEF Records
    <3>2. CASE file'.state.recent = file.state.recent
      BY <1>3, <3>2 DEF Memory, Written, Records
    <3>3. CASE kept = "file" /\ file'.state.recent = state.recent
      BY <1>3, <3>3 DEF Memory, Written, Records
    <3> QED
      BY <3>1, <3>2, <3>3
  <2> QED
    BY <2>1, <2>2 DEF Written
<1>7. Limit'
  <2> SUFFICES ASSUME SymbolMax > 0, NEW d \in Days, NEW q \in Symbol
               PROVE  Cardinality(KeptBy(orders', Living \cup {"pushed"}, d, q)) <= SymbolMax
    BY DEF Limit
  <2> DEFINE K == KeptBy(orders, Living \cup {"pushed"}, d, q)
             L == KeptBy(orders', Living \cup {"pushed"}, d, q)
  <2>1. L \subseteq K
    BY <1>3 DEF KeptBy
  <2>2. Cardinality(K) <= SymbolMax
    BY DEF Memory, Limit
  <2>3. IsFiniteSet(K) /\ Cardinality(K) \in Nat
    BY <1>2, KeptIsFinite
  <2> HIDE DEF K, L
  <2>4. Cardinality(L) <= Cardinality(K) /\ Cardinality(L) \in Nat
    BY <2>1, <2>3, FS_Subset, FS_CardinalityType
  <2>5. Cardinality(L) <= SymbolMax
    BY <2>2, <2>3, <2>4, OrderDayAssumption
  <2> QED
    BY <2>5 DEF L
<1>8. CooldownHolds'
  BY <1>3 DEF Memory, CooldownHolds, Living
<1>9. InDict'
  BY DEF InDict
<1>10. ASSUME handler'.stage = "submit" => handler'.own PROVE Cleared'
  <2> SUFFICES ASSUME handler'.stage = "submit", Rebuy > 0, NEW k \in DOMAIN orders',
                      Day(orders'[k].at) = Today', orders'[k].symbol = handler'.symbol,
                      orders'[k].kept \in Living
               PROVE  now' - orders'[k].at > Rebuy
    BY <1>10 DEF Cleared
  <2>1. handler.stage = "submit" /\ handler'.symbol = handler.symbol
    OBVIOUS
  <2>2. Day(orders[k].at) = Today /\ orders[k].symbol = handler.symbol /\ orders[k].kept \in Living
    BY <1>3, <2>1 DEF Today
  <2> QED
    BY <1>3, <2>1, <2>2 DEF Memory, Cleared
<1> QED
  BY <1>4, <1>5, <1>6, <1>7, <1>8, <1>9, <1>10

(* What was lost with a dict, no file had held. *)
LEMMA LostOnDisk ==
  ASSUME IInv, Memory, orders' = OrdersBecome("lost"), stops' = StopsBecome("lost"), UNCHANGED now,
         file' \in {file, CutFile}
  PROVE  OnDisk'
<1>1. Became(orders, orders', "lost")
  BY OrdersBecame DEF IInv, Counted
<1>2. Today' = Today
  BY DEF Today
<1>3. CASE file' = CutFile
  BY <1>3 DEF OnDisk, Untrusted, CutFile
<1>4. CASE file' = file
  <2>1. Unknown => Unknown'
    <3>1. \A k \in DOMAIN orders : orders'[k].kept \in {"file", "pushed"} => orders[k].kept \in {"file", "pushed"}
      BY <1>1 DEF Became
    <3> QED
      BY <1>1, <1>2, <3>1, StopsBecame DEF Unknown, Became
  <2>2. Recalls(orders, stops, Today, file.state, {"file"}) => Recalls(orders', stops', Today, file.state, {"file"})
    <3>1. /\ Counts(orders, Today, file.state, {"file"}) => Counts(orders', Today, file.state, {"file"})
          /\ Lists(orders, Today, file.state, {"file"}) => Lists(orders', Today, file.state, {"file"})
      BY <1>1, LostBy DEF IInv, Counted
    <3>2. Exited(stops, Today, file.state, {"file"}) => Exited(stops', Today, file.state, {"file"})
      BY StopsBecame DEF Exited
    <3> QED
      BY <3>1, <3>2 DEF Recalls
  <2> QED
    BY <1>2, <1>4, <2>1, <2>2 DEF Memory, OnDisk, Untrusted
<1> QED
  BY <1>3, <1>4

LEMMA MemoryCrash ==
  ASSUME IInv, Memory, NEW inAppend \in BOOLEAN, NEW inSave \in BOOLEAN, Crash(inAppend, inSave)
  PROVE  Memory'
<1>1. /\ orders' = OrdersBecome("lost") /\ stops' = StopsBecome("lost") /\ state' = Nothing
      /\ UNCHANGED now /\ pc' = "down" /\ handler' = Idle /\ file' \in {file, CutFile}
  BY DEF Crash
<1>2. OnDisk'
  BY <1>1, LostOnDisk
<1>3. ~Idle.own /\ Idle.stage = "none" /\ CutFile.state.recent = <<>>
  BY DEF Idle, CutFile, Nothing
<1>4. Past' /\ InDict' /\ Pending' /\ Written' /\ Limit' /\ CooldownHolds' /\ Cleared'
  <2>1. file'.state.recent \in {<<>>, file.state.recent} /\ pc' \notin Cycle
    BY <1>1, <1>3 DEF Cycle
  <2>2. handler'.stage # "submit" /\ "lost" \in {"file", "lost"}
    BY <1>1, <1>3
  <2>3. /\ Past' /\ InDict' /\ Pending' /\ Written' /\ Limit' /\ CooldownHolds'
        /\ (handler'.stage = "submit" => handler'.own) => Cleared'
    BY <1>1, <2>1, <2>2, EndStep
  <2> QED
    BY <2>2, <2>3
<1> QED
  BY <1>1, <1>2, <1>3, <1>4 DEF Memory, InOrphan

LEMMA ListsFewer ==
  ASSUME NEW os, NEW ps, NEW d, NEW st, Lists(os, d, st, {"file"}),
         \A k \in DOMAIN ps : /\ k \in DOMAIN os /\ ps[k].at = os[k].at
                              /\ ps[k].kept = "file" => os[k].kept = "file"
  PROVE  Lists(ps, d, st, {"file"})
BY DEF Lists

LEMMA MemorySave ==
  ASSUME IInv, Memory, NEW after, NEW kept \in {"file", "lost"}, Save(after, kept),
         \/ kept = "lost" /\ after \in {file, CutFile}
         \/ kept = "file" /\ after = [kind |-> "whole", state |-> state, day |-> Today]
  PROVE  Memory'
<1>1. /\ orders' = OrdersBecome(kept) /\ stops' = StopsBecome(kept) /\ state' = Nothing
      /\ UNCHANGED now /\ pc = "finalize" /\ pc' = "idle" /\ file' = after /\ Today' = Today
      /\ IF handler.stage = "none" \/ handler.own THEN UNCHANGED <<handler, orphan>>
         ELSE handler' = [handler EXCEPT !.own = TRUE] /\ orphan' = state
  BY DEF Save, Today
<1>2. /\ handler'.stage = handler.stage /\ handler'.symbol = handler.symbol
      /\ handler'.stage # "none" => handler'.own
  BY <1>1 DEF IInv, Thread
<1>3. Became(orders, orders', kept)
  BY <1>1, OrdersBecame DEF IInv, Counted
<1>4. \/ file'.state.recent \in {<<>>, file.state.recent}
      \/ kept = "file" /\ file'.state.recent = state.recent
  <2>1. CutFile.state.recent = <<>>
    BY DEF CutFile, Nothing
  <2>2. CASE after = file
    BY <1>1, <2>2
  <2>3. CASE after = CutFile
    BY <1>1, <2>1, <2>3
  <2>4. CASE kept = "file" /\ after = [kind |-> "whole", state |-> state, day |-> Today]
    <3>1. after.state = state
      BY <2>4
    <3> QED
      BY <1>1, <2>4, <3>1
  <2> QED
    BY <2>2, <2>3, <2>4
<1>5. Past' /\ InDict' /\ Pending' /\ Written' /\ Limit' /\ CooldownHolds' /\ Cleared'
  <2>1. pc' \notin Cycle
    BY <1>1 DEF Cycle
  <2>2. handler'.stage = "submit" => handler'.own
    BY <1>2
  <2> QED
    BY <1>1, <1>2, <1>4, <2>1, <2>2, EndStep
<1>6. InDict /\ pc \in Cycle
  BY <1>1 DEF Memory, Cycle
<1>7. InOrphan'
  <2> SUFFICES ASSUME handler'.own, handler'.stage = "evaluate", orphan'.trusted
               PROVE  Lists(orders', Today, orphan', {"file"})
    BY <1>1 DEF InOrphan
  <2>1. NonePending
    BY <1>2 DEF Memory, Pending
  <2>2. \A k \in DOMAIN orders' : /\ k \in DOMAIN orders /\ orders'[k].at = orders[k].at
                                  /\ orders'[k].kept = "file" => orders[k].kept = "file"
    BY <1>3, <2>1 DEF Became, NonePending
  <2>3. Lists(orders, Today, orphan', {"file"})
    <3>1. CASE handler.own
      BY <1>1, <1>2, <3>1 DEF Memory, InOrphan
    <3>2. CASE ~handler.own
      <4>1. orphan' = state
        BY <1>1, <1>2, <3>2
      <4> QED
        BY <1>6, <4>1 DEF InDict, Recalls, Lists, Living
    <3> QED
      BY <3>1, <3>2
  <2> QED
    BY <2>2, <2>3, ListsFewer
<1>8. OnDisk'
  <2>1. CASE kept = "lost"
    BY <1>1, <2>1, LostOnDisk
  <2>2. CASE kept = "file"
    <3> SUFFICES ASSUME ~Untrusted'
                 PROVE  file'.kind = "whole" /\ file'.state.date = Today
                        /\ Recalls(orders', stops', Today, file'.state, {"file"})
      BY <1>1 DEF OnDisk
    <3>1. file' = [kind |-> "whole", state |-> state, day |-> Today]
      BY <1>1, <2>2
    <3>2. file'.kind = "whole" /\ file'.state = state /\ state.date = Today /\ state.trusted
      BY <1>1, <3>1 DEF Untrusted
    <3>3. Recalls(orders, stops, Today, state, {"dict", "file"})
      BY <1>6, <3>2 DEF InDict, Living
    <3>4. /\ Counts(orders, Today, state, {"dict", "file"}) => Counts(orders', Today, state, {"file"})
          /\ Lists(orders, Today, state, {"dict", "file"}) => Lists(orders', Today, state, {"file"})
      BY <1>3, <2>2, SavedBy DEF IInv, Counted
    <3>5. Exited(stops', Today, state, {"file"})
      BY <1>1, <2>2, <3>3, StopsBecame DEF Recalls, Exited, Living
    <3> QED
      BY <3>2, <3>3, <3>4, <3>5 DEF Recalls
  <2> QED
    BY <2>1, <2>2
<1> QED
  BY <1>5, <1>7, <1>8 DEF Memory

LEMMA MemoryStep == ASSUME IInv, Memory, [Next]_vars PROVE Memory'
<1>1. CASE \/ NoSell \/ NoBuy \/ TimesOut \/ Refuse \/ SendSucceeds \/ UNCHANGED vars
           \/ \E s \in Symbol : StartBuy(s)
           \/ \E oversized \in BOOLEAN : Start(oversized)
  BY <1>1, MoveSteps
<1>2. CASE Tick \/ LoadState \/ SendFails
  BY <1>2, MemoryTick, MemoryLoad, MemorySendFails
<1>3. CASE \E s \in Symbol, reason \in Reasons : SellExit(s, reason)
  BY <1>3, MemorySellExit
<1>4. CASE \E fresh, riskOff \in BOOLEAN : Clear(fresh, riskOff)
  BY <1>4, ClearStep
<1>5. CASE \E written, half \in BOOLEAN : Submit(written, half)
  BY <1>5, MemorySubmitLost, MemorySubmitKept
<1>6. CASE \E inAppend, inSave \in BOOLEAN : Crash(inAppend, inSave)
  BY <1>6, MemoryCrash
<1>7. CASE SaveSucceeds \/ SaveFails \/ SaveTears
  BY <1>7, MemorySave DEF SaveSucceeds, SaveFails, SaveTears
<1> QED
  BY <1>1, <1>2, <1>3, <1>4, <1>5, <1>6, <1>7 DEF Next

LEMMA MemoryInvariant == Spec => [](IInv /\ Memory)
<1>1. Init => IInv /\ Memory
  BY Initially, MemoryInitially
<1>2. IInv /\ Memory /\ [Next]_vars => IInv' /\ Memory'
  BY Step, MemoryStep
<1> QED
  BY <1>1, <1>2, PTL DEF Spec

(* No symbol is bought more often in a day than same_symbol_max_buys_per_  *)
(* day, but for the orders that no state file ever held: through records   *)
(* that recent_orders dropped, failed saves, kills, restarts and handlers  *)
(* that were left behind.                                                  *)
THEOREM SymbolLimitKept == Spec => []SymbolLimit
<1>1. IInv /\ Memory => SymbolLimit
  BY LimitFollows DEF Memory
<1> QED
  BY <1>1, MemoryInvariant, PTL

(* Two orders of a symbol on one day are more than rebuy_cooldown_minutes  *)
(* apart, unless the first was lost or pushed out of recent_orders, also   *)
(* when a handler left behind sends the second one.                        *)
THEOREM CooldownKept == Spec => []CooldownHolds
<1>1. IInv /\ Memory => CooldownHolds
  BY DEF Memory
<1> QED
  BY <1>1, MemoryInvariant, PTL

(* No order is cleared too early on the day of a stop loss, whatever the   *)
(* setup looks like, if the running cycle or the file knows of the exit.   *)
THEOREM StopLossKept == Spec => StopLossHolds
<1> DEFINE A == handler.stage = "evaluate" /\ handler'.stage = "submit" /\ ~handler.own =>
                  LET x == stops[handler.symbol]
                  IN  x.kept # "lost" /\ Day(x.at) = Today => now - x.at >= StopHold
<1>1. ASSUME IInv, Memory, [Next]_vars PROVE A
  <2> DEFINE s == handler.symbol
             x == stops[s]
  <2> SUFFICES ASSUME handler.stage = "evaluate", handler'.stage = "submit", ~handler.own,
                      x.kept # "lost", Day(x.at) = Today
               PROVE  now - x.at >= StopHold
    OBVIOUS
  <2>1. PICK fresh \in BOOLEAN, riskOff \in BOOLEAN : Clear(fresh, riskOff)
    BY <1>1, OnlyClearSubmits
  <2>2. state.trusted /\ pc \in Cycle /\ s \in Symbol
    BY <1>1, <2>1 DEF Clear, BuyGuard, Held, IInv, Thread, Cycle
  <2>3. x.kept \in Living
    <3>1. x.kept \in Keepers
      BY <1>1, <2>2 DEF IInv, Counted, Stops
    <3>2. x.kept # "pushed"
      BY <1>1, <2>2 DEF Memory, Pending
    <3> QED
      BY <3>1, <3>2 DEF Keepers, Living
  <2>4. state.exit[s] = [reason |-> "stop_loss", at |-> x.at]
    BY <1>1, <2>2, <2>3 DEF Memory, InDict, Recalls, Exited
  <2>5. state.exit[s].reason = "stop_loss" /\ state.exit[s].at = x.at
    BY <2>4
  <2>6. Reentry(state, s, fresh, riskOff)
    BY <2>1 DEF Clear, Held
  <2> QED
    BY <2>5, <2>6 DEF Reentry
<1>2. IInv /\ Memory /\ [Next]_vars => [A]_vars
  BY <1>1
<1> QED
  BY <1>2, MemoryInvariant, PTL DEF Spec, StopLossHolds
=============================================================================

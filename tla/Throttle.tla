------------------------------ MODULE Throttle ------------------------------
(***************************************************************************)
(* The pacing of requests at the last boundary before the gateway          *)
(* (app/core/throttle.py with app/core/kis_rate_limits.py), which the      *)
(* cycle's thread and an order handler that outlived its gate share        *)
(* without a lock; the BUY prefetch worker goes without                    *)
(* (quote_account.py:377).  A thread prunes the ledger of sent requests, computes how long to sleep,  *)
(* sleeps, and only then enters its own request: two threads may compute   *)
(* from the same ledger.  An order is a hashkey request and the order      *)
(* itself; wait_for_request_slots makes room for the pair and reserves     *)
(* nothing.  A hashkey request that is repeated after a network error      *)
(* (token.py:322-333), the third one of its order, is left out.            *)
(*                                                                         *)
(* Timestamps are ages, so behaviours go on for ever.  Steps take no time; *)
(* sleeps, requests and pauses between calls do.                           *)
(***************************************************************************)
EXTENDS Naturals, Sequences, FiniteSets

CONSTANTS
  Thread,
  Window,        \* _WINDOW_SECONDS
  Limit,         \* max_requests_per_second
  QuoteLimit,    \* api_soft_max_quotes_per_tick
  Interval,      \* max(1 / Limit, min_inter_request_seconds)
  Buffer,        \* _SAFETY_BUFFER_SECONDS
  Extra,         \* _ADAPTIVE_EXTRA_DELAY_SECONDS
  PenaltyFor     \* _ADAPTIVE_PENALTY_TTL_SECONDS

ASSUME ThrottleAssumption ==
  /\ IsFiniteSet(Thread) /\ Thread # {}
  /\ {Window, Limit, QuoteLimit, Interval} \subseteq Nat \ {0}
  /\ {Buffer, Extra, PenaltyFor} \subseteq Nat
  /\ Interval * Limit >= Window

VARIABLES
  requests,  \* _REQUEST_TIMESTAMPS, oldest first
  quotes,    \* _QUOTE_TIMESTAMPS
  last,      \* the age of _LAST_GLOBAL_TS
  penalty,   \* what is left until _ADAPTIVE_PENALTY_UNTIL
  thread,    \* where each thread is, and how long it still sleeps
  gateway    \* history: the ages of all requests of the last Window

ledger == <<requests, quotes, last>>
throttleVars   == <<ledger, penalty, thread, gateway>>

Least(a, b) == IF a < b THEN a ELSE b
Most(a, b)  == IF a > b THEN a ELSE b
Minus(a, b) == IF a > b THEN a - b ELSE 0

Places  == {"idle", "reserving", "between", "pacing"}
Kinds   == {"request", "quote"}
Pair    == 2  \* _ORDER_REQUEST_SLOTS
Longest == Most(Window + Buffer, Interval) + Extra
Bound   == Limit * Cardinality(Thread)
Ages(n) == {s \in Seq(0..Window) : Len(s) <= n}

(* left: requests of an order still to be sent.  extra: the penalty its sleep  *)
(* includes.  History: over, the ledger was over the limit when the thread    *)
(* computed its sleep; crossed, another thread has sent a request since then;  *)
(* shared, another has since this one asked for the slots.                     *)
Threads == [at : Places, kind : Kinds, wait : 0..Longest, left : 0..Pair,
            extra : 0..Extra, over : BOOLEAN, crossed : BOOLEAN, shared : BOOLEAN]

ThrottleTypeOK ==
  /\ requests \in Ages(Bound)
  /\ quotes \in Ages(Bound)
  /\ last \in 0..Interval + Extra
  /\ penalty \in 0..PenaltyFor
  /\ thread \in [Thread -> Threads]
  /\ gateway \in Ages(Bound)

-----------------------------------------------------------------------------
(* _prune_old_timestamps: from the oldest on, while they are out of date. *)
Stale(s) == CHOOSE n \in 0..Len(s) : /\ \A i \in 1..n : s[i] >= Window
                                     /\ n < Len(s) => s[n + 1] < Window

Young(s) == SubSeq(s, Stale(s) + 1, Len(s))

(* How long until the n-th oldest of s has left the window. *)
Expiry(s, n) == Window - s[n] + Buffer

(* Mutant: the floor is kept within a category only. *)
FloorWait_None == 0

FloorWait == Minus(Interval, last)

WindowWait(s, limit) == IF Len(s) >= limit THEN Expiry(s, 1) ELSE 0

Penalty == IF penalty > 0 THEN Extra ELSE 0

(* Mutant: the shortest of the waits is enough. *)
PacedWait_Least(kind) == Least(FloorWait, WindowWait(Young(requests), Limit)) + Penalty

(* throttle, up to its sleep. *)
PacedWait(kind) ==
  LET window == WindowWait(Young(requests), Limit)
      quote  == IF kind = "quote" THEN WindowWait(Young(quotes), QuoteLimit) ELSE 0
  IN  Most(FloorWait, Most(window, quote)) + Penalty

(* Mutant: room for one request is taken for room for the pair. *)
SlotWait_Single ==
  LET s == Young(requests) IN Most(FloorWait, IF Len(s) >= Limit THEN Expiry(s, 1) ELSE 0)

(* wait_for_request_slots: the entry that must age out is the one that      *)
(* leaves room for the pair, or for all the limit allows if that is less.   *)
SlotWait ==
  LET s        == Young(requests)
      overflow == Minus(Len(s), Limit - Least(Pair, Limit))
  IN  Most(FloorWait, IF overflow > 0 THEN Expiry(s, overflow) ELSE 0)

-----------------------------------------------------------------------------
Idle == [at |-> "idle", kind |-> "request", wait |-> 0, left |-> 0, extra |-> 0,
         over |-> FALSE, crossed |-> FALSE, shared |-> FALSE]

ThrottleInit ==
  /\ requests = <<>>
  /\ quotes = <<>>
  /\ last = Interval + Extra
  /\ penalty = 0
  /\ thread = [t \in Thread |-> Idle]
  /\ gateway = <<>>

Pruned == requests' = Young(requests) /\ quotes' = Young(quotes) /\ UNCHANGED last

(* throttle: the ledger is read and the sleep begins. *)
Pace(t, kind) ==
  /\ Pruned
  /\ thread' = [thread EXCEPT ![t].at = "pacing", ![t].kind = kind, ![t].extra = Penalty,
                              ![t].wait = PacedWait(kind), ![t].crossed = FALSE,
                              ![t].over = Len(Young(requests)) > Limit]
  /\ UNCHANGED <<penalty, gateway>>

(* request_json of a single request. *)
Call(t) ==
  /\ thread[t].at = "idle"
  /\ \E kind \in Kinds : Pace(t, kind)

(* _order_market: room for the pair is waited for. *)
Order(t) ==
  /\ thread[t].at = "idle"
  /\ Pruned
  /\ thread' = [thread EXCEPT ![t].at = "reserving", ![t].wait = SlotWait, ![t].left = Pair]
  /\ UNCHANGED <<penalty, gateway>>

Reserved(t) ==
  /\ thread[t].at = "reserving"
  /\ thread[t].wait = 0
  /\ Pruned
  /\ thread' = [thread EXCEPT ![t].at = "between"]
  /\ UNCHANGED <<penalty, gateway>>

(* issue_hashkey, and after its answer the order. *)
OfPair(t) ==
  /\ thread[t].at = "between"
  /\ Pace(t, "request")

(* throttle, after its sleep: the request is entered and sent. *)
Send(t) ==
  LET sent == IF thread[t].left > 1
              THEN [thread[t] EXCEPT !.at = "between", !.left = @ - 1, !.extra = 0, !.over = FALSE]
              ELSE Idle
  IN  /\ thread[t].at = "pacing"
      /\ thread[t].wait = 0
      /\ requests' = Append(Young(requests), 0)
      /\ quotes' = IF thread[t].kind = "quote" THEN Append(Young(quotes), 0) ELSE Young(quotes)
      /\ last' = 0
      /\ gateway' = Append(gateway, 0)
      /\ thread' = [u \in Thread |->
           IF u = t THEN sent
           ELSE [thread[u] EXCEPT !.crossed = @ \/ thread[u].at = "pacing",
                                  !.shared  = @ \/ thread[u].left > 0]]
      /\ UNCHANGED penalty

(* note_rate_limit: an answer said that the gateway's limit was exceeded. *)
NoteRateLimit ==
  /\ \E t \in Thread : thread[t].at \in {"idle", "between"}
  /\ penalty' = PenaltyFor
  /\ penalty' # penalty
  /\ gateway # <<>>
  /\ UNCHANGED <<ledger, thread, gateway>>

(* Time passes while every thread sleeps, waits for an answer or pauses. *)
Older(s) == [i \in DOMAIN s |-> Least(s[i] + 1, Window)]

Pass ==
  /\ \A t \in Thread : thread[t].at \in {"reserving", "pacing"} => thread[t].wait > 0
  /\ requests' = Older(requests)
  /\ quotes' = Older(quotes)
  /\ last' = Least(last + 1, Interval + Extra)
  /\ penalty' = Minus(penalty, 1)
  /\ thread' = [t \in Thread |-> [thread[t] EXCEPT !.wait = Minus(@, 1)]]
  /\ gateway' = Young(Older(gateway))

Step(t) == Call(t) \/ Order(t) \/ Reserved(t) \/ OfPair(t) \/ Send(t)

ThrottleNext == (\E t \in Thread : Step(t)) \/ NoteRateLimit \/ Pass

ThrottleSpec == ThrottleInit /\ [][ThrottleNext]_throttleVars

-----------------------------------------------------------------------------
(* Properties. *)

(* However the threads interleave, the gateway sees at most Limit requests  *)
(* of each of them in a window: the race over the ledger multiplies the     *)
(* rate by the number of threads, and the excess never builds up.           *)
WindowBound == Len(gateway) <= Bound

(* A request that no other thread crossed is sent Interval after the last   *)
(* one, of whatever category and thread, and Extra later still under the    *)
(* penalty of a rate limit.                                                 *)
SpacingHolds ==
  [][\A t \in Thread : Send(t) /\ ~thread[t].crossed => last >= Interval + thread[t].extra]_throttleVars

(* Without a race there is no excess: a request that no other thread        *)
(* crossed leaves at most Limit requests in the window, unless the ledger   *)
(* was over the limit before, when the thread waits for the oldest only.    *)
NoExcessAlone ==
  [][\A t \in Thread : Send(t) /\ ~thread[t].crossed /\ ~thread[t].over
                         => Len(gateway') <= Limit]_throttleVars

(* throttle.py:279: after wait_for_request_slots neither request of an order *)
(* waits for the window again, so no quote sent before it can make the order *)
(* itself the one request too many; unless another thread took the room.     *)
PairFits ==
  [][\A t \in Thread : OfPair(t) /\ ~thread[t].shared /\ Limit >= Pair
                         => thread'[t].wait <= Interval + Extra]_throttleVars
=============================================================================

---------------------------- MODULE SingleWriter ----------------------------
(***************************************************************************)
(* What OrderGate promises ("Single logical writer for same-process        *)
(* BUY/SELL order intents", app/pipeline/order_gate.py:79-80): intents are *)
(* offered in batches, at most one of them is being written at a time, an  *)
(* intent is written at most once per offer, and a batch is only accepted  *)
(* when nothing is being written -- however late a writer finishes.        *)
(***************************************************************************)
CONSTANTS Intent, NoIntent

VARIABLES
  waiting,  \* intents offered and not disposed of
  writer    \* the intent being written, or NoIntent

vars == <<waiting, writer>>

Init == waiting = {} /\ writer = NoIntent

(* A batch is taken in when the previous one is through and nobody writes. *)
Offer(b) ==
  /\ waiting = {} /\ writer = NoIntent
  /\ waiting' = b
  /\ UNCHANGED writer

(* Intents are dropped unwritten: expired, out of budget, refused. *)
Discard ==
  /\ waiting' \in SUBSET waiting
  /\ UNCHANGED writer

Begin(i) ==
  /\ writer = NoIntent /\ i \in waiting
  /\ writer' = i
  /\ waiting' = waiting \ {i}

(* The writer is through; what waits behind it may be dropped with it. *)
Finish ==
  /\ writer # NoIntent
  /\ writer' = NoIntent
  /\ waiting' \in SUBSET waiting

Next ==
  \/ \E b \in SUBSET Intent : Offer(b)
  \/ Discard
  \/ \E i \in Intent : Begin(i)
  \/ Finish

Spec == Init /\ [][Next]_vars
=============================================================================

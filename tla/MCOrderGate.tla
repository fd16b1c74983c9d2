---------------------------- MODULE MCOrderGate -----------------------------
(* A small instance of OrderGate for TLC: what one lane cycle offers, with *)
(* the priorities of IntentPriority (app/pipeline/intents.py:12-16), the   *)
(* buy being the older one, and gates with and without a BUY handler.      *)
EXTENDS OrderGateRefinement
MCSell      == [type |-> "SELL", priority |-> 200, created |-> 1, id |-> 1]
MCBuy       == [type |-> "BUY",  priority |-> 100, created |-> 0, id |-> 2]
MCLaneBatch == {MCSell, MCBuy}
MCHandlers  == {IntentTypes, {"SELL"}}
=============================================================================

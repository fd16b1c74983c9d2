----------------------------- MODULE MCSellWatch -----------------------------
(* Small instances of SellWatch for TLC.  Two of the lists hold the same   *)
(* holdings in another order, the third has lost one to a sale.            *)
EXTENDS SellWatch

CONSTANTS a, b, c

MCOrders == {<<a, b, c>>, <<b, a, c>>, <<b, c>>}
=============================================================================

------------------------- MODULE OrderGateRefinement ------------------------
(* OrderGate implements SingleWriter. *)
EXTENDS OrderGate

(* The intent being written: the direct call's, or the live thread's. *)
WriterIntent ==
  IF pc = "inline" THEN cur
  ELSE IF \E w \in Worker : Live(w) THEN task[CHOOSE w \in Worker : Live(w)]
  ELSE NoIntent

Writer == INSTANCE SingleWriter WITH waiting <- queue, writer <- WriterIntent

(* The gate and its detached handlers, seen through the batch still        *)
(* waiting and the handler alive, behave like a single writer.             *)
ImplementsSingleWriter == Writer!Spec
=============================================================================

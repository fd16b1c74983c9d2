----------------------------- MODULE MCOrderDay -----------------------------
(* The instance of OrderDay for TLC: its symbols are interchangeable. *)
EXTENDS OrderDay, TLC

Symmetry == Permutations(Symbol)
=============================================================================

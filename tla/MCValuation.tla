----------------------------- MODULE MCValuation -----------------------------
(* Symmetry for TLC over Valuation. *)
EXTENDS Valuation, TLC

Symmetry == Permutations(Symbols) \cup Permutations(Values) \cup Permutations(Rates) \cup Permutations(Callers)
=============================================================================

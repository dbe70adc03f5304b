---------------------------- MODULE MCFundSync ----------------------------
(* Symmetry for TLC over FundSync. *)
EXTENDS FundSync, TLC

Symmetry == Permutations(Values) \cup Permutations(Assets)
=============================================================================

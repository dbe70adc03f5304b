--------------------------- MODULE MCPriceSources ---------------------------
(* Model values and symmetry for TLC over PriceSources. *)
EXTENDS PriceSources, TLC

Symmetry == Permutations(Symbols) \cup Permutations(Values)
=============================================================================

------------------------------- MODULE MC_HLC -------------------------------
(* The clocks of HLCClocks for TLC. *)
EXTENDS HLCClocks, TLC

Symmetry == Permutations(Node)
=============================================================================

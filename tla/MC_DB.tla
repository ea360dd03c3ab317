------------------------------- MODULE MC_DB -------------------------------
(* The replicated store for TLC; node identifiers are numbers, so only the *)
(* values are interchangeable.                                             *)
EXTENDS DB, TLC

Symmetry == Permutations(Value)
=============================================================================

--------------------------- MODULE MC_ObjectTable ---------------------------
(* Two threads and two objects are alike. *)
EXTENDS ObjectTable, TLC

Symmetry == Permutations(Callers) \cup Permutations(Objects)
=============================================================================

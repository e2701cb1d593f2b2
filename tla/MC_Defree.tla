------------------------------ MODULE MC_Defree -----------------------------
(* Instantiation of Defree for TLC. *)
EXTENDS Defree, TLC

CONSTANTS e1, e2

MC_Extents == {e1, e2}

(* Extents are interchangeable values. *)
Symmetry == Permutations(MC_Extents)
=============================================================================

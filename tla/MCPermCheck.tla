---------------------------- MODULE MCPermCheck ----------------------------
(* PermCheck for TLC: checks are interchangeable model values. *)
EXTENDS PermCheck, TLC

Symmetry == Permutations(Check)
=============================================================================

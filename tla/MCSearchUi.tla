------------------------------ MODULE MCSearchUi ------------------------------
(* No property names a place.                                              *)
EXTENDS SearchUi, TLC

Symmetry == Permutations(Places)
=============================================================================

------------------------------ MODULE MCCoverage ------------------------------
(* Symmetry of the editors of Coverage, for TLC.                           *)
EXTENDS Coverage, TLC

Symmetry == Permutations(Editors)
====

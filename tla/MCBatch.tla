------------------------------ MODULE MCBatch ------------------------------
(* Symmetry of the operators and dates of Batch, for TLC.                  *)
EXTENDS Batch, TLC

Symmetry == Permutations(Operators) \cup Permutations(Dates)
====

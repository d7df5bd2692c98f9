--------------------------- MODULE MCPublication ---------------------------
(* Symmetry of the processes and payloads of Publication, for TLC.         *)
EXTENDS Publication, TLC

Symmetry == Permutations(Publishers) \cup Permutations(Contents)
RepairSymmetry == Permutations(Reconcilers)
====

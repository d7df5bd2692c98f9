------------------------------ MODULE MCEventDay ------------------------------
(* Symmetry of the publishers of EventDay, for TLC.                        *)
EXTENDS EventDay, TLC

Symmetry == Permutations(Publishers)
====

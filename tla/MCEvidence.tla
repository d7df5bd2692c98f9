----------------------------- MODULE MCEvidence -----------------------------
(* Releases and symmetry of Evidence, for TLC: demographic releases that   *)
(* begin after the first year, a conflict release of the golden year alone *)
(* and one of every year, with a tie.                                      *)
EXTENDS Evidence, TLC

CONSTANTS w1, w2, c1, c2

ReleaseSource == [r \in Releases |-> IF r \in {w1, w2} THEN "wpp" ELSE "ucdp"]
ReleaseRecords == [r \in Releases |-> [y \in Years |->
    CASE r \in {w1, w2} -> IF y > 1 THEN 1 ELSE 0
      [] r = c1 -> IF y = Golden THEN 2 ELSE 0
      [] r = c2 -> IF y = Golden THEN 3 ELSE 1]]

Symmetry == Permutations(Sweepers) \cup Permutations(Publishers)
====

---------------------------- MODULE MCIngestion ----------------------------
(* Documents and symmetry of Ingestion, for TLC: one Wikidata entity by    *)
(* both ways, under one label, and documents of every other adapter.       *)
EXTENDS Ingestion, TLC

CONSTANTS w1, w2, u1, a1, g1, g2, p1

DocAdapter == [d \in Payloads |->
    CASE d = w1 -> "pinned" [] d = w2 -> "wikidata" [] d = u1 -> "usgs"
      [] d = a1 -> "annual" [] d \in {g1, g2} -> "ged" [] d = p1 -> "wpp"]
DocLabel == [d \in Payloads |-> IF d = w2 THEN w1 ELSE d]

Symmetry == Permutations(Operators) \cup Permutations(Reviewers)
====

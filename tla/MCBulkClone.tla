------------------------------ MODULE MCBulkClone ------------------------------
(* Clone jobs in a first batch and an update job, d, in a second one.          *)
EXTENDS BulkClone, TLC

CONSTANTS a, b, c, d, s1, s2

LaneOfJob  == [j \in Jobs |-> IF j = d THEN 2 ELSE 1]
BatchOfJob == [j \in Jobs |-> IF j = d THEN 2 ELSE 1]

Symmetry == Permutations(Jobs \ {d}) \union Permutations(Stoppers)
================================================================================

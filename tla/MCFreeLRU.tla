---- MODULE MCFreeLRU ----
(* Three entries at most, four keys of which three collide in one bucket.  The program adds
   no entry without a lifetime. *)
EXTENDS FreeLRU, TLC

CONSTANTS k1, k2, k3, k4

MCBucket(k) == IF k = k4 THEN 1 ELSE 0

Symmetry == Permutations({k1, k2, k3}) \cup Permutations(Values)
====

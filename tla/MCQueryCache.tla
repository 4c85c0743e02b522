---------------------------- MODULE MCQueryCache ----------------------------
(* Instances of QueryCache for TLC. *)
EXTENDS QueryCache, TLC

CONSTANTS p1, f1, f2, w1

FlushSymmetry == Permutations(Flushes)
=============================================================================

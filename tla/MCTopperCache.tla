---------------------------- MODULE MCTopperCache ----------------------------
(* Requests over a few keys. *)
EXTENDS TopperCache, TLC

CONSTANTS c1, c2, c3, k1, k2, k3

CacheSymmetry == Permutations(Callers) \cup Permutations(Paths)
=============================================================================

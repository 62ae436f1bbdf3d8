--------------------------- MODULE MCRefCount ---------------------------
(* RefCount on a small instance for TLC: threads and objects are               *)
(* interchangeable.                                                            *)
EXTENDS RefCount, TLC

Symmetry == Permutations(Threads) \cup Permutations(Objects)
=============================================================================

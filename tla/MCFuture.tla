------------------------------ MODULE MCFuture ------------------------------
(* Future on small instances: two threads race on up to three cells.        *)
EXTENDS Future, TLC

\* Threads and cells are interchangeable; used only for safety.
Symmetry == Permutations(Threads) \cup Permutations(Cells)
=============================================================================

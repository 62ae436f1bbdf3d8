-------------------------- MODULE MCTransportClient --------------------------
(* TransportClient on small instances: a few requests, a few ticks.         *)
EXTENDS TransportClient, TLC

\* Requests are interchangeable; used only for safety.
Symmetry == Permutations(Reqs)
=============================================================================

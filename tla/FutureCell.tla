----------------------------- MODULE FutureCell -----------------------------
(***************************************************************************)
(* What a future promises to its users, with no threads, locks, executors  *)
(* or chains in sight.  Each cell is a write-once result with at most one  *)
(* continuation.  The result is delivered to the continuation at most      *)
(* once, never before it is settled, and a continuation that is never      *)
(* going to see a result is dropped, which also happens at most once.      *)
(* Module Future shows that the code's states implement this.              *)
(***************************************************************************)
EXTENDS Naturals

CONSTANT Cells     \* the shared states of all promises and futures

VARIABLES
    result,        \* result[s]: "pending", or what the cell was settled with
    attached,      \* attached[s]: how many continuations were put on s
    delivered,     \* delivered[s]: how many times a continuation got the result
    dropped        \* dropped[s]: how many times a continuation was discarded

cellVars == <<result, attached, delivered, dropped>>

\* A value, an exception of the producer, or the library's "Broken Promise".
Settled == {"val", "exc", "broken"}

Init ==
    /\ result = [s \in Cells |-> "pending"]
    /\ attached = [s \in Cells |-> 0]
    /\ delivered = [s \in Cells |-> 0]
    /\ dropped = [s \in Cells |-> 0]

Settle(s) ==
    /\ result[s] = "pending"
    /\ \E r \in Settled : result' = [result EXCEPT ![s] = r]
    /\ UNCHANGED <<attached, delivered, dropped>>

Attach(s) ==
    /\ attached[s] = 0
    /\ attached' = [attached EXCEPT ![s] = 1]
    /\ UNCHANGED <<result, delivered, dropped>>

\* A continuation that was attached and has neither run nor been discarded.
Waiting(s) == attached[s] = 1 /\ delivered[s] = 0 /\ dropped[s] = 0

Deliver(s) ==
    /\ Waiting(s)
    /\ result[s] # "pending"
    /\ delivered' = [delivered EXCEPT ![s] = 1]
    /\ UNCHANGED <<result, attached, dropped>>

Drop(s) ==
    /\ Waiting(s)
    /\ dropped' = [dropped EXCEPT ![s] = 1]
    /\ UNCHANGED <<result, attached, delivered>>

CellNext == \E s \in Cells : Settle(s) \/ Attach(s) \/ Deliver(s) \/ Drop(s)

CellSafety == Init /\ [][CellNext]_cellVars

\* Once a cell is settled, a waiting continuation does not wait for ever.
CellFairness ==
    \A s \in Cells : WF_cellVars(result[s] # "pending" /\ (Deliver(s) \/ Drop(s)))

CellSpec == CellSafety /\ CellFairness
=============================================================================

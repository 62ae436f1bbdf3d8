--------------------------- MODULE MCCombinators ---------------------------
(* Three gathers, one of them empty and one whose continuation feeds both    *)
(* itself and another, and, in behaviours of its own, a cancellation.        *)
EXTENDS Gather, Broadcast

VARIABLE scene

MCList == [g \in Gathers |-> CASE g = "inner" -> <<"a", "b", "e">>
                               [] g = "outer" -> <<"f", "c">>
                               [] OTHER -> << >>]
MCFeeds == [g \in Gathers |-> IF g = "inner" THEN <<"f", "e">> ELSE << >>]

MCInit == Init /\ BroadcastInit /\ scene \in {"gather", "cancel"}

MCNext ==
    \/ scene = "gather" /\ GatherNext /\ UNCHANGED <<scene, broadcastVars>>
    \/ scene = "cancel" /\ BroadcastNext /\ UNCHANGED <<scene, vars>>

\* Liveness is about the gathers: a behaviour that cancels leaves them alone, and
\* is checked for its invariants only.
MCSpec ==
    /\ MCInit /\ [][MCNext]_<<scene, vars, broadcastVars>>
    /\ GatherFairness
=============================================================================

-------------------------- MODULE MCTransportServer --------------------------
(* TransportServer on every message of up to MaxParts parts, on those that  *)
(* handleBatch takes for requests, or on those that                         *)
(* IAsyncTransport::SendBatch itself produces.                              *)
EXTENDS TransportServer

AnyMessages == UNION {[1 .. n -> Kinds] : n \in 1 .. MaxParts}

RequestMessages == {m \in AnyMessages : m[1] # "blank"}

\* SendBatch puts the notifications of a batch before its methods.
ClientMessages ==
    {m \in AnyMessages :
        /\ \A k \in DOMAIN m : m[k] \notin {"bad", "blank"}
        /\ \A k, l \in DOMAIN m : m[l] = "notify" /\ k < l => m[k] = "notify"}
=============================================================================

----------------------------- MODULE GatherSpec -----------------------------
(***************************************************************************)
(* What Gather and GatherTuple promise: one output for several inputs.  It *)
(* settles once, with the values of all inputs when all of them have one,  *)
(* or with an exception when one of them failed, and as soon as it can     *)
(* settle it will.  Module Gather shows that the code does this.           *)
(***************************************************************************)
EXTENDS Naturals, Sequences

CONSTANTS
    Gathers,       \* the calls of Gather
    Sources,       \* the futures that are gathered
    List           \* List[g]: the futures handed to g

VARIABLES
    input,         \* input[s]: "pending", "val" or "exc"
    output         \* output[g]: the same for the gathered future

specVars == <<input, output>>

Of(g) == {List[g][i] : i \in DOMAIN List[g]}

SpecInit ==
    /\ input = [s \in Sources |-> "pending"]
    /\ output = [g \in Gathers |-> "pending"]

Resolve(s) ==
    /\ input[s] = "pending"
    /\ \E r \in {"val", "exc"} : input' = [input EXCEPT ![s] = r]
    /\ UNCHANGED output

Settle(g) ==
    /\ output[g] = "pending"
    /\ \/ /\ \A s \in Of(g) : input[s] = "val"
          /\ output' = [output EXCEPT ![g] = "val"]
       \/ /\ \E s \in Of(g) : input[s] = "exc"
          /\ output' = [output EXCEPT ![g] = "exc"]
    /\ UNCHANGED input

SpecNext == (\E s \in Sources : Resolve(s)) \/ (\E g \in Gathers : Settle(g))

SafeSpec == SpecInit /\ [][SpecNext]_specVars

GatherPromise == SafeSpec /\ \A g \in Gathers : WF_specVars(Settle(g))
=============================================================================

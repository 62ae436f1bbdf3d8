------------------------------- MODULE Gather -------------------------------
(***************************************************************************)
(* Gather and GatherTuple (include/future/gather.hpp) and ToStdFuture      *)
(* (to_std_fut.hpp), used by several threads.                              *)
(*                                                                         *)
(* A gather attaches a handler to each of its futures; whoever resolves    *)
(* the future, or attaches to one that is resolved already, runs the       *)
(* handler, under the recursive mutex of the gather.  The handler that     *)
(* settles the output runs the output's continuation before it unlocks,    *)
(* and that continuation may resolve futures of other gathers (Feeds).     *)
(* The futures themselves are those of module FutureCell: attaching and    *)
(* resolving are atomic and the handler runs once.                         *)
(***************************************************************************)
EXTENDS Naturals, Sequences, SequencesExt, FiniteSets

CONSTANTS
    Gathers,       \* the calls of Gather
    Sources,       \* the futures that are gathered
    List,          \* List[g]: the futures handed to g
    Feeds,         \* Feeds[g]: the futures the continuation of g resolves
    Caller,        \* the thread that calls Gather and waits for the results
    Workers,       \* the threads that resolve the other futures
    None           \* no thread

Of(g) == Range(List[g])
Threads == Workers \cup {Caller}
Fed == UNION {Range(Feeds[g]) : g \in Gathers}

\* The continuation of g ends up in the handlers of h.
FeedsInto(g, h) == Range(Feeds[g]) \cap Of(h) # {}

ASSUME GathersAssumption ==
    /\ Caller \notin Workers /\ None \notin Threads
    /\ List \in [Gathers -> Seq(Sources)] /\ Feeds \in [Gathers -> Seq(Sources)]
    /\ \A g \in Gathers : IsInjective(List[g])
    /\ \A g, h \in Gathers : g # h => Of(g) \cap Of(h) = {}

\* A continuation may lead back to its own gather, whose mutex is recursive, but
\* not through another one: two gathers that fed each other could wait for each
\* other's mutex.
ASSUME FeedsAssumption ==
    \E rank \in [Gathers -> 1 .. Cardinality(Gathers)] :
        \A g, h \in Gathers : g # h /\ FeedsInto(g, h) => rank[g] < rank[h]

VARIABLES
    src,           \* src[s]: "pending", "val" or "exc"
    attached,      \* futures whose handler is attached
    started,       \* gathers that were called
    left,          \* GatherCtx::left; TupleGatherCtx counts up instead
    results,       \* results[g]: the futures whose value was stored
    out,           \* out[g]: what the gathered future was settled with
    given,         \* given[g]: the results that went into it
    owner,         \* owner[g]: the thread that holds the mutex
    depth,         \* depth[g]: how many times it holds it
    stack          \* stack[t]: what thread t is doing

vars == <<src, attached, started, left, results, out, given, owner, depth, stack>>

\* A step of a thread: attach the n-th handler, lock for future s, handle it,
\* resolve the n-th of the fed futures, unlock, or wait for the result.
Frame(at, g, s, n) == [at |-> at, g |-> g, s |-> s, n |-> n]
Steps == {"attach", "lock", "handle", "cont", "unlock", "get"}

TypeOK ==
    /\ src \in [Sources -> {"pending", "val", "exc"}]
    /\ attached \subseteq Sources /\ started \subseteq Gathers
    /\ \A g \in Gathers : left[g] \in 0 .. Len(List[g]) /\ depth[g] \in Nat
    /\ results \in [Gathers -> SUBSET Sources] /\ given \in [Gathers -> SUBSET Sources]
    /\ out \in [Gathers -> {"pending", "val", "exc"}]
    /\ owner \in [Gathers -> Threads \cup {None}]
    /\ \A t \in Threads : \A i \in DOMAIN stack[t] :
          stack[t][i].at \in Steps /\ stack[t][i].g \in Gathers

Init ==
    /\ src = [s \in Sources |-> "pending"]
    /\ attached = {} /\ started = {}
    /\ left = [g \in Gathers |-> Len(List[g])]
    /\ results = [g \in Gathers |-> {}] /\ given = [g \in Gathers |-> {}]
    /\ out = [g \in Gathers |-> "pending"]
    /\ owner = [g \in Gathers |-> None] /\ depth = [g \in Gathers |-> 0]
    /\ stack = [t \in Threads |-> << >>]

Top(t) == stack[t][Len(stack[t])]
Doing(t, at) == stack[t] # << >> /\ Top(t).at = at
Become(t, frames) == stack' = [stack EXCEPT ![t] = Front(@) \o frames]

GatherOf(s) == CHOOSE g \in Gathers : s \in Of(g)

\* The handler of s runs on the thread that completes s, if it is attached.
Handler(s) == IF s \in attached THEN <<Frame("lock", GatherOf(s), s, 0)>> ELSE << >>

-----------------------------------------------------------------------------
\* Gather: an empty list is resolved at once.
CallGather(g) ==
    /\ stack[Caller] = << >> /\ g \notin started
    /\ started' = started \cup {g}
    /\ IF List[g] = << >>
       THEN out' = [out EXCEPT ![g] = "val"] /\ UNCHANGED stack
       ELSE /\ stack' = [stack EXCEPT ![Caller] = <<Frame("attach", g, None, 1)>>]
            /\ UNCHANGED out
    /\ UNCHANGED <<src, attached, left, results, given, owner, depth>>

\* The loop of Gather: AtLastSync on the next future, whose handler runs at once
\* if the future is resolved.
Attach ==
    LET f == Top(Caller)
        s == List[f.g][f.n]
        on == IF f.n < Len(List[f.g]) THEN <<[f EXCEPT !.n = @ + 1]>> ELSE << >>
    IN  /\ Doing(Caller, "attach")
        /\ attached' = attached \cup {s}
        /\ Become(Caller, on \o (IF src[s] # "pending"
                                 THEN <<Frame("lock", f.g, s, 0)>> ELSE << >>))
        /\ UNCHANGED <<src, started, left, results, out, given, owner, depth>>

\* A worker resolves or rejects a future.
ResolveSource(t, s) ==
    /\ stack[t] = << >> /\ src[s] = "pending" /\ s \notin Fed
    /\ \E r \in {"val", "exc"} : src' = [src EXCEPT ![s] = r]
    /\ stack' = [stack EXCEPT ![t] = Handler(s)]
    /\ UNCHANGED <<attached, started, left, results, out, given, owner, depth>>

\* std::lock_guard on a recursive_mutex.
Lock(t) ==
    LET g == Top(t).g IN
    /\ Doing(t, "lock") /\ owner[g] \in {None, t}
    /\ owner' = [owner EXCEPT ![g] = t] /\ depth' = [depth EXCEPT ![g] = @ + 1]
    /\ Become(t, <<[Top(t) EXCEPT !.at = "handle"]>>)
    /\ UNCHANGED <<src, attached, started, left, results, out, given>>

\* Seeded faults: the last result is not waited for; an error is not reported.
HandleEarly(g, s) ==
    LET settles == (src[s] = "exc" \/ left[g] <= 2) /\ out[g] = "pending" IN
    /\ results' = IF src[s] = "val" THEN [results EXCEPT ![g] = @ \cup {s}] ELSE results
    /\ left' = IF src[s] = "val" THEN [left EXCEPT ![g] = @ - 1] ELSE left
    /\ out' = IF settles THEN [out EXCEPT ![g] = src[s]] ELSE out
    /\ given' = IF settles THEN [given EXCEPT ![g] = results'[g]] ELSE given

HandleQuietly(g, s) ==
    LET settles == left[g] = 1 /\ src[s] = "val" /\ out[g] = "pending" IN
    /\ results' = IF src[s] = "val" THEN [results EXCEPT ![g] = @ \cup {s}] ELSE results
    /\ left' = IF src[s] = "val" THEN [left EXCEPT ![g] = @ - 1] ELSE left
    /\ out' = IF settles THEN [out EXCEPT ![g] = src[s]] ELSE out
    /\ given' = IF settles THEN [given EXCEPT ![g] = results'[g]] ELSE given

\* What GatherHandler does with the result of s: store it and settle the output
\* with the last one, or settle it with the error.  A promise that was fulfilled
\* ignores the call.
HandleResult(g, s) ==
    LET settles == (src[s] = "exc" \/ left[g] = 1) /\ out[g] = "pending" IN
    /\ results' = IF src[s] = "val" THEN [results EXCEPT ![g] = @ \cup {s}] ELSE results
    /\ left' = IF src[s] = "val" THEN [left EXCEPT ![g] = @ - 1] ELSE left
    /\ out' = IF settles THEN [out EXCEPT ![g] = src[s]] ELSE out
    /\ given' = IF settles THEN [given EXCEPT ![g] = results'[g]] ELSE given

\* GatherHandler under the lock; if it settles the output, the output's
\* continuation runs before the lock is released.
RunHandler(t) ==
    LET f == Top(t) IN
    /\ Doing(t, "handle")
    /\ HandleResult(f.g, f.s)
    /\ Become(t, <<[f EXCEPT !.at = "unlock"]>>
                 \o (IF out' # out /\ Feeds[f.g] # << >>
                     THEN <<Frame("cont", f.g, None, 1)>> ELSE << >>))
    /\ UNCHANGED <<src, attached, started, owner, depth>>

\* The continuation of the output resolves the next of the futures it feeds.
Continue(t) ==
    LET f == Top(t)
        s == Feeds[f.g][f.n]
        on == IF f.n < Len(Feeds[f.g]) THEN <<[f EXCEPT !.n = @ + 1]>> ELSE << >>
    IN  /\ Doing(t, "cont")
        /\ src' = IF src[s] = "pending" THEN [src EXCEPT ![s] = out[f.g]] ELSE src
        /\ Become(t, on \o (IF src[s] = "pending" THEN Handler(s) ELSE << >>))
        /\ UNCHANGED <<attached, started, left, results, out, given, owner, depth>>

\* The lock_guard goes out of scope.
Unlock(t) ==
    LET g == Top(t).g IN
    /\ Doing(t, "unlock")
    /\ depth' = [depth EXCEPT ![g] = @ - 1]
    /\ owner' = IF depth[g] = 1 THEN [owner EXCEPT ![g] = None] ELSE owner
    /\ Become(t, << >>)
    /\ UNCHANGED <<src, attached, started, left, results, out, given>>

\* ToStdFuture and get(): the caller waits for the output of a gather.
ToStdFuture(g) ==
    /\ stack[Caller] = << >> /\ started = Gathers /\ out[g] = "pending"
    /\ stack' = [stack EXCEPT ![Caller] = <<Frame("get", g, None, 0)>>]
    /\ UNCHANGED <<src, attached, started, left, results, out, given, owner, depth>>

GetReturns ==
    /\ Doing(Caller, "get") /\ out[Top(Caller).g] # "pending"
    /\ Become(Caller, << >>)
    /\ UNCHANGED <<src, attached, started, left, results, out, given, owner, depth>>

-----------------------------------------------------------------------------
Step(t) == Lock(t) \/ RunHandler(t) \/ Continue(t) \/ Unlock(t)
Work(t) == Step(t) \/ \E s \in Sources : ResolveSource(t, s)
Call == Attach \/ GetReturns \/ Step(Caller) \/ \E g \in Gathers : CallGather(g)

\* All threads are done; a gather that waits for a future only its own
\* continuation would resolve stays open, and so does a caller that waits for it.
Finished ==
    /\ \A s \in Sources \ Fed : src[s] # "pending"
    /\ \A t \in Workers : stack[t] = << >>
    /\ stack[Caller] # << >> => Doing(Caller, "get") /\ out[Top(Caller).g] = "pending"
    /\ started = Gathers
    /\ UNCHANGED vars

GatherNext ==
    \/ Call \/ \E t \in Workers : Work(t)
    \/ \E g \in Gathers : ToStdFuture(g)
    \/ Finished

\* The caller makes its calls, and every future is resolved by some worker.
GatherFairness == WF_vars(Call) /\ \A t \in Workers : WF_vars(Work(t))

Spec == Init /\ [][GatherNext]_vars
FairSpec == Spec /\ GatherFairness

-----------------------------------------------------------------------------
\* Properties.

\* Whichever threads resolve the futures, the output is settled once, with a value
\* only when every future has one and with an exception only when one failed, and
\* it is always settled in the end: no handler is lost, and handlers that settle
\* gathers from inside of other handlers do not block each other.
Promise == INSTANCE GatherSpec WITH input <- src, output <- out
KeepsPromise == Promise!GatherPromise

\* The vector of results is complete when it is moved into the promise.
ValuesComplete == \A g \in Gathers : out[g] = "val" => given[g] = Of(g)
=============================================================================

----------------------------- MODULE Broadcast -----------------------------
(***************************************************************************)
(* CancelController and CancelSignal (include/future/cancel_token.hpp) on  *)
(* a MultiFuture (multi_future.hpp): one promise, and a vector of promises *)
(* that are fulfilled from it, one for each subscriber.                    *)
(*                                                                         *)
(* There is no lock: all calls come from one thread, but they nest, as a   *)
(* subscriber's callback may subscribe again.  loop is the loop over the   *)
(* vector, inside of which callbacks run.  When a callback makes the       *)
(* vector reallocate, the loop goes on in memory that was freed: what it   *)
(* finds there is undefined, and in the model the rest of the loop either  *)
(* does nothing or works as if the vector had not moved.                   *)
(***************************************************************************)
EXTENDS Naturals, Sequences

CONSTANTS
    MaxSubs,       \* bound: subscriptions in one behaviour
    Deferred       \* subscribers whose callback goes to an executor

Subs == 1 .. MaxSubs

ASSUME SubsAssumption == MaxSubs \in Nat /\ Deferred \subseteq Subs

VARIABLES
    controller,    \* "open", "cancelled" or "destroyed"
    done,          \* MultiState::done and exc: "no", "val" or "exc"
    proms,         \* MultiState::proms: what each promise was fulfilled with
    capacity,      \* how many promises fit before the vector moves
    calls,         \* calls[k]: how many times the callback of k was called
    jobs,          \* callbacks that are waiting in an executor
    loop,          \* the next promise of the loop, 0 when it is not running
    last,          \* the end of the loop, fixed when it starts
    callback,      \* a callback is running
    moved          \* the vector moved while the loop was running

broadcastVars == <<controller, done, proms, capacity, calls, jobs, loop, last, callback, moved>>

BroadcastInit ==
    /\ controller = "open" /\ done = "no"
    /\ proms = << >> /\ capacity = 0
    /\ calls = [k \in Subs |-> 0] /\ jobs = {}
    /\ loop = 0 /\ last = 0 /\ callback = FALSE /\ moved = FALSE

\* A user may act: nothing of the library is running, or a callback is.
Free == callback \/ loop = 0

\* Seeded fault: the callback of OnCancel also runs for an exception.
OnCancelAlways(k, r) ==
    /\ jobs' = IF k \in Deferred THEN jobs \cup {k} ELSE jobs
    /\ calls' = IF k \in Deferred THEN calls ELSE [calls EXCEPT ![k] = @ + 1]
    /\ callback' = (callback \/ k \notin Deferred)

\* OnCancel's continuation, when the promise of k gets r: an exception (the
\* controller went away) is swallowed.
OnCancel(k, r) ==
    /\ jobs' = IF r = "val" /\ k \in Deferred THEN jobs \cup {k} ELSE jobs
    /\ calls' = IF r = "val" /\ k \notin Deferred THEN [calls EXCEPT ![k] = @ + 1] ELSE calls
    /\ callback' = (callback \/ (r = "val" /\ k \notin Deferred))

\* Seeded fault: a promise made after the result is left open.
PromForgets ==
    /\ proms' = Append(proms, "open")
    /\ UNCHANGED <<calls, jobs, callback>>

\* prom: a new promise, fulfilled at once if the result is there (tryRes).
Prom ==
    LET k == Len(proms) + 1 IN
    /\ proms' = Append(proms, IF done = "no" THEN "open" ELSE done)
    /\ IF done = "no" THEN UNCHANGED <<calls, jobs, callback>> ELSE OnCancel(k, done)

\* CancelSignal::OnCancel: GetFuture and AtLast.  The vector doubles when full.
Subscribe ==
    /\ Free /\ Len(proms) < MaxSubs
    /\ Prom
    /\ capacity' = IF Len(proms) < capacity THEN capacity
                   ELSE IF capacity = 0 THEN 1 ELSE 2 * capacity
    /\ moved' = (moved \/ (loop # 0 /\ Len(proms) = capacity))
    /\ UNCHANGED <<controller, done, loop, last>>

\* The callback of the constructor: the result is stored and the loop starts.
Settle(r) ==
    /\ done' = r /\ loop' = 1 /\ last' = Len(proms)
    /\ UNCHANGED <<proms, capacity, calls, jobs, callback, moved>>

\* CancelController::operator(): a second call finds the promise fulfilled.
Cancel ==
    /\ Free /\ ~callback /\ controller = "open"
    /\ controller' = "cancelled" /\ Settle("val")

\* ~CancelController: a promise that was not fulfilled breaks.
DestroyController ==
    /\ Free /\ ~callback /\ controller = "open"
    /\ controller' = "destroyed" /\ Settle("exc")

\* tryRes on the next promise of the loop.
TryRes ==
    /\ loop \in 1 .. last /\ ~callback
    /\ loop' = loop + 1
    /\ \/ /\ proms[loop] = "open"
          /\ proms' = [proms EXCEPT ![loop] = done]
          /\ OnCancel(loop, done)
       \/ moved /\ UNCHANGED <<proms, calls, jobs, callback>>
    /\ UNCHANGED <<controller, done, capacity, last, moved>>

LoopEnds ==
    /\ loop > last /\ ~callback /\ loop' = 0 /\ last' = 0
    /\ UNCHANGED <<controller, done, proms, capacity, calls, jobs, callback, moved>>

CallbackReturns ==
    /\ callback /\ callback' = FALSE
    /\ UNCHANGED <<controller, done, proms, capacity, calls, jobs, loop, last, moved>>

\* An executor runs a callback.
RunJob(k) ==
    /\ Free /\ ~callback /\ k \in jobs
    /\ jobs' = jobs \ {k} /\ calls' = [calls EXCEPT ![k] = @ + 1] /\ callback' = TRUE
    /\ UNCHANGED <<controller, done, proms, capacity, loop, last, moved>>

BroadcastNext ==
    \/ Subscribe \/ Cancel \/ DestroyController \/ TryRes \/ LoopEnds \/ CallbackReturns
    \/ \E k \in Deferred : RunJob(k)
    \/ controller # "open" /\ loop = 0 /\ ~callback /\ jobs = {} /\ UNCHANGED broadcastVars

-----------------------------------------------------------------------------
\* Properties.

\* A callback of OnCancel runs once at most, and only if the controller was
\* called: never because the controller was destroyed.
CalledOnlyByCancel ==
    \A k \in Subs : calls[k] <= 1 /\ (calls[k] = 1 => controller = "cancelled")

\* When cancelling has come to rest, everybody who subscribed, before it, after
\* it or from a callback in the middle of it, was called or is in the hands of an
\* executor, unless the vector moved under the loop.
CancelReachesAll ==
    controller = "cancelled" /\ loop = 0 /\ ~moved =>
        \A k \in DOMAIN proms : proms[k] = "val" /\ (calls[k] = 1 \/ k \in jobs)
=============================================================================

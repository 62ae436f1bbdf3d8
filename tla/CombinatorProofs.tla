-------------------------- MODULE CombinatorProofs --------------------------
(***************************************************************************)
(* Theorems about modules Broadcast and Gather, for any number of          *)
(* subscribers, gathers, futures and threads.                              *)
(***************************************************************************)
EXTENDS Gather, Broadcast, SequenceTheorems, FiniteSetTheorems, TLAPS

-----------------------------------------------------------------------------
\* Broadcast.

BroadcastSpec == BroadcastInit /\ [][BroadcastNext]_broadcastVars

BroadcastType ==
    /\ controller \in {"open", "cancelled", "destroyed"} /\ done \in {"no", "val", "exc"}
    /\ proms \in Seq({"open", "val", "exc"}) /\ Len(proms) <= MaxSubs
    /\ calls \in [Subs -> Nat] /\ jobs \subseteq Subs
    /\ loop \in Nat /\ last \in Nat
    /\ callback \in BOOLEAN /\ moved \in BOOLEAN

\* The result is there once the controller was called or destroyed, and the loop
\* only runs over promises that were there when it began.
LoopInv ==
    /\ done = "no" <=> controller = "open"
    /\ done = "val" <=> controller = "cancelled"
    /\ loop # 0 => done # "no" /\ loop <= last + 1
    /\ last <= Len(proms)

\* What became of the callback of subscriber k: it was called or is in a job, never
\* both and never twice, exactly if its promise got a value; and a promise that has
\* no result yet is still ahead of the loop, unless the vector moved.
SubscriberInv(k) ==
    IF k \notin DOMAIN proms
    THEN calls[k] = 0 /\ k \notin jobs
    ELSE /\ proms[k] \in {"open", done}
         /\ proms[k] = "val" => IF k \in jobs THEN calls[k] = 0 ELSE calls[k] = 1
         /\ proms[k] # "val" => calls[k] = 0 /\ k \notin jobs
         /\ proms[k] = "open" => done = "no" \/ moved \/ (0 < loop /\ loop <= k /\ k <= last)

BroadcastInv == BroadcastType /\ LoopInv /\ \A k \in Subs : SubscriberInv(k)

\* Nobody has subscribed at first.
LEMMA BroadcastInitInv == BroadcastInit => BroadcastInv
<1> SUFFICES ASSUME BroadcastInit PROVE BroadcastInv
  OBVIOUS
<1>1. proms = << >> /\ DOMAIN proms = {} /\ Len(proms) = 0
  BY DEF BroadcastInit
<1>2. BroadcastType
  <2>1. callback \in BOOLEAN /\ moved \in BOOLEAN
    BY DEF BroadcastInit
  <2> QED BY <1>1, <2>1, SubsAssumption DEF BroadcastInit, BroadcastType, Subs
<1> QED
  BY <1>1, <1>2, SubsAssumption DEF BroadcastInit, BroadcastInv, LoopInv, SubscriberInv, Subs

\* OnCancel::Subscribe adds a promise behind the others: whether it is fulfilled
\* at once is a matter of whether the result is there, not of the loop.
LEMMA SubscribeInv ==
    ASSUME BroadcastInv, Subscribe
    PROVE  BroadcastInv'
<1> DEFINE n == Len(proms) + 1
           r == IF done = "no" THEN "open" ELSE done
<1>1. n \in Subs /\ n \in Nat /\ r \in {"open", "val", "exc"}
  BY SubsAssumption DEF BroadcastInv, BroadcastType, Subscribe, Subs
<1>2. /\ proms \in Seq({"open", "val", "exc"}) /\ proms' = Append(proms, r)
      /\ proms' \in Seq({"open", "val", "exc"}) /\ Len(proms') = n
      /\ proms'[n] = r /\ \A k \in 1 .. Len(proms) : proms'[k] = proms[k]
  BY <1>1 DEF BroadcastInv, BroadcastType, Subscribe, Prom
<1>3. /\ n \notin jobs /\ calls[n] = 0
  BY <1>1, <1>2 DEF BroadcastInv, SubscriberInv
<1>4. /\ UNCHANGED <<controller, done, loop, last>>
      /\ moved' \in BOOLEAN /\ (moved => moved')
  BY DEF Subscribe, BroadcastInv, BroadcastType
<1>5. CASE done = "no" \/ done # "val"
  <2>1. calls' = calls /\ jobs' = jobs /\ callback' \in BOOLEAN
    BY <1>5 DEF Subscribe, Prom, OnCancel, BroadcastInv, BroadcastType
  <2>2. BroadcastType'
    BY <1>1, <1>2, <1>4, <2>1 DEF BroadcastInv, BroadcastType, Subs
  <2>3. LoopInv'
    BY <1>2, <1>4 DEF BroadcastInv, BroadcastType, LoopInv
  <2>4. ASSUME NEW k \in Subs PROVE SubscriberInv(k)'
    BY <1>1, <1>2, <1>3, <1>4, <1>5, <2>1, <2>4 DEF BroadcastInv, BroadcastType, LoopInv, SubscriberInv, Subs
  <2> QED BY <2>2, <2>3, <2>4 DEF BroadcastInv
<1>6. CASE done = "val"
  <2>1. /\ jobs' = IF n \in Deferred THEN jobs \cup {n} ELSE jobs
        /\ calls' = IF n \notin Deferred THEN [calls EXCEPT ![n] = @ + 1] ELSE calls
        /\ callback' \in BOOLEAN
    BY <1>6 DEF Subscribe, Prom, OnCancel, BroadcastInv, BroadcastType
  <2>2. BroadcastType'
    <3>1. calls' \in [Subs -> Nat] /\ jobs' \subseteq Subs
      BY <1>1, <2>1 DEF BroadcastInv, BroadcastType
    <3>2. Len(proms') <= MaxSubs
      BY <1>1, <1>2, SubsAssumption DEF Subs
    <3> QED BY <1>2, <1>4, <2>1, <3>1, <3>2 DEF BroadcastInv, BroadcastType
  <2>3. LoopInv'
    BY <1>2, <1>4 DEF BroadcastInv, BroadcastType, LoopInv
  <2>4. ASSUME NEW k \in Subs PROVE SubscriberInv(k)'
    BY <1>1, <1>2, <1>3, <1>4, <1>6, <2>1, <2>4 DEF BroadcastInv, BroadcastType, LoopInv, SubscriberInv, Subs
  <2> QED BY <2>2, <2>3, <2>4 DEF BroadcastInv
<1> QED BY <1>5, <1>6

\* The controller is called or goes away: the loop begins at the first promise.
LEMMA SettleInv ==
    ASSUME BroadcastInv, Cancel \/ DestroyController
    PROVE  BroadcastInv'
<1>1. BroadcastType' /\ LoopInv'
  BY DEF BroadcastInv, BroadcastType, LoopInv, Cancel, DestroyController, Settle, Free
<1>2. ASSUME NEW k \in Subs PROVE SubscriberInv(k)'
  BY <1>2, SubsAssumption DEF BroadcastInv, BroadcastType, LoopInv, SubscriberInv, Cancel,
     DestroyController, Settle, Free, Subs
<1> QED BY <1>1, <1>2 DEF BroadcastInv

\* One round of the loop: the promise it is at gets the result, or, in a vector that
\* moved, nothing happens to it.
LEMMA TryResInv ==
    ASSUME BroadcastInv, TryRes
    PROVE  BroadcastInv'
<1>1. loop \in 1 .. Len(proms) /\ loop \in Subs /\ done \in {"val", "exc"} /\ loop <= last
  BY SubsAssumption DEF BroadcastInv, BroadcastType, LoopInv, TryRes, Subs
<1>2. UNCHANGED <<controller, done, last, moved>> /\ loop' = loop + 1
  BY DEF TryRes
<1>3. CASE proms[loop] = "open" /\ proms' = [proms EXCEPT ![loop] = done] /\ OnCancel(loop, done)
  <2>1. calls[loop] = 0 /\ loop \notin jobs
    BY <1>1, <1>3 DEF BroadcastInv, BroadcastType, SubscriberInv
  <2>2. BroadcastType'
    BY <1>1, <1>2, <1>3 DEF BroadcastInv, BroadcastType, OnCancel
  <2>3. LoopInv'
    BY <1>1, <1>2, <1>3 DEF BroadcastInv, BroadcastType, LoopInv
  <2>4. ASSUME NEW k \in Subs PROVE SubscriberInv(k)'
    BY <1>1, <1>2, <1>3, <2>1, <2>4 DEF BroadcastInv, BroadcastType, LoopInv, SubscriberInv, OnCancel, Subs
  <2> QED BY <2>2, <2>3, <2>4 DEF BroadcastInv
<1>4. CASE moved /\ UNCHANGED <<proms, calls, jobs, callback>>
  BY <1>1, <1>2, <1>4 DEF BroadcastInv, BroadcastType, LoopInv, SubscriberInv, Subs
<1> QED BY <1>3, <1>4 DEF TryRes

\* Everything else: the loop ends behind the last promise, a callback returns, an
\* executor calls what it was given.
LEMMA OtherInv ==
    ASSUME BroadcastInv, LoopEnds \/ CallbackReturns \/ (\E k \in Deferred : RunJob(k))
    PROVE  BroadcastInv'
<1>1. CASE LoopEnds
  BY <1>1 DEF BroadcastInv, BroadcastType, LoopInv, SubscriberInv, LoopEnds, Subs
<1>2. CASE CallbackReturns
  BY <1>2 DEF BroadcastInv, BroadcastType, LoopInv, SubscriberInv, CallbackReturns, Subs
<1>3. ASSUME NEW k \in Deferred, RunJob(k) PROVE BroadcastInv'
  <2>1. k \in Subs /\ k \in jobs /\ calls[k] = 0 /\ k \in DOMAIN proms /\ proms[k] = "val"
    BY <1>3, SubsAssumption DEF BroadcastInv, BroadcastType, SubscriberInv, RunJob
  <2> QED
    BY <1>3, <2>1 DEF BroadcastInv, BroadcastType, LoopInv, SubscriberInv, RunJob, Subs
<1> QED BY <1>1, <1>2, <1>3

\* BroadcastInv is inductive.
LEMMA BroadcastStepInv == BroadcastInv /\ [BroadcastNext]_broadcastVars => BroadcastInv'
<1> SUFFICES ASSUME BroadcastInv, [BroadcastNext]_broadcastVars PROVE BroadcastInv'
  OBVIOUS
<1>1. CASE UNCHANGED broadcastVars
  BY <1>1 DEF broadcastVars, BroadcastInv, BroadcastType, LoopInv, SubscriberInv
<1> QED
  BY <1>1, SubscribeInv, SettleInv, TryResInv, OtherInv DEF BroadcastNext

LEMMA BroadcastInvariant == BroadcastSpec => []BroadcastInv
BY BroadcastInitInv, BroadcastStepInv, PTL DEF BroadcastSpec

\* A callback of CancelSignal::OnCancel is called at most once, and only because
\* the controller was called, for any number of subscribers and any nesting of
\* subscriptions in callbacks.
THEOREM CallbackOnce == BroadcastSpec => []CalledOnlyByCancel
<1>1. BroadcastInv => CalledOnlyByCancel
  BY DEF BroadcastInv, BroadcastType, LoopInv, SubscriberInv, CalledOnlyByCancel
<1> QED BY <1>1, BroadcastInvariant, PTL

\* When the loop of MultiState has ended in a vector that never moved under it,
\* every subscriber's callback was called or is in the hands of its executor.
THEOREM CancelComplete == BroadcastSpec => []CancelReachesAll
<1>1. ASSUME BroadcastInv PROVE CancelReachesAll
  <2> SUFFICES ASSUME controller = "cancelled", loop = 0, ~moved, NEW k \in DOMAIN proms
               PROVE  proms[k] = "val" /\ (calls[k] = 1 \/ k \in jobs)
    BY DEF CancelReachesAll
  <2>1. k \in Subs
    BY <1>1, SubsAssumption DEF BroadcastInv, BroadcastType, Subs
  <2> QED BY <1>1, <2>1 DEF BroadcastInv, LoopInv, SubscriberInv
<1> QED BY <1>1, BroadcastInvariant, PTL

-----------------------------------------------------------------------------
\* Gather.  The argument: the handler of a future is a token.  It is attached, on
\* one thread's stack, or it has stored its value; so each value is counted once.

Frames == [at : Steps, g : Gathers, s : Sources \cup {None}, n : Nat]
Results == {"pending", "val", "exc"}

GatherType ==
    /\ src \in [Sources -> Results] /\ out \in [Gathers -> Results]
    /\ attached \subseteq Sources /\ started \subseteq Gathers
    /\ left \in [Gathers -> Int]
    /\ results \in [Gathers -> SUBSET Sources] /\ given \in [Gathers -> SUBSET Sources]
    /\ stack \in [Threads -> Seq(Frames)]

\* The handler of f.s is about to run.
IsHandler(f) == f.at \in {"lock", "handle"}

\* What the i-th frame f of thread u stands for.
FrameInv(u, i, f) ==
    /\ f.at = "attach" =>
        /\ u = Caller /\ i = 1 /\ f.g \in started
        /\ f.n \in 1 .. Len(List[f.g])
        /\ \A k \in f.n .. Len(List[f.g]) : List[f.g][k] \notin attached
    /\ IsHandler(f) =>
        f.s \in Of(f.g) /\ f.s \in attached /\ src[f.s] # "pending" /\ f.s \notin results[f.g]
    /\ f.at = "cont" => f.n \in 1 .. Len(Feeds[f.g]) /\ out[f.g] # "pending"

FramesInv == \A u \in Threads : \A i \in DOMAIN stack[u] : FrameInv(u, i, stack[u][i])

\* A handler is on one stack, once.
HandledOnce ==
    \A u, v \in Threads : \A i \in DOMAIN stack[u], k \in DOMAIN stack[v] :
        IsHandler(stack[u][i]) /\ IsHandler(stack[v][k]) /\ stack[u][i].s = stack[v][k].s
            => u = v /\ i = k

\* left counts the values that are missing; nothing of g happens before its call.
CountInv(g) ==
    /\ results[g] \subseteq Of(g) /\ results[g] \subseteq attached
    /\ \A s \in results[g] : src[s] = "val"
    /\ left[g] = Len(List[g]) - Cardinality(results[g])
    /\ g \notin started => Of(g) \cap attached = {} /\ out[g] = "pending"
    /\ out[g] = "pending" => given[g] = {}
    /\ out[g] = "val" => given[g] = Of(g)

AttachedInv == \A s \in attached : \E g \in Gathers : s \in Of(g)

GatherInv ==
    GatherType /\ FramesInv /\ HandledOnce /\ AttachedInv /\ \A g \in Gathers : CountInv(g)

\* The list of a gather and the set of its futures have the same size.
LEMMA OfFinite ==
    ASSUME NEW g \in Gathers
    PROVE  /\ List[g] \in Seq(Sources) /\ Of(g) \subseteq Sources
           /\ \A i \in 1 .. Len(List[g]) : List[g][i] \in Of(g)
           /\ \A i, k \in 1 .. Len(List[g]) : List[g][i] = List[g][k] => i = k
           /\ IsFiniteSet(Of(g)) /\ Cardinality(Of(g)) = Len(List[g])
<1>1. List[g] \in Seq(Sources) /\ IsInjective(List[g])
  BY GathersAssumption
<1>2. Len(List[g]) \in Nat /\ DOMAIN List[g] = 1 .. Len(List[g])
  BY <1>1
<1>3. /\ Of(g) \subseteq Sources
      /\ \A i \in 1 .. Len(List[g]) : List[g][i] \in Of(g)
      /\ \A i, k \in 1 .. Len(List[g]) : List[g][i] = List[g][k] => i = k
  BY <1>1, <1>2 DEF Of, Range, IsInjective
<1>4. List[g] \in [1 .. Len(List[g]) -> Of(g)]
  BY <1>1, <1>2, <1>3
<1>5. \A s \in Of(g) : \E i \in 1 .. Len(List[g]) : List[g][i] = s
  BY <1>2 DEF Of, Range
<1>6. List[g] \in Bijection(1 .. Len(List[g]), Of(g))
  BY <1>1, <1>4, <1>5 DEF Bijection, Injection, Surjection
<1>7. ExistsBijection(1 .. Len(List[g]), Of(g))
  BY <1>6 DEF ExistsBijection
<1>8. IsFiniteSet(Of(g)) /\ Cardinality(Of(g)) = Len(List[g])
  BY <1>2, <1>7, FS_NatBijection, FS_CountingElements
<1> QED BY <1>1, <1>3, <1>8

\* A step of thread t keeps the first m frames of its stack and puts fs on them.
Onto(t, m, fs) == stack' = [stack EXCEPT ![t] = SubSeq(stack[t], 1, m) \o fs]

\* Every frame there is afterwards was there before, or is one of fs.
LEMMA StackStep ==
    ASSUME GatherType, NEW t \in Threads, NEW fs \in Seq(Frames),
           NEW m \in Nat, m <= Len(stack[t]), Onto(t, m, fs)
    PROVE  /\ stack' \in [Threads -> Seq(Frames)]
           /\ \A u \in Threads : \A i \in DOMAIN stack'[u] :
                \/ (u # t \/ i <= m) /\ i \in DOMAIN stack[u] /\ stack'[u][i] = stack[u][i]
                \/ u = t /\ i > m /\ i - m \in DOMAIN fs /\ stack'[u][i] = fs[i - m]
<1>1. stack[t] \in Seq(Frames) /\ Len(stack[t]) \in Nat
  BY DEF GatherType
<1> DEFINE keep == SubSeq(stack[t], 1, m)
<1>2. keep \in Seq(Frames) /\ Len(keep) = m /\ \A i \in 1 .. m : keep[i] = stack[t][i]
  BY <1>1
<1> HIDE DEF keep
<1>3. stack'[t] = keep \o fs /\ stack'[t] \in Seq(Frames)
  BY <1>1, <1>2 DEF GatherType, Onto, keep
<1>4. \A u \in Threads : u # t => stack'[u] = stack[u]
  BY DEF GatherType, Onto
<1>5. stack' \in [Threads -> Seq(Frames)]
  BY <1>3, <1>4 DEF GatherType, Onto
<1>6. ASSUME NEW i \in DOMAIN stack'[t]
      PROVE  \/ i <= m /\ i \in DOMAIN stack[t] /\ stack'[t][i] = stack[t][i]
             \/ i > m /\ i - m \in DOMAIN fs /\ stack'[t][i] = fs[i - m]
  <2>1. i \in 1 .. m + Len(fs) /\ Len(fs) \in Nat
    BY <1>2, <1>3
  <2>2. stack'[t][i] = IF i <= m THEN keep[i] ELSE fs[i - m]
    BY <1>2, <1>3, <2>1, ConcatProperties
  <2> QED BY <1>1, <1>2, <2>1, <2>2
<1> QED BY <1>4, <1>5, <1>6

\* Every frame there is after a step of t was there before, below the n-th of t or
\* on another thread, or is one of fs.
Replaces(t, n, fs) ==
    \A u \in Threads : \A i \in DOMAIN stack'[u] :
        \/ (u # t \/ i < n) /\ i \in DOMAIN stack[u] /\ stack'[u][i] = stack[u][i]
        \/ u = t /\ i - (n - 1) \in DOMAIN fs /\ stack'[u][i] = fs[i - (n - 1)]

\* So it is for a call that begins on an empty stack ...
LEMMA StartStep ==
    ASSUME GatherType, NEW t \in Threads, stack[t] = << >>,
           NEW fs \in Seq(Frames), stack' = [stack EXCEPT ![t] = fs]
    PROVE  stack' \in [Threads -> Seq(Frames)] /\ Replaces(t, 1, fs)
<1>1. stack'[t] = fs /\ \A u \in Threads : u # t => stack'[u] = stack[u]
  BY DEF GatherType
<1>2. stack' \in [Threads -> Seq(Frames)]
  BY DEF GatherType
<1>3. \A i \in DOMAIN fs : i - (1 - 1) = i
  OBVIOUS
<1> QED BY <1>1, <1>2, <1>3 DEF Replaces

\* ... and for one that goes on with the topmost frame.
LEMMA BecomeStep ==
    ASSUME GatherType, NEW t \in Threads, stack[t] # << >>,
           NEW fs \in Seq(Frames), Become(t, fs)
    PROVE  stack' \in [Threads -> Seq(Frames)] /\ Replaces(t, Len(stack[t]), fs)
<1>1. stack[t] \in Seq(Frames) /\ Len(stack[t]) \in Nat \ {0}
  BY DEF GatherType
<1>2. Len(stack[t]) - 1 \in Nat
  BY <1>1
<1>3. PICK m \in Nat : m = Len(stack[t]) - 1
  BY <1>2
<1>4. Onto(t, m, fs)
  BY <1>3 DEF Become, Front, Onto
<1>5. m <= Len(stack[t])
  BY <1>1, <1>3
<1>6. /\ stack' \in [Threads -> Seq(Frames)]
      /\ \A u \in Threads : \A i \in DOMAIN stack'[u] :
           \/ (u # t \/ i <= m) /\ i \in DOMAIN stack[u] /\ stack'[u][i] = stack[u][i]
           \/ u = t /\ i > m /\ i - m \in DOMAIN fs /\ stack'[u][i] = fs[i - m]
  BY <1>4, <1>5, StackStep
<1>7. ASSUME NEW i \in DOMAIN stack[t], i <= m PROVE i < Len(stack[t])
  BY <1>1, <1>3, <1>7
<1> QED BY <1>3, <1>6, <1>7 DEF Replaces

\* The topmost frame of a thread that is doing something.
LEMMA TopFrame ==
    ASSUME GatherInv, NEW t \in Threads, stack[t] # << >>
    PROVE  /\ Len(stack[t]) \in Nat \ {0} /\ Len(stack[t]) \in DOMAIN stack[t]
           /\ Top(t) = stack[t][Len(stack[t])]
           /\ Top(t) \in Frames /\ FrameInv(t, Len(stack[t]), Top(t))
<1>1. stack[t] \in Seq(Frames)
  BY DEF GatherInv, GatherType
<1>2. Len(stack[t]) \in Nat \ {0} /\ Len(stack[t]) \in DOMAIN stack[t] /\ Top(t) \in Frames
  BY <1>1 DEF Top
<1> QED BY <1>2 DEF GatherInv, FramesInv, Top

\* A handler stays on one stack if a step adds none that is elsewhere.
LEMMA OnceStep ==
    ASSUME HandledOnce, NEW t \in Threads, NEW n, NEW fs, Replaces(t, n, fs),
           stack' \in [Threads -> Seq(Frames)], n \in Nat,
           \A k, l \in DOMAIN fs : IsHandler(fs[k]) /\ IsHandler(fs[l]) => k = l,
           \A k \in DOMAIN fs : \A u \in Threads : \A i \in DOMAIN stack[u] :
               IsHandler(fs[k]) /\ IsHandler(stack[u][i]) /\ stack[u][i].s = fs[k].s => u = t /\ ~(i < n)
    PROVE  HandledOnce'
<1> SUFFICES ASSUME NEW u \in Threads, NEW v \in Threads,
                    NEW i \in DOMAIN stack'[u], NEW k \in DOMAIN stack'[v],
                    IsHandler(stack'[u][i]), IsHandler(stack'[v][k]), stack'[u][i].s = stack'[v][k].s
             PROVE  u = v /\ i = k
  BY DEF HandledOnce, IsHandler
<1>1. i \in Nat /\ k \in Nat
  BY DOMAIN stack'[u] = 1 .. Len(stack'[u]), DOMAIN stack'[v] = 1 .. Len(stack'[v])
<1> DEFINE Old(w, j) == (w # t \/ j < n) /\ j \in DOMAIN stack[w] /\ stack'[w][j] = stack[w][j]
           New(w, j) == w = t /\ j - (n - 1) \in DOMAIN fs /\ stack'[w][j] = fs[j - (n - 1)]
<1>2. (Old(u, i) \/ New(u, i)) /\ (Old(v, k) \/ New(v, k))
  BY DEF Replaces
<1>3. CASE Old(u, i) /\ Old(v, k)
  BY <1>3 DEF HandledOnce
<1>4. CASE New(u, i) /\ New(v, k)
  <2>1. i - (n - 1) = k - (n - 1)
    BY <1>4
  <2> QED BY <1>1, <1>4, <2>1
<1>5. CASE Old(u, i) /\ New(v, k)
  BY <1>5
<1>6. CASE New(u, i) /\ Old(v, k)
  BY <1>6
<1> QED BY <1>2, <1>3, <1>4, <1>5, <1>6

\* The frames of a step are what they should be if those it keeps stay so and the
\* new ones are.
LEMMA FramesStep ==
    ASSUME NEW t \in Threads, NEW n \in Nat, NEW fs, Replaces(t, n, fs),
           stack \in [Threads -> Seq(Frames)], stack' \in [Threads -> Seq(Frames)], FramesInv,
           \A u \in Threads : \A i \in DOMAIN stack[u] : \A f \in Frames :
               (u # t \/ i < n) /\ f = stack[u][i] /\ FrameInv(u, i, f) => FrameInv(u, i, f)',
           \A k \in DOMAIN fs : \A f \in Frames : f = fs[k] => FrameInv(t, n - 1 + k, f)'
    PROVE  FramesInv'
<1> SUFFICES ASSUME NEW u \in Threads, NEW i \in DOMAIN stack'[u]
             PROVE  FrameInv(u, i, stack[u][i])'
  BY DEF FramesInv
<1>1. i \in Nat /\ stack'[u][i] \in Frames
  BY stack'[u] \in Seq(Frames)
<1>2. PICK f \in Frames : f = stack'[u][i]
  BY <1>1
<1>3. CASE (u # t \/ i < n) /\ i \in DOMAIN stack[u] /\ stack'[u][i] = stack[u][i]
  <2>1. FrameInv(u, i, f)
    BY <1>2, <1>3 DEF FramesInv
  <2>2. FrameInv(u, i, f)'
    BY <1>2, <1>3, <2>1
  <2> QED BY <1>2, <2>2 DEF FrameInv, IsHandler
<1>4. CASE u = t /\ i - (n - 1) \in DOMAIN fs /\ stack'[u][i] = fs[i - (n - 1)]
  <2>1. n - 1 + (i - (n - 1)) = i
    BY <1>1
  <2>2. FrameInv(u, i, f)'
    BY <1>2, <1>4, <2>1
  <2> QED BY <1>2, <2>2 DEF FrameInv, IsHandler
<1> QED BY <1>3, <1>4 DEF Replaces

\* Nothing has been called at first.
LEMMA GatherInitInv == Init => GatherInv
<1> SUFFICES ASSUME Init PROVE GatherInv
  OBVIOUS
<1>1. /\ \A t \in Threads : stack[t] = << >> /\ DOMAIN stack[t] = {}
      /\ stack \in [Threads -> Seq(Frames)]
  BY DEF Init
<1>2. GatherType
  <2>1. \A g \in Gathers : Len(List[g]) \in Int
    BY OfFinite
  <2> QED BY <1>1, <2>1 DEF Init, GatherType, Results
<1>3. FramesInv /\ HandledOnce /\ AttachedInv
  BY <1>1 DEF FramesInv, HandledOnce, AttachedInv, Init
<1>4. ASSUME NEW g \in Gathers PROVE CountInv(g)
  <2>1. Len(List[g]) \in Nat
    BY OfFinite
  <2> QED BY <2>1, FS_EmptySet DEF Init, CountInv
<1> QED BY <1>2, <1>3, <1>4 DEF GatherInv

\* Gather is called: of an empty list the output is settled, with all there is.
LEMMA CallGatherInv ==
    ASSUME GatherInv, NEW g \in Gathers, CallGather(g)
    PROVE  GatherInv'
<1>1. /\ UNCHANGED <<src, attached, left, results, given>>
      /\ started' = started \cup {g} /\ g \notin started /\ stack[Caller] = << >>
      /\ Caller \in Threads /\ GatherType
  BY DEF CallGather, GatherInv, Threads
<1>2. List[g] \in Seq(Sources) /\ out[g] = "pending" /\ given[g] = {} /\ Of(g) \cap attached = {}
  BY <1>1, OfFinite DEF GatherInv, CountInv
<1>3. CASE List[g] = << >>
  <2>1. out' = [out EXCEPT ![g] = "val"] /\ stack' = stack
    BY <1>3 DEF CallGather
  <2>2. Of(g) = {}
    BY <1>3 DEF Of, Range
  <2>3. GatherType'
    BY <1>1, <2>1 DEF GatherType, Results
  <2>4. FramesInv' /\ HandledOnce' /\ AttachedInv'
    BY <1>1, <1>2, <2>1 DEF GatherInv, GatherType, FramesInv, FrameInv, IsHandler, HandledOnce, AttachedInv
  <2>5. ASSUME NEW h \in Gathers PROVE CountInv(h)'
    BY <1>1, <1>2, <2>1, <2>2 DEF GatherInv, GatherType, CountInv
  <2> QED BY <2>3, <2>4, <2>5 DEF GatherInv
<1>4. CASE List[g] # << >>
  <2>1. PICK fs : fs = <<Frame("attach", g, None, 1)>>
    OBVIOUS
  <2>2. fs \in Seq(Frames) /\ DOMAIN fs = {1} /\ fs[1] = Frame("attach", g, None, 1)
    BY <2>1 DEF Frames, Frame, Steps
  <2>3. out' = out /\ stack' = [stack EXCEPT ![Caller] = fs]
    BY <1>4, <2>1 DEF CallGather
  <2>4. stack' \in [Threads -> Seq(Frames)] /\ Replaces(Caller, 1, fs)
    BY <1>1, <2>2, <2>3, StartStep
  <2>5. GatherType'
    BY <1>1, <2>3, <2>4 DEF GatherType
  <2>6. FrameInv(Caller, 1 - 1 + 1, fs[1])'
    BY <1>1, <1>2, <1>4, <2>2, OfFinite DEF FrameInv, Frame, IsHandler
  <2>7. FramesInv'
    <3>1. \A u \in Threads : \A i \in DOMAIN stack[u] : \A f \in Frames :
             (u # Caller \/ i < 1) /\ f = stack[u][i] /\ FrameInv(u, i, f) => FrameInv(u, i, f)'
      BY <1>1, <2>3 DEF FrameInv, IsHandler
    <3>2. \A k \in DOMAIN fs : \A f \in Frames : f = fs[k] => FrameInv(Caller, 1 - 1 + k, f)'
      BY <2>2, <2>6
    <3>3. stack \in [Threads -> Seq(Frames)] /\ FramesInv /\ 1 \in Nat
      BY DEF GatherInv, GatherType
    <3> QED BY <1>1, <2>4, <3>1, <3>2, <3>3, FramesStep
  <2>8. HandledOnce'
    BY <1>1, <2>2, <2>4, OnceStep DEF GatherInv, IsHandler, Frame
  <2>9. AttachedInv' /\ \A h \in Gathers : CountInv(h)'
    BY <1>1, <2>3 DEF GatherInv, GatherType, AttachedInv, CountInv
  <2> QED BY <2>5, <2>7, <2>8, <2>9 DEF GatherInv
<1> QED BY <1>3, <1>4

\* The frames most steps leave behind: perhaps one that goes on and perhaps a new one.
LEMMA TwoFrames ==
    ASSUME NEW A \in Frames, NEW B \in Frames,
           NEW on \in {<< >>, <<A>>}, NEW add \in {<< >>, <<B>>}, NEW fs, fs = on \o add
    PROVE  /\ fs \in Seq(Frames)
           /\ \A k \in DOMAIN fs : \/ on = <<A>> /\ k = 1 /\ fs[k] = A
                                   \/ add = <<B>> /\ k = Len(on) + 1 /\ fs[k] = B
<1>1. CASE on = <<A>> /\ add = <<B>>
  <2>1. DOMAIN fs = 1 .. 2 /\ fs[1] = A /\ fs[2] = B /\ fs \in Seq(Frames) /\ Len(on) = 1
    BY <1>1
  <2>2. \A k \in 1 .. 2 : k = 1 \/ k = Len(on) + 1
    BY <2>1
  <2>3. fs[1] = A /\ fs[Len(on) + 1] = B
    BY <2>1
  <2> QED BY <1>1, <2>1, <2>2, <2>3, Zenon
<1>2. CASE on = <<A>> /\ add = << >>
  BY <1>2
<1>3. CASE on = << >> /\ add = <<B>>
  BY <1>3
<1>4. CASE on = << >> /\ add = << >>
  BY <1>4
<1> QED BY <1>1, <1>2, <1>3, <1>4

\* The loop of Gather attaches the next handler, which runs at once if its future
\* is resolved: it was not attached before, so it has not run.
LEMMA AttachInv ==
    ASSUME GatherInv, Attach
    PROVE  GatherInv'
<1>1. Caller \in Threads /\ stack[Caller] # << >> /\ Top(Caller).at = "attach"
  BY DEF Attach, Doing, Threads
<1>2. PICK f : f = Top(Caller)
  OBVIOUS
<1>3. /\ f \in Frames /\ f.g \in Gathers /\ f.g \in started /\ Len(stack[Caller]) = 1
      /\ f.n \in 1 .. Len(List[f.g])
      /\ \A k \in f.n .. Len(List[f.g]) : List[f.g][k] \notin attached
  BY <1>1, <1>2, TopFrame DEF FrameInv, Frames
<1>4. Len(List[f.g]) \in Nat
  BY <1>3, OfFinite
<1>5. PICK s : s = List[f.g][f.n]
  OBVIOUS
<1>6. s \in Sources /\ s \in Of(f.g) /\ s \notin attached
  BY <1>3, <1>4, <1>5, OfFinite
<1> DEFINE A == [f EXCEPT !.n = @ + 1]
           B == Frame("lock", f.g, s, 0)
<1>7. PICK on \in {<< >>, <<A>>} : on = IF f.n < Len(List[f.g]) THEN <<A>> ELSE << >>
  OBVIOUS
<1>8. PICK add \in {<< >>, <<B>>} : add = IF src[s] # "pending" THEN <<B>> ELSE << >>
  OBVIOUS
<1>81. PICK fs : fs = on \o add
  OBVIOUS
<1>9. /\ fs \in Seq(Frames)
      /\ \A k \in DOMAIN fs :
            \/ f.n < Len(List[f.g]) /\ k = 1 /\ fs[k] = A
            \/ src[s] # "pending" /\ k = Len(on) + 1 /\ fs[k] = B
  <2>1. A \in Frames /\ B \in Frames
    BY <1>3, <1>6 DEF Frames, Frame, Steps
  <2>2. (on = <<A>> => f.n < Len(List[f.g])) /\ (add = <<B>> => src[s] # "pending")
    BY <1>7, <1>8
  <2> HIDE DEF A, B
  <2> QED BY <1>81, <2>1, <2>2, TwoFrames, SMTT(30)
<1>10. /\ attached' = attached \cup {s} /\ Become(Caller, fs)
       /\ UNCHANGED <<src, started, left, results, out, given>>
  BY <1>2, <1>5, <1>7, <1>8, <1>81 DEF Attach
<1>11. stack' \in [Threads -> Seq(Frames)] /\ Replaces(Caller, 1, fs)
  BY <1>1, <1>3, <1>9, <1>10, BecomeStep DEF GatherInv
<1>12. GatherType'
  BY <1>6, <1>10, <1>11 DEF GatherInv, GatherType
<1>13. FramesInv'
  <2>1. ASSUME NEW u \in Threads, NEW i \in DOMAIN stack[u], NEW h \in Frames,
               u # Caller \/ i < 1, h = stack[u][i], FrameInv(u, i, h)
        PROVE  FrameInv(u, i, h)'
    <3>1. h.at # "attach"
      BY <2>1 DEF FrameInv
    <3> QED BY <1>10, <2>1, <3>1 DEF FrameInv, IsHandler
  <2>2. ASSUME NEW k \in DOMAIN fs, NEW h \in Frames, h = fs[k]
        PROVE  FrameInv(Caller, 1 - 1 + k, h)'
    <3>1. CASE f.n < Len(List[f.g]) /\ k = 1 /\ fs[k] = A
      <4>1. h.at = "attach" /\ h.g = f.g /\ h.n = f.n + 1
        BY <1>1, <1>2, <1>3, <2>2, <3>1 DEF Frames
      <4>2. \A l \in f.n + 1 .. Len(List[f.g]) : List[f.g][l] \notin attached'
        BY <1>3, <1>4, <1>5, <1>10, OfFinite
      <4> QED BY <1>3, <1>4, <1>10, <3>1, <4>1, <4>2 DEF FrameInv, IsHandler
    <3>2. CASE src[s] # "pending" /\ fs[k] = B
      <4>1. h.at = "lock" /\ h.g = f.g /\ h.s = s
        BY <2>2, <3>2 DEF Frame
      <4>2. s \notin results[f.g]
        BY <1>3, <1>6 DEF GatherInv, CountInv
      <4> QED BY <1>6, <1>10, <3>2, <4>1, <4>2 DEF FrameInv, IsHandler
    <3> QED BY <1>9, <3>1, <3>2
  <2>3. stack \in [Threads -> Seq(Frames)] /\ FramesInv /\ 1 \in Nat
    BY DEF GatherInv, GatherType
  <2> QED BY <1>1, <1>11, <2>1, <2>2, <2>3, FramesStep
<1>14. HandledOnce'
  <2>1. A.at = "attach" /\ B.s = s
    BY <1>1, <1>2, <1>3 DEF Frames, Frame
  <2>2. \A k, l \in DOMAIN fs : IsHandler(fs[k]) /\ IsHandler(fs[l]) => k = l
    BY <1>9, <2>1 DEF IsHandler
  <2>3. \A u \in Threads : \A i \in DOMAIN stack[u] : IsHandler(stack[u][i]) => stack[u][i].s # s
    BY <1>6 DEF GatherInv, FramesInv, FrameInv
  <2>4. \A k \in DOMAIN fs : IsHandler(fs[k]) => fs[k].s = s
    BY <1>9, <2>1 DEF IsHandler
  <2> HIDE DEF A, B
  <2>5. HandledOnce
    BY DEF GatherInv
  <2> QED BY <1>1, <1>11, <2>2, <2>3, <2>4, <2>5, OnceStep
<1>15. AttachedInv'
  BY <1>3, <1>6, <1>10 DEF GatherInv, AttachedInv
<1>16. ASSUME NEW g \in Gathers PROVE CountInv(g)'
  <2>1. g \notin started => s \notin Of(g)
    BY <1>3, <1>6, GathersAssumption
  <2> QED BY <1>10, <2>1 DEF GatherInv, CountInv
<1> QED BY <1>12, <1>13, <1>14, <1>15, <1>16 DEF GatherInv

\* A step that changes nothing but a stack, and leaves no handler on it that was
\* not the topmost frame.
LEMMA StackOnlyInv ==
    ASSUME GatherInv, NEW t \in Threads, NEW n \in Nat, NEW fs, Replaces(t, n, fs),
           stack' \in [Threads -> Seq(Frames)],
           UNCHANGED <<src, attached, started, left, results, out, given>>,
           \A k \in DOMAIN fs : FrameInv(t, n - 1 + k, fs[k]),
           \A k, l \in DOMAIN fs : IsHandler(fs[k]) /\ IsHandler(fs[l]) => k = l,
           \A k \in DOMAIN fs : IsHandler(fs[k]) =>
               n \in DOMAIN stack[t] /\ IsHandler(stack[t][n]) /\ stack[t][n].s = fs[k].s
    PROVE  GatherInv'
<1>1. GatherType' /\ AttachedInv' /\ \A g \in Gathers : CountInv(g)'
  BY DEF GatherInv, GatherType, AttachedInv, CountInv
<1>2. FramesInv'
  <2>1. \A u : \A i : \A f : FrameInv(u, i, f) => FrameInv(u, i, f)'
    BY DEF FrameInv, IsHandler
  <2>2. \A u \in Threads : \A i \in DOMAIN stack[u] : \A f \in Frames :
           (u # t \/ i < n) /\ f = stack[u][i] /\ FrameInv(u, i, f) => FrameInv(u, i, f)'
    BY <2>1
  <2>3. \A k \in DOMAIN fs : \A f \in Frames : f = fs[k] => FrameInv(t, n - 1 + k, f)'
    BY <2>1
  <2>4. stack \in [Threads -> Seq(Frames)] /\ FramesInv
    BY DEF GatherInv, GatherType
  <2> QED BY <2>2, <2>3, <2>4, FramesStep
<1>3. HandledOnce'
  <2>1. ASSUME NEW k \in DOMAIN fs, NEW u \in Threads, NEW i \in DOMAIN stack[u],
               IsHandler(fs[k]), IsHandler(stack[u][i]), stack[u][i].s = fs[k].s
        PROVE  u = t /\ ~(i < n)
    <3>1. u = t /\ i = n
      BY <2>1 DEF GatherInv, HandledOnce
    <3> QED BY <3>1
  <2>2. HandledOnce
    BY DEF GatherInv
  <2> QED BY <2>1, <2>2, OnceStep
<1> QED BY <1>1, <1>2, <1>3 DEF GatherInv

\* A step in which future s gets its result: no handler of s was waiting to run, and
\* the step puts it on the stack if it is attached.
LEMMA ResultInv ==
    ASSUME GatherInv, NEW t \in Threads, NEW n \in Nat, NEW fs, Replaces(t, n, fs),
           stack' \in [Threads -> Seq(Frames)],
           NEW s \in Sources, src[s] = "pending", NEW r \in {"val", "exc"}, src' = [src EXCEPT ![s] = r],
           UNCHANGED <<attached, started, left, results, out, given>>,
           \A k \in DOMAIN fs :
               \/ fs[k].at = "cont" /\ FrameInv(t, n - 1 + k, fs[k])
               \/ k = Len(fs) /\ s \in attached /\ fs[k] = Frame("lock", GatherOf(s), s, 0)
    PROVE  GatherInv'
<1>1. /\ GatherType /\ src'[s] # "pending" /\ \A x \in Sources : x # s => src'[x] = src[x]
      /\ src' \in [Sources -> Results]
  BY DEF GatherInv, GatherType, Results
<1>2. GatherType' /\ AttachedInv'
  BY <1>1 DEF GatherInv, GatherType, AttachedInv
<1>3. ASSUME NEW g \in Gathers PROVE CountInv(g)'
  BY <1>1 DEF GatherInv, GatherType, CountInv
<1>4. FramesInv'
  <2>1. ASSUME NEW u, NEW i, NEW f \in Frames, FrameInv(u, i, f) PROVE FrameInv(u, i, f)'
    BY <1>1, <2>1 DEF FrameInv, IsHandler, Frames, GatherInv, GatherType
  <2>2. \A u \in Threads : \A i \in DOMAIN stack[u] : \A f \in Frames :
           (u # t \/ i < n) /\ f = stack[u][i] /\ FrameInv(u, i, f) => FrameInv(u, i, f)'
    BY <2>1
  <2>3. ASSUME NEW k \in DOMAIN fs, NEW f \in Frames, f = fs[k] PROVE FrameInv(t, n - 1 + k, f)'
    <3>1. CASE f = Frame("lock", GatherOf(s), s, 0) /\ s \in attached
      <4>1. GatherOf(s) \in Gathers /\ s \in Of(GatherOf(s))
        BY <3>1 DEF GatherInv, AttachedInv, GatherOf
      <4>2. s \notin results[GatherOf(s)]
        BY <4>1 DEF GatherInv, CountInv
      <4> QED BY <1>1, <3>1, <4>1, <4>2 DEF FrameInv, IsHandler, Frame
    <3>2. CASE FrameInv(t, n - 1 + k, f)
      BY <2>1, <3>2
    <3> QED BY <2>3, <3>1, <3>2
  <2>4. stack \in [Threads -> Seq(Frames)] /\ FramesInv
    BY DEF GatherInv, GatherType
  <2> QED BY <2>2, <2>3, <2>4, FramesStep
<1>5. HandledOnce'
  <2>1. \A k \in DOMAIN fs : IsHandler(fs[k]) => k = Len(fs) /\ fs[k].s = s
    BY DEF IsHandler, Frame
  <2>2. \A u \in Threads : \A i \in DOMAIN stack[u] : IsHandler(stack[u][i]) => stack[u][i].s # s
    BY DEF GatherInv, FramesInv, FrameInv
  <2>3. HandledOnce
    BY DEF GatherInv
  <2> QED BY <2>1, <2>2, <2>3, OnceStep
<1> QED BY <1>2, <1>3, <1>4, <1>5 DEF GatherInv

\* A worker resolves a future.
LEMMA ResolveSourceInv ==
    ASSUME GatherInv, NEW t \in Threads, NEW s \in Sources, ResolveSource(t, s)
    PROVE  GatherInv'
<1>1. PICK r \in {"val", "exc"} : src' = [src EXCEPT ![s] = r]
  BY DEF ResolveSource
<1> DEFINE B == Frame("lock", GatherOf(s), s, 0)
<1>2. PICK fs \in {<< >>, <<B>>} : fs = IF s \in attached THEN <<B>> ELSE << >>
  OBVIOUS
<1>3. s \in attached => B \in Frames
  BY DEF GatherInv, AttachedInv, GatherOf, Frames, Frame, Steps
<1>4. /\ fs \in Seq(Frames)
      /\ \A k \in DOMAIN fs : k = Len(fs) /\ s \in attached /\ fs[k] = B
  <2> HIDE DEF B
  <2>1. CASE s \in attached
    BY <1>2, <1>3, <2>1
  <2>2. CASE s \notin attached
    BY <1>2, <2>2
  <2> QED BY <2>1, <2>2
<1>5. /\ stack[t] = << >> /\ src[s] = "pending" /\ stack' = [stack EXCEPT ![t] = fs]
      /\ UNCHANGED <<attached, started, left, results, out, given>>
  BY <1>2 DEF ResolveSource, Handler
<1>6. stack' \in [Threads -> Seq(Frames)] /\ Replaces(t, 1, fs)
  BY <1>4, <1>5, StartStep DEF GatherInv
<1>7. \A k \in DOMAIN fs : \/ fs[k].at = "cont" /\ FrameInv(t, 1 - 1 + k, fs[k])
                           \/ k = Len(fs) /\ s \in attached /\ fs[k] = B
  BY <1>4
<1>8. 1 \in Nat
  OBVIOUS
<1> QED BY <1>1, <1>5, <1>6, <1>7, <1>8, ResultInv, ZenonT(60)

\* The handler gets the lock.
LEMMA LockInv ==
    ASSUME GatherInv, NEW t \in Threads, Lock(t)
    PROVE  GatherInv'
<1>1. stack[t] # << >> /\ Top(t).at = "lock"
  BY DEF Lock, Doing
<1>2. PICK n : n = Len(stack[t])
  OBVIOUS
<1>3. PICK f : f = Top(t)
  OBVIOUS
<1>4. n \in Nat /\ n \in DOMAIN stack[t] /\ f = stack[t][n] /\ f \in Frames /\ FrameInv(t, n, f)
  BY <1>1, <1>2, <1>3, TopFrame
<1>5. PICK fs : fs = <<[f EXCEPT !.at = "handle"]>>
  OBVIOUS
<1>6. /\ DOMAIN fs = {1} /\ fs \in Seq(Frames) /\ IsHandler(f)
      /\ fs[1].at = "handle" /\ fs[1].g = f.g /\ fs[1].s = f.s
  BY <1>1, <1>3, <1>4, <1>5 DEF Frames, Steps, IsHandler
<1>7. Become(t, fs) /\ UNCHANGED <<src, attached, started, left, results, out, given>>
  BY <1>3, <1>5 DEF Lock
<1>8. stack' \in [Threads -> Seq(Frames)] /\ Replaces(t, n, fs)
  BY <1>1, <1>2, <1>6, <1>7, BecomeStep DEF GatherInv
<1>9. \A k \in DOMAIN fs : FrameInv(t, n - 1 + k, fs[k])
  BY <1>4, <1>6 DEF FrameInv, IsHandler
<1> QED BY <1>4, <1>6, <1>7, <1>8, <1>9, StackOnlyInv, SMTT(30)

\* The topmost frame goes away: the lock is released, or the wait is over.
LEMMA PopInv ==
    ASSUME GatherInv, NEW t \in Threads, stack[t] # << >>, Become(t, << >>),
           UNCHANGED <<src, attached, started, left, results, out, given>>
    PROVE  GatherInv'
<1>1. PICK n : n = Len(stack[t])
  OBVIOUS
<1>2. PICK fs : fs = << >>
  OBVIOUS
<1>3. n \in Nat /\ fs \in Seq(Frames) /\ DOMAIN fs = {} /\ Become(t, fs)
  BY <1>1, <1>2, TopFrame
<1>4. stack' \in [Threads -> Seq(Frames)] /\ Replaces(t, n, fs)
  BY <1>1, <1>3, BecomeStep DEF GatherInv
<1> QED BY <1>3, <1>4, StackOnlyInv

LEMMA UnlockInv ==
    ASSUME GatherInv, NEW t \in Threads, Unlock(t)
    PROVE  GatherInv'
BY PopInv DEF Unlock, Doing

LEMMA GetReturnsInv ==
    ASSUME GatherInv, GetReturns
    PROVE  GatherInv'
BY PopInv DEF GetReturns, Doing, Threads

\* The caller begins to wait for the output of g.
LEMMA ToStdFutureInv ==
    ASSUME GatherInv, NEW g \in Gathers, ToStdFuture(g)
    PROVE  GatherInv'
<1>1. PICK fs : fs = <<Frame("get", g, None, 0)>>
  OBVIOUS
<1>2. DOMAIN fs = {1} /\ fs \in Seq(Frames) /\ fs[1].at = "get"
  BY <1>1 DEF Frames, Frame, Steps
<1>3. /\ Caller \in Threads /\ stack[Caller] = << >> /\ stack' = [stack EXCEPT ![Caller] = fs]
      /\ UNCHANGED <<src, attached, started, left, results, out, given>>
  BY <1>1 DEF ToStdFuture, Threads
<1>4. stack' \in [Threads -> Seq(Frames)] /\ Replaces(Caller, 1, fs)
  BY <1>2, <1>3, StartStep DEF GatherInv
<1>5. /\ \A k \in DOMAIN fs : FrameInv(Caller, 1 - 1 + k, fs[k])
      /\ \A k \in DOMAIN fs : ~IsHandler(fs[k])
  BY <1>2 DEF FrameInv, IsHandler
<1>6. 1 \in Nat
  OBVIOUS
<1> QED BY <1>3, <1>4, <1>5, <1>6, StackOnlyInv

\* The continuation of an output resolves the next future it feeds, unless that one
\* has its result.
LEMMA ContinueInv ==
    ASSUME GatherInv, NEW t \in Threads, Continue(t)
    PROVE  GatherInv'
<1>1. stack[t] # << >> /\ Top(t).at = "cont"
  BY DEF Continue, Doing
<1>2. PICK n : n = Len(stack[t])
  OBVIOUS
<1>3. PICK f : f = Top(t)
  OBVIOUS
<1>4. /\ n \in Nat /\ f \in Frames /\ f.g \in Gathers /\ f.at = "cont"
      /\ f.n \in 1 .. Len(Feeds[f.g]) /\ out[f.g] \in {"val", "exc"}
  BY <1>1, <1>2, <1>3, TopFrame DEF FrameInv, Frames, GatherInv, GatherType, Results
<1>5. Feeds[f.g] \in Seq(Sources)
  BY <1>4, GathersAssumption
<1>6. PICK s : s = Feeds[f.g][f.n]
  OBVIOUS
<1>7. s \in Sources
  BY <1>4, <1>5, <1>6
<1> DEFINE A == [f EXCEPT !.n = @ + 1]
           B == Frame("lock", GatherOf(s), s, 0)
           C == IF s \in attached THEN B ELSE A
<1>8. PICK on \in {<< >>, <<A>>} : on = IF f.n < Len(Feeds[f.g]) THEN <<A>> ELSE << >>
  OBVIOUS
<1>9. PICK c : c = C
  OBVIOUS
<1>10. PICK add \in {<< >>, <<c>>} : add = IF src[s] = "pending" /\ s \in attached THEN <<c>> ELSE << >>
  OBVIOUS
<1>11. PICK fs : fs = on \o add
  OBVIOUS
<1>12. A \in Frames /\ c \in Frames
  <2>1. A \in Frames
    BY <1>4 DEF Frames
  <2>2. s \in attached => B \in Frames
    BY <1>7 DEF GatherInv, AttachedInv, GatherOf, Frames, Frame, Steps
  <2> QED BY <1>9, <2>1, <2>2
<1>13. /\ fs \in Seq(Frames)
       /\ \A k \in DOMAIN fs :
             \/ on = <<A>> /\ k = 1 /\ fs[k] = A
             \/ add = <<c>> /\ k = Len(on) + 1 /\ fs[k] = c
  <2> HIDE DEF A, B, C
  <2> QED BY <1>11, <1>12, TwoFrames
<1>14. Become(t, fs)
  <2>1. (IF src[s] = "pending" THEN Handler(s) ELSE << >>) = add
    BY <1>9, <1>10 DEF Handler
  <2> QED BY <1>3, <1>6, <1>8, <1>11, <2>1 DEF Continue
<1>15. stack' \in [Threads -> Seq(Frames)] /\ Replaces(t, n, fs)
  BY <1>1, <1>2, <1>13, <1>14, BecomeStep DEF GatherInv
<1>16. UNCHANGED <<attached, started, left, results, out, given>>
  BY DEF Continue
<1>17. on = <<A>> => A.at = "cont" /\ A.g = f.g /\ A.n \in 1 .. Len(Feeds[A.g])
  <2>1. A.at = "cont" /\ A.g = f.g /\ A.n = f.n + 1
    BY <1>4 DEF Frames
  <2>2. on = <<A>> => f.n < Len(Feeds[f.g])
    BY <1>8
  <2>3. f.n < Len(Feeds[f.g]) => f.n + 1 \in 1 .. Len(Feeds[f.g])
    BY <1>4, <1>5
  <2> HIDE DEF A
  <2> QED BY <2>1, <2>2, <2>3
<1>18. on = <<A>> => A.at = "cont" /\ \A i : FrameInv(t, i, A)
  <2> HIDE DEF A
  <2> QED BY <1>4, <1>17 DEF FrameInv, IsHandler
<1>19. CASE src[s] = "pending"
  <2>1. PICK r \in {"val", "exc"} : src' = [src EXCEPT ![s] = r]
    BY <1>3, <1>4, <1>6, <1>19 DEF Continue
  <2>2. \A k \in DOMAIN fs : \/ fs[k].at = "cont" /\ FrameInv(t, n - 1 + k, fs[k])
                             \/ k = Len(fs) /\ s \in attached /\ fs[k] = B
    <3>1. add = <<c>> => s \in attached /\ c = B
      BY <1>9, <1>10
    <3>2. add = <<c>> => Len(fs) = Len(on) + 1
      BY <1>8, <1>11
    <3> HIDE DEF A, B, C
    <3> QED BY <1>13, <1>18, <3>1, <3>2
  <2> HIDE DEF A, B, C
  <2>3. \A k \in DOMAIN fs : \/ fs[k].at = "cont" /\ FrameInv(t, n - 1 + k, fs[k])
                             \/ k = Len(fs) /\ s \in attached /\ fs[k] = Frame("lock", GatherOf(s), s, 0)
    BY <2>2 DEF B
  <2> QED BY <1>4, <1>7, <1>15, <1>16, <1>19, <2>1, <2>3, ResultInv
<1>20. CASE src[s] # "pending"
  <2>1. add = << >>
    BY <1>10, <1>20
  <2>2. src' = src
    BY <1>3, <1>6, <1>20 DEF Continue
  <2>3. \A k \in DOMAIN fs : FrameInv(t, n - 1 + k, fs[k]) /\ ~IsHandler(fs[k])
    <3> HIDE DEF A, B, C
    <3> QED BY <1>13, <1>18, <2>1 DEF IsHandler
  <2> QED BY <1>4, <1>15, <1>16, <2>2, <2>3, StackOnlyInv
<1> QED BY <1>19, <1>20

\* What the handler of s does to its gather: the value is counted, and the output is
\* settled if it should be, with what the list promises.
LEMMA HandleCount ==
    ASSUME GatherInv, NEW g \in Gathers, NEW s \in Of(g), s \in attached, s \notin results[g],
           src[s] # "pending", HandleResult(g, s), UNCHANGED <<src, attached, started>>
    PROVE  /\ left' \in [Gathers -> Int]
           /\ results' \in [Gathers -> SUBSET Sources] /\ given' \in [Gathers -> SUBSET Sources]
           /\ \A h \in Gathers : CountInv(h)'
           /\ results'[g] \subseteq results[g] \cup {s}
           /\ \A h \in Gathers : h # g => results'[h] = results[h] /\ out'[h] = out[h]
           /\ \/ out' = out
              \/ /\ out[g] = "pending" /\ out' = [out EXCEPT ![g] = src[s]]
                 /\ src[s] = "val" => \A x \in Of(g) : src[x] = "val"
<1> DEFINE settles == (src[s] = "exc" \/ left[g] = 1) /\ out[g] = "pending"
<1>1. /\ s \in Sources /\ src[s] \in {"val", "exc"} /\ IsFiniteSet(Of(g)) /\ Of(g) \subseteq Sources
      /\ Cardinality(Of(g)) = Len(List[g]) /\ Len(List[g]) \in Nat
  BY OfFinite DEF GatherInv, GatherType, Results
<1>2. /\ left \in [Gathers -> Int] /\ results \in [Gathers -> SUBSET Sources]
      /\ given \in [Gathers -> SUBSET Sources] /\ out \in [Gathers -> Results] /\ CountInv(g)
      /\ \A h \in Gathers : CountInv(h)
  BY DEF GatherInv, GatherType
<1>3. /\ results' = IF src[s] = "val" THEN [results EXCEPT ![g] = @ \cup {s}] ELSE results
      /\ left' = IF src[s] = "val" THEN [left EXCEPT ![g] = @ - 1] ELSE left
      /\ out' = IF settles THEN [out EXCEPT ![g] = src[s]] ELSE out
      /\ given' = IF settles THEN [given EXCEPT ![g] = results'[g]] ELSE given
  BY DEF HandleResult
<1>4. /\ results' \in [Gathers -> SUBSET Sources] /\ left' \in [Gathers -> Int]
      /\ results'[g] = IF src[s] = "val" THEN results[g] \cup {s} ELSE results[g]
      /\ left'[g] = IF src[s] = "val" THEN left[g] - 1 ELSE left[g]
      /\ \A h \in Gathers : h # g => results'[h] = results[h] /\ left'[h] = left[h]
  BY <1>1, <1>2, <1>3
<1>5. /\ given' \in [Gathers -> SUBSET Sources]
      /\ out'[g] = IF settles THEN src[s] ELSE out[g]
      /\ given'[g] = IF settles THEN results'[g] ELSE given[g]
      /\ \A h \in Gathers : h # g => given'[h] = given[h] /\ out'[h] = out[h]
  BY <1>2, <1>3, <1>4
<1>6. /\ IsFiniteSet(results[g])
      /\ Cardinality(results[g] \cup {s}) = Cardinality(results[g]) + 1
      /\ Cardinality(results[g]) \in Nat
  BY <1>1, <1>2, FS_Subset, FS_AddElement, FS_CardinalityType DEF CountInv
<1>7. src[s] = "val" /\ left[g] = 1 => results[g] \cup {s} = Of(g)
  <2> SUFFICES ASSUME src[s] = "val", left[g] = 1 PROVE results[g] \cup {s} = Of(g)
    OBVIOUS
  <2>1. results[g] \cup {s} \in SUBSET Of(g)
    BY <1>2 DEF CountInv
  <2>2. Cardinality(Of(g)) = Cardinality(results[g] \cup {s})
    BY <1>1, <1>2, <1>6 DEF CountInv
  <2> QED BY <1>1, <2>1, <2>2, FS_Subset
<1>8. CountInv(g)'
  <2>1. /\ results'[g] \subseteq Of(g) /\ results'[g] \subseteq attached'
        /\ \A x \in results'[g] : src'[x] = "val"
    BY <1>2, <1>4 DEF CountInv
  <2>2. left'[g] = Len(List[g]) - Cardinality(results'[g])
    BY <1>1, <1>2, <1>4, <1>6 DEF CountInv
  <2>3. g \in started
    BY <1>2 DEF CountInv
  <2>4. (out'[g] = "pending" => given'[g] = {}) /\ (out'[g] = "val" => given'[g] = Of(g))
    BY <1>1, <1>2, <1>4, <1>5, <1>7 DEF CountInv
  <2> QED BY <2>1, <2>2, <2>3, <2>4 DEF CountInv
<1>9. ASSUME NEW h \in Gathers, h # g PROVE CountInv(h)'
  BY <1>2, <1>4, <1>5, <1>9 DEF CountInv
<1>10. settles /\ src[s] = "val" => \A x \in Of(g) : src[x] = "val"
  BY <1>2, <1>7 DEF CountInv
<1> QED BY <1>3, <1>4, <1>5, <1>8, <1>9, <1>10

\* A handler runs under the lock.
LEMMA RunHandlerInv ==
    ASSUME GatherInv, NEW t \in Threads, RunHandler(t)
    PROVE  /\ GatherInv'
           /\ \/ out' = out
              \/ \E g \in Gathers : \E s \in Of(g) :
                    /\ out[g] = "pending" /\ src[s] # "pending" /\ out' = [out EXCEPT ![g] = src[s]]
                    /\ src[s] = "val" => \A x \in Of(g) : src[x] = "val"
<1>1. stack[t] # << >> /\ Top(t).at = "handle"
  BY DEF RunHandler, Doing
<1>2. PICK n : n = Len(stack[t])
  OBVIOUS
<1>3. PICK f : f = Top(t)
  OBVIOUS
<1>4. /\ n \in Nat /\ n \in DOMAIN stack[t] /\ f = stack[t][n] /\ f \in Frames /\ f.at = "handle"
      /\ f.g \in Gathers /\ f.s \in Of(f.g) /\ f.s \in attached /\ src[f.s] # "pending"
      /\ f.s \notin results[f.g] /\ IsHandler(f)
  BY <1>1, <1>2, <1>3, TopFrame DEF FrameInv, Frames, IsHandler
<1>5. HandleResult(f.g, f.s) /\ UNCHANGED <<src, attached, started>>
  BY <1>3 DEF RunHandler
<1>6. /\ left' \in [Gathers -> Int]
      /\ results' \in [Gathers -> SUBSET Sources] /\ given' \in [Gathers -> SUBSET Sources]
      /\ \A h \in Gathers : CountInv(h)'
      /\ results'[f.g] \subseteq results[f.g] \cup {f.s}
      /\ \A h \in Gathers : h # f.g => results'[h] = results[h] /\ out'[h] = out[h]
      /\ \/ out' = out
         \/ /\ out[f.g] = "pending" /\ out' = [out EXCEPT ![f.g] = src[f.s]]
            /\ src[f.s] = "val" => \A x \in Of(f.g) : src[x] = "val"
  BY <1>4, <1>5, HandleCount
<1>7. /\ out' \in [Gathers -> Results]
      /\ \A h \in Gathers : out[h] # "pending" => out'[h] # "pending"
      /\ out' # out => out'[f.g] # "pending"
  <2>1. src[f.s] \in Results /\ out \in [Gathers -> Results]
    BY <1>4, OfFinite DEF GatherInv, GatherType
  <2> QED BY <1>4, <1>6, <2>1
<1> DEFINE A == [f EXCEPT !.at = "unlock"]
           B == Frame("cont", f.g, None, 1)
<1>8. PICK on \in {<< >>, <<A>>} : on = <<A>>
  OBVIOUS
<1>9. PICK add \in {<< >>, <<B>>} : add = IF out' # out /\ Feeds[f.g] # << >> THEN <<B>> ELSE << >>
  OBVIOUS
<1>10. PICK fs : fs = on \o add
  OBVIOUS
<1>11. A \in Frames /\ A.at = "unlock" /\ B \in Frames /\ B.at = "cont" /\ B.g = f.g /\ B.n = 1
  BY <1>4 DEF Frames, Frame, Steps
<1>12. /\ fs \in Seq(Frames)
       /\ \A k \in DOMAIN fs : \/ on = <<A>> /\ k = 1 /\ fs[k] = A
                               \/ add = <<B>> /\ k = Len(on) + 1 /\ fs[k] = B
  <2> HIDE DEF A, B
  <2> QED BY <1>10, <1>11, TwoFrames
<1>13. Become(t, fs)
  BY <1>3, <1>8, <1>9, <1>10 DEF RunHandler
<1>14. stack' \in [Threads -> Seq(Frames)] /\ Replaces(t, n, fs)
  BY <1>1, <1>2, <1>12, <1>13, BecomeStep DEF GatherInv
<1>15. add = <<B>> => Feeds[f.g] # << >> /\ out'[f.g] # "pending"
  BY <1>7, <1>9
<1>16. GatherType' /\ AttachedInv'
  BY <1>5, <1>6, <1>7, <1>14 DEF GatherInv, GatherType, AttachedInv
<1>17. FramesInv'
  <2>1. ASSUME NEW u \in Threads, NEW i \in DOMAIN stack[u], NEW h \in Frames,
               u # t \/ i < n, h = stack[u][i], FrameInv(u, i, h)
        PROVE  FrameInv(u, i, h)'
    <3>1. h.g \in Gathers /\ (IsHandler(h) => h.s # f.s)
      <4>1. u = t /\ i = n => FALSE
        BY <1>4, <2>1
      <4> QED BY <1>4, <2>1, <4>1 DEF GatherInv, HandledOnce, Frames
    <3>2. IsHandler(h) => h.s \notin results'[h.g]
      BY <1>6, <2>1, <3>1 DEF FrameInv
    <3> QED BY <1>5, <1>7, <2>1, <3>1, <3>2 DEF FrameInv, IsHandler
  <2>2. ASSUME NEW k \in DOMAIN fs, NEW h \in Frames, h = fs[k]
        PROVE  FrameInv(t, n - 1 + k, h)'
    <3>1. Feeds[f.g] \in Seq(Sources)
      BY <1>4, GathersAssumption
    <3> HIDE DEF A, B
    <3>2. CASE h = A
      BY <1>11, <3>2 DEF FrameInv, IsHandler
    <3>3. CASE h = B /\ add = <<B>>
      <4>1. 1 \in 1 .. Len(Feeds[f.g])
        BY <1>15, <3>1, <3>3
      <4> QED BY <1>11, <1>15, <3>3, <4>1 DEF FrameInv, IsHandler
    <3> QED BY <1>12, <2>2, <3>2, <3>3
  <2>3. stack \in [Threads -> Seq(Frames)] /\ FramesInv
    BY DEF GatherInv, GatherType
  <2> QED BY <1>4, <1>14, <2>1, <2>2, <2>3, FramesStep
<1>18. HandledOnce'
  <2> HIDE DEF A, B
  <2>1. \A k \in DOMAIN fs : ~IsHandler(fs[k])
    BY <1>11, <1>12 DEF IsHandler
  <2>2. HandledOnce
    BY DEF GatherInv
  <2> QED BY <1>4, <1>14, <2>1, <2>2, OnceStep
<1> QED BY <1>4, <1>6, <1>16, <1>17, <1>18 DEF GatherInv

\* GatherInv is inductive.
LEMMA GatherStepInv == GatherInv /\ [GatherNext]_vars => GatherInv'
<1> SUFFICES ASSUME GatherInv, [GatherNext]_vars PROVE GatherInv'
  OBVIOUS
<1>1. CASE UNCHANGED vars
  BY <1>1 DEF vars, GatherInv, GatherType, FramesInv, FrameInv, IsHandler, HandledOnce, AttachedInv, CountInv
<1>2. ASSUME NEW t \in Threads, Step(t) PROVE GatherInv'
  BY <1>2, LockInv, RunHandlerInv, ContinueInv, UnlockInv DEF Step
<1>3. Caller \in Threads /\ Workers \subseteq Threads
  BY DEF Threads
<1>4. CASE Call
  BY <1>2, <1>3, <1>4, AttachInv, GetReturnsInv, CallGatherInv DEF Call
<1>5. ASSUME NEW t \in Workers, Work(t) PROVE GatherInv'
  BY <1>2, <1>3, <1>5, ResolveSourceInv DEF Work
<1>6. CASE Finished
  BY <1>1, <1>6 DEF Finished
<1> QED
  BY <1>1, <1>4, <1>5, <1>6, ToStdFutureInv DEF GatherNext

LEMMA GatherInvariant == Spec => []GatherInv
BY GatherInitInv, GatherStepInv, PTL DEF Spec

\* The vector of results is complete when the handler of the last future moves it
\* into the promise of the gather, whichever threads run the handlers.
THEOREM GatherComplete == Spec => []ValuesComplete
<1>1. GatherInv => ValuesComplete
  BY DEF GatherInv, CountInv, ValuesComplete
<1> QED BY <1>1, GatherInvariant, PTL

\* A thread's step either leaves futures and outputs alone, resolves one future or
\* settles one output as GatherSpec allows.
LEMMA StepImplements ==
    ASSUME GatherInv, NEW t \in Threads, Step(t)
    PROVE  [Promise!SpecNext]_(Promise!specVars)
<1>1. CASE Lock(t) \/ Unlock(t)
  BY <1>1 DEF Lock, Unlock, Promise!specVars
<1>2. CASE RunHandler(t)
  <2>1. src' = src
    BY <1>2 DEF RunHandler
  <2>2. CASE out' = out
    BY <2>1, <2>2 DEF Promise!specVars
  <2>3. CASE out' # out
    <3>1. PICK g \in Gathers : \E s \in Of(g) :
             /\ out[g] = "pending" /\ src[s] # "pending" /\ out' = [out EXCEPT ![g] = src[s]]
             /\ src[s] = "val" => \A x \in Of(g) : src[x] = "val"
      BY <1>2, <2>3, RunHandlerInv
    <3>2. PICK s \in Of(g) :
             /\ out[g] = "pending" /\ src[s] # "pending" /\ out' = [out EXCEPT ![g] = src[s]]
             /\ src[s] = "val" => \A x \in Of(g) : src[x] = "val"
      BY <3>1
    <3>3. Promise!Of(g) = Of(g)
      BY DEF Promise!Of, Of, Range
    <3>4. src[s] = "val" \/ src[s] = "exc"
      BY <3>2, OfFinite DEF GatherInv, GatherType, Results
    <3>5. Promise!Settle(g)
      BY <2>1, <3>2, <3>3, <3>4 DEF Promise!Settle
    <3> QED BY <3>5 DEF Promise!SpecNext
  <2> QED BY <2>2, <2>3
<1>3. CASE Continue(t)
  <2>1. PICK f : f = Top(t)
    OBVIOUS
  <2>2. /\ f.g \in Gathers /\ f.n \in 1 .. Len(Feeds[f.g]) /\ out[f.g] \in {"val", "exc"}
    BY <1>3, <2>1, TopFrame DEF Continue, Doing, FrameInv, Frames, GatherInv, GatherType, Results
  <2>3. PICK s : s = Feeds[f.g][f.n]
    OBVIOUS
  <2>4. s \in Sources
    BY <2>2, <2>3, GathersAssumption
  <2>5. out' = out /\ src' = IF src[s] = "pending" THEN [src EXCEPT ![s] = out[f.g]] ELSE src
    BY <1>3, <2>1, <2>3 DEF Continue
  <2>6. CASE src[s] = "pending"
    BY <2>2, <2>4, <2>5, <2>6 DEF Promise!SpecNext, Promise!Resolve
  <2>7. CASE src[s] # "pending"
    BY <2>5, <2>7 DEF Promise!specVars
  <2> QED BY <2>6, <2>7
<1> QED BY <1>1, <1>2, <1>3 DEF Step

\* The same for every step of the module.
LEMMA NextImplements ==
    GatherInv /\ [GatherNext]_vars => [Promise!SpecNext]_(Promise!specVars)
<1> SUFFICES ASSUME GatherInv, [GatherNext]_vars PROVE [Promise!SpecNext]_(Promise!specVars)
  OBVIOUS
<1>1. Caller \in Threads /\ Workers \subseteq Threads
  BY DEF Threads
<1>2. CASE UNCHANGED vars \/ Finished \/ Attach \/ GetReturns \/ \E g \in Gathers : ToStdFuture(g)
  BY <1>2 DEF vars, Finished, Attach, GetReturns, ToStdFuture, Promise!specVars
<1>3. ASSUME NEW g \in Gathers, CallGather(g) PROVE [Promise!SpecNext]_(Promise!specVars)
  <2>1. CASE List[g] = << >>
    <3>1. Promise!Of(g) = {} /\ out[g] = "pending"
      BY <1>3, <2>1 DEF Promise!Of, CallGather, GatherInv, CountInv
    <3>2. Promise!Settle(g)
      BY <1>3, <2>1, <3>1 DEF CallGather, Promise!Settle
    <3> QED BY <3>2 DEF Promise!SpecNext
  <2>2. CASE List[g] # << >>
    BY <1>3, <2>2 DEF CallGather, Promise!specVars
  <2> QED BY <2>1, <2>2
<1>4. ASSUME NEW t \in Workers, NEW s \in Sources, ResolveSource(t, s)
      PROVE  [Promise!SpecNext]_(Promise!specVars)
  BY <1>4 DEF ResolveSource, Promise!SpecNext, Promise!Resolve
<1> QED BY <1>1, <1>2, <1>3, <1>4, StepImplements DEF GatherNext, Call, Work

\* Module Gather implements the safety half of GatherSpec: the output of a gather
\* is settled once, with a value only when every future has one and with an
\* exception only when one failed, for any threads and any feedback between gathers.
THEOREM GatherImplements == Spec => Promise!SafeSpec
<1>1. Init => Promise!SpecInit
  BY DEF Init, Promise!SpecInit
<1> QED BY <1>1, GatherInvariant, NextImplements, PTL DEF Spec, Promise!SafeSpec
=============================================================================

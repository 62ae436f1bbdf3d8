------------------------------- MODULE Future -------------------------------
(***************************************************************************)
(* The shared state behind Promise, SharedPromise and Future               *)
(* (include/future/future.hpp, src/future.cpp) and the executors that run  *)
(* continuations (include/future/executor.hpp).                            *)
(*                                                                         *)
(* A cell is one Data<T>.  Every lock_guard block of the code is one       *)
(* atomic step here and threads interleave between the blocks.  A thread   *)
(* is the stack of the library's calls it is inside of: user code runs     *)
(* when the stack is empty or when a continuation is on top of it, so a    *)
(* continuation may itself resolve, attach, copy and drop.                 *)
(*                                                                         *)
(* Values are abstracted to "val", exceptions to "exc", and the library's  *)
(* own FutureError("Broken Promise") to "broken".                          *)
(***************************************************************************)
EXTENDS Naturals, Sequences

CONSTANTS
    Threads,       \* threads of the program
    Cells,         \* the shared states that can be allocated
    Null,          \* nullptr where a cell is expected
    Executors,     \* kinds of executor continuations are attached with
    MaxPromises,   \* bound: promise objects on one cell at a time
    MaxDepth       \* bound: nesting of library calls in one thread

ASSUME NullAssumption == Null \notin Cells
\* No executor (inline), one that defers, StoppableExecutor.
ASSUME ExecutorsAssumption == Executors \subseteq {"null", "pool", "stoppable"}
ASSUME BoundsAssumption == MaxPromises \in Nat /\ MaxDepth \in Nat

VARIABLES
    result,        \* flags & fullfilled, with has_val and exc
    notify,        \* Base::notify: which kind of continuation is published
    chain,         \* Base::chain: the cell the continuation's result goes to
    exec,          \* Base::exec: where the continuation must run
    promises,      \* Base::promises: the atomic count of promise objects
    taken,         \* flags & future_taken
    handle,        \* a Future<T> object that owns the cell is in user hands
    life,          \* not allocated, made by a promise or by Then/Try, deleted
    stack,         \* stack[t]: the library calls thread t is inside of
    jobs,          \* NotifyCtx objects queued in an executor that defers
    dead,          \* StoppableExecutor::dead
    attached,      \* history: how many continuations were published on a cell
    delivered,     \* history: how many times notify(self, true) was called
    dropped        \* history: how many times notify(self, false) was called

cellVars == <<result, notify, chain, exec, promises, taken, handle, life>>
history == <<attached, delivered, dropped>>
vars == <<cellVars, stack, jobs, dead, history>>

Results == {"pending", "val", "exc", "broken"}
UserKinds == {"then", "try", "last"}       \* notifyImpl, notifyTryImpl, notifyLastImpl
Kinds == UserKinds \cup {"forward"}        \* notifyForward
CarryPcs == {"exec", "run", "fn", "pass"}     \* calls that carry a claimed notify
PlainPcs == {"drive", "broken", "break", "give"}
Pcs == CarryPcs \cup PlainPcs
Frame == [pc : CarryPcs, cell : Cells, notif : Kinds]
         \cup [pc : PlainPcs, cell : Cells, notif : {"null"}]

TypeOK ==
    /\ result \in [Cells -> Results]
    /\ notify \in [Cells -> Kinds \cup {"null"}]
    /\ chain \in [Cells -> Cells \cup {Null}]
    /\ exec \in [Cells -> Executors \cup {"null"}]
    /\ promises \in [Cells -> Nat]
    /\ taken \in [Cells -> BOOLEAN]
    /\ handle \in [Cells -> BOOLEAN]
    /\ life \in [Cells -> {"fresh", "promised", "chained", "dead"}]
    /\ stack \in [Threads -> Seq(Frame)]
    /\ jobs \subseteq [cell : Cells, notif : Kinds]
    /\ dead \in BOOLEAN
    /\ attached \in [Cells -> Nat]
    /\ delivered \in [Cells -> Nat]
    /\ dropped \in [Cells -> Nat]

-----------------------------------------------------------------------------
\* The call stack of a thread.

Top(t) == stack[t][Len(stack[t])]
Below(t) == SubSeq(stack[t], 1, Len(stack[t]) - 1)

\* t is inside a call that has reached pc.
At(t, pc) == stack[t] # << >> /\ Top(t).pc = pc

\* User code of t is running: outside of the library or in a continuation.
UserRuns(t) == stack[t] = << >> \/ At(t, "fn")

Room(t, n) == Len(stack[t]) + n <= MaxDepth

Call(t, fs) == stack' = [stack EXCEPT ![t] = @ \o fs]
Become(t, fs) == stack' = [stack EXCEPT ![t] = Below(t) \o fs]

\* A call working on s that carries no claimed continuation.
Plain(pc, s) == [pc |-> pc, cell |-> s, notif |-> "null"]

\* continueChain(s) at the head of its loop.
Drive(s) == Plain("drive", s)

\* The rest of continueChain's loop after notif(s, true): data = chain.
DriveChain(s) == IF chain[s] = Null THEN << >> ELSE <<Drive(chain[s])>>

\* Seeded fault: the flag is not looked at before the result is stored.
FulfilAgain(s, r) == result' = [result EXCEPT ![s] = r]

\* fulfilExc, fulfilVoid and fulfilValue: only the first one counts.
Fulfil(s, r) ==
    result' = IF result[s] = "pending" THEN [result EXCEPT ![s] = r] ELSE result

-----------------------------------------------------------------------------
\* Promise objects.

Init ==
    /\ result = [s \in Cells |-> "pending"]
    /\ notify = [s \in Cells |-> "null"]
    /\ chain = [s \in Cells |-> Null]
    /\ exec = [s \in Cells |-> "null"]
    /\ promises = [s \in Cells |-> 0]
    /\ taken = [s \in Cells |-> FALSE]
    /\ handle = [s \in Cells |-> FALSE]
    /\ life = [s \in Cells |-> "fresh"]
    /\ stack = [t \in Threads |-> << >>]
    /\ jobs = {}
    /\ dead = FALSE
    /\ attached = [s \in Cells |-> 0]
    /\ delivered = [s \in Cells |-> 0]
    /\ dropped = [s \in Cells |-> 0]

\* Promise() and SharedPromise(): a new cell with one promise object.
NewPromise(t, s) ==
    /\ UserRuns(t)
    /\ life[s] = "fresh"
    /\ life' = [life EXCEPT ![s] = "promised"]
    /\ promises' = [promises EXCEPT ![s] = 1]
    /\ UNCHANGED <<result, notify, chain, exec, taken, handle, stack, jobs, dead, history>>

\* Copying a SharedPromise: ref().
CopyPromise(t, s) ==
    /\ UserRuns(t)
    /\ promises[s] \in 1 .. MaxPromises - 1
    /\ promises' = [promises EXCEPT ![s] = @ + 1]
    /\ UNCHANGED <<result, notify, chain, exec, taken, handle, life, stack, jobs, dead, history>>

\* Seeded fault: future_taken is not checked.
GetFutureAgain(t, s) ==
    /\ UserRuns(t)
    /\ promises[s] > 0
    /\ taken' = [taken EXCEPT ![s] = TRUE]
    /\ handle' = [handle EXCEPT ![s] = TRUE]
    /\ UNCHANGED <<result, notify, chain, exec, promises, life, stack, jobs, dead, history>>

\* GetFuture(): a second call throws and changes nothing.
GetFuture(t, s) ==
    /\ UserRuns(t)
    /\ promises[s] > 0
    /\ ~taken[s]
    /\ taken' = [taken EXCEPT ![s] = TRUE]
    /\ handle' = [handle EXCEPT ![s] = TRUE]
    /\ UNCHANGED <<result, notify, chain, exec, promises, life, stack, jobs, dead, history>>

\* SharedPromise::operator(): fulfil under the lock, then continueChain(state)
\* whether or not this call was the first.
Resolve(t, s, r) ==
    /\ UserRuns(t)
    /\ Room(t, 1)
    /\ promises[s] > 0
    /\ Fulfil(s, r)
    /\ Call(t, <<Drive(s)>>)
    /\ UNCHANGED <<notify, chain, exec, promises, taken, handle, life, jobs, dead, history>>

\* Seeded faults: a moved-from promise still counts; every promise that goes
\* away takes itself for the last one; the new count is compared, not the old.
DropPromiseMoved(t, s) ==
    /\ UserRuns(t)
    /\ life[s] = "promised"
    /\ promises' = [promises EXCEPT ![s] = @ - 1]
    /\ UNCHANGED <<result, notify, chain, exec, taken, handle, life, stack, jobs, dead, history>>
DropPromiseAnyIsLast(t, s) ==
    /\ UserRuns(t)
    /\ Room(t, 1)
    /\ promises[s] > 0
    /\ promises' = [promises EXCEPT ![s] = @ - 1]
    /\ Call(t, <<Plain("broken", s)>>)
    /\ UNCHANGED <<result, notify, chain, exec, taken, handle, life, jobs, dead, history>>
DropPromiseNoneIsLast(t, s) ==
    /\ UserRuns(t)
    /\ promises[s] > 0
    /\ promises' = [promises EXCEPT ![s] = @ - 1]
    /\ Call(t, IF promises[s] = 0 THEN <<Plain("broken", s)>> ELSE << >>)
    /\ UNCHANGED <<result, notify, chain, exec, taken, handle, life, jobs, dead, history>>

\* ~SharedPromise and deref(): fetch_sub; the last promise goes on to look
\* whether the cell was fulfilled.
DropPromise(t, s) ==
    /\ UserRuns(t)
    /\ Room(t, 1)
    /\ promises[s] > 0
    /\ promises' = [promises EXCEPT ![s] = @ - 1]
    /\ Call(t, IF promises[s] = 1 THEN <<Plain("broken", s)>> ELSE << >>)
    /\ UNCHANGED <<result, notify, chain, exec, taken, handle, life, jobs, dead, history>>

\* deref(): done = flags & fullfilled, read under the lock.
CheckBroken(t) ==
    /\ At(t, "broken")
    /\ LET s == Top(t).cell
       IN  Become(t, IF result[s] = "pending" THEN <<Plain("break", s)>> ELSE << >>)
    /\ UNCHANGED <<cellVars, jobs, dead, history>>

\* deref(): (*this)(FutureError("Broken Promise")).
BreakPromise(t) ==
    /\ At(t, "break")
    /\ LET s == Top(t).cell
       IN  /\ Fulfil(s, "broken")
           /\ Become(t, <<Drive(s)>>)
    /\ UNCHANGED <<notify, chain, exec, promises, taken, handle, life, jobs, dead, history>>

-----------------------------------------------------------------------------
\* Future objects.

\* Future::install, the part all continuations share: publish under the lock,
\* give the state up to continueChain.  The "Then() Called Twice" exit is the
\* guard on notify; FutureOwnsCell shows it cannot be taken.
Publish(s, k, e, c) ==
    /\ handle[s]
    /\ notify[s] = "null"
    /\ exec' = [exec EXCEPT ![s] = e]
    /\ chain' = [chain EXCEPT ![s] = c]
    /\ notify' = [notify EXCEPT ![s] = k]
    /\ handle' = [handle EXCEPT ![s] = FALSE]
    /\ attached' = [attached EXCEPT ![s] = @ + 1]

\* Seeded fault: continueChain is not called after publishing.
ThenNoDrive(t, s, k, e, c) ==
    /\ UserRuns(t)
    /\ Room(t, 2)
    /\ life[c] = "fresh"
    /\ Publish(s, k, e, c)
    /\ life' = [life EXCEPT ![c] = "chained"]
    /\ Call(t, <<Plain("give", c)>>)
    /\ UNCHANGED <<result, promises, taken, jobs, dead, delivered, dropped>>

\* Then and Try: the result goes to a new cell c, whose Future is returned to
\* the caller after continueChain has returned ("give").
Then(t, s, k, e, c) ==
    /\ UserRuns(t)
    /\ Room(t, 2)
    /\ life[c] = "fresh"
    /\ Publish(s, k, e, c)
    /\ life' = [life EXCEPT ![c] = "chained"]
    /\ Call(t, <<Plain("give", c), Drive(s)>>)
    /\ UNCHANGED <<result, promises, taken, jobs, dead, delivered, dropped>>

\* Seeded fault: continueChain is not called after publishing.
AtLastNoDrive(t, s, e) ==
    /\ UserRuns(t)
    /\ Publish(s, "last", e, Null)
    /\ UNCHANGED <<result, promises, taken, life, stack, jobs, dead, delivered, dropped>>

\* AtLast and Catch: no chain.
AtLast(t, s, e) ==
    /\ UserRuns(t)
    /\ Room(t, 1)
    /\ Publish(s, "last", e, Null)
    /\ Call(t, <<Drive(s)>>)
    /\ UNCHANGED <<result, promises, taken, life, jobs, dead, delivered, dropped>>

\* Then and Try return Future<Next>(chain).
GiveFuture(t) ==
    /\ At(t, "give")
    /\ handle' = [handle EXCEPT ![Top(t).cell] = TRUE]
    /\ Become(t, << >>)
    /\ UNCHANGED <<result, notify, chain, exec, promises, taken, life, jobs, dead, history>>

\* ~Future of a future nothing was attached to.
DropFuture(t, s) ==
    /\ UserRuns(t)
    /\ handle[s]
    /\ handle' = [handle EXCEPT ![s] = FALSE]
    /\ UNCHANGED <<result, notify, chain, exec, promises, taken, life, stack, jobs, dead, history>>

-----------------------------------------------------------------------------
\* continueChain: claim the continuation under the lock, then run it here or
\* hand it to its executor.

\* Seeded fault: notify is read but not reset under the lock.
ClaimKeepsNotify(t) ==
    /\ At(t, "drive")
    /\ LET s == Top(t).cell
       IN  IF result[s] = "pending" \/ notify[s] = "null"
           THEN Become(t, << >>)
           ELSE Become(t, <<[pc |-> IF exec[s] = "null" THEN "run" ELSE "exec",
                             cell |-> s, notif |-> notify[s]]>>)
    /\ UNCHANGED <<cellVars, jobs, dead, history>>

Claim(t) ==
    /\ At(t, "drive")
    /\ LET s == Top(t).cell
       IN  \/ /\ result[s] = "pending" \/ notify[s] = "null"
              /\ Become(t, << >>)
              /\ UNCHANGED notify
           \/ /\ result[s] # "pending" /\ notify[s] # "null"
              /\ notify' = [notify EXCEPT ![s] = "null"]
              /\ Become(t, <<[pc |-> IF exec[s] = "null" THEN "run" ELSE "exec",
                              cell |-> s, notif |-> notify[s]]>>)
    /\ UNCHANGED <<result, chain, exec, promises, taken, handle, life, jobs, dead, history>>

\* Executor::Execute returns Defer: the job sits in the executor's queue.
Defer(t) ==
    /\ At(t, "exec")
    /\ exec[Top(t).cell] = "pool"
    /\ jobs' = jobs \cup {[cell |-> Top(t).cell, notif |-> Top(t).notif]}
    /\ Become(t, << >>)
    /\ UNCHANGED <<cellVars, dead, history>>

\* StoppableExecutor::Execute: dead is read before job() is called.
ExecuteStoppable(t) ==
    /\ At(t, "exec")
    /\ exec[Top(t).cell] = "stoppable"
    /\ IF dead
       THEN /\ Become(t, << >>)
            /\ dropped' = [dropped EXCEPT ![Top(t).cell] = @ + 1]
       ELSE /\ Become(t, <<[Top(t) EXCEPT !.pc = "run"]>>)
            /\ UNCHANGED dropped
    /\ UNCHANGED <<cellVars, jobs, dead, attached, delivered>>

\* StoppableExecutor::Stop, if there is such an executor.
Stop(t) ==
    /\ UserRuns(t)
    /\ "stoppable" \in Executors
    /\ ~dead
    /\ dead' = TRUE
    /\ UNCHANGED <<cellVars, stack, jobs, history>>

\* A deferring executor calls a queued job on a thread of its own.
RunJob(t, j) ==
    /\ stack[t] = << >>
    /\ j \in jobs
    /\ jobs' = jobs \ {j}
    /\ Call(t, <<[pc |-> "run", cell |-> j.cell, notif |-> j.notif]>>)
    /\ UNCHANGED <<cellVars, dead, history>>

\* The executor drops a queued job: ~NotifyCtx calls notif(data, false).
DropJob(j) ==
    /\ j \in jobs
    /\ jobs' = jobs \ {j}
    /\ dropped' = [dropped EXCEPT ![j.cell] = @ + 1]
    /\ UNCHANGED <<cellVars, stack, dead, attached, delivered>>

-----------------------------------------------------------------------------
\* The type-erased continuations, notify(self, true).

\* notifyForward, and notifyImpl on an exception, never call the functor.
Bypasses(f) == \/ f.notif = "forward"
               \/ f.notif = "then" /\ result[f.cell] # "val"

\* Enter notify(self, true): the result of the cell is consumed here.
Invoke(t) ==
    /\ At(t, "run")
    /\ delivered' = [delivered EXCEPT ![Top(t).cell] = @ + 1]
    /\ Become(t, <<[Top(t) EXCEPT !.pc = IF Bypasses(Top(t)) THEN "pass" ELSE "fn"]>>)
    /\ UNCHANGED <<cellVars, jobs, dead, attached, dropped>>

\* notifyForward, and setResult<unpack> on an exception: the result moves on
\* to the chain as it is; then continueChain takes the chain up.
Pass(t) ==
    /\ At(t, "pass")
    /\ LET s == Top(t).cell
       IN  /\ Fulfil(chain[s], result[s])
           /\ Become(t, DriveChain(s))
    /\ UNCHANGED <<notify, chain, exec, promises, taken, handle, life, jobs, dead, history>>

\* Seeded fault: setResult catches what the functor throws and forgets it.
ReturnSwallows(t, r) ==
    /\ At(t, "fn")
    /\ Top(t).notif \in {"then", "try"}
    /\ LET s == Top(t).cell
       IN  /\ IF r = "exc" THEN UNCHANGED result ELSE Fulfil(chain[s], r)
           /\ Become(t, DriveChain(s))
    /\ UNCHANGED <<notify, chain, exec, promises, taken, handle, life, jobs, dead, history>>

\* setResult: the functor returned a value, or threw.
Return(t, r) ==
    /\ At(t, "fn")
    /\ Top(t).notif \in {"then", "try"}
    /\ LET s == Top(t).cell
       IN  /\ Fulfil(chain[s], r)
           /\ Become(t, DriveChain(s))
    /\ UNCHANGED <<notify, chain, exec, promises, taken, handle, life, jobs, dead, history>>

\* setResult: the functor returned the valid future of p, which becomes a
\* parent of the chain; continueChain(p) is nested in the loop on the chain.
ReturnFuture(t, p) ==
    /\ At(t, "fn")
    /\ Room(t, 1)
    /\ Top(t).notif \in {"then", "try"}
    /\ handle[p]
    /\ handle' = [handle EXCEPT ![p] = FALSE]
    /\ chain' = [chain EXCEPT ![p] = chain[Top(t).cell]]
    /\ notify' = [notify EXCEPT ![p] = "forward"]
    /\ attached' = [attached EXCEPT ![p] = @ + 1]
    /\ Become(t, DriveChain(Top(t).cell) \o <<Drive(p)>>)
    /\ UNCHANGED <<result, exec, promises, taken, life, jobs, dead, delivered, dropped>>

\* notifyLastImpl: the handler returned; there is no chain to go on with.
ReturnLast(t) ==
    /\ At(t, "fn")
    /\ Top(t).notif = "last"
    /\ Become(t, << >>)
    /\ UNCHANGED <<cellVars, jobs, dead, history>>

-----------------------------------------------------------------------------
\* ~Base.

\* Some rc::Strong<Base> to s is left: _refs > 0.
Referenced(s) ==
    \/ handle[s]
    \/ promises[s] > 0
    \/ \E t \in Threads : \E i \in DOMAIN stack[t] : stack[t][i].cell = s
    \/ \E j \in jobs : j.cell = s
    \/ \E q \in Cells : life[q] # "dead" /\ chain[q] = s

\* The last Unref deletes the cell; a continuation still published on it is
\* discarded with notify(this, false) and the chain is released in turn.
Destroy(s) ==
    /\ life[s] \in {"promised", "chained"}
    /\ ~Referenced(s)
    /\ life' = [life EXCEPT ![s] = "dead"]
    /\ notify' = [notify EXCEPT ![s] = "null"]
    /\ dropped' = [dropped EXCEPT ![s] = IF notify[s] = "null" THEN @ ELSE @ + 1]
    /\ UNCHANGED <<result, chain, exec, promises, taken, handle, stack, jobs, dead, attached, delivered>>

-----------------------------------------------------------------------------
\* What user code may do next.
UserStep(t) ==
    \/ Stop(t)
    \/ \E s \in Cells :
        \/ NewPromise(t, s)
        \/ CopyPromise(t, s)
        \/ GetFuture(t, s)
        \/ \E r \in {"val", "exc"} : Resolve(t, s, r)
        \/ DropPromise(t, s)
        \/ \E k \in {"then", "try"}, e \in Executors, c \in Cells : Then(t, s, k, e, c)
        \/ \E e \in Executors : AtLast(t, s, e)
        \/ DropFuture(t, s)

\* What the library does before user code of t runs again.
LibraryStep(t) ==
    \/ CheckBroken(t) \/ BreakPromise(t) \/ GiveFuture(t)
    \/ Claim(t) \/ Defer(t) \/ ExecuteStoppable(t)
    \/ Invoke(t) \/ Pass(t)

\* A continuation ends.
ReturnStep(t) ==
    \/ \E r \in {"val", "exc"} : Return(t, r)
    \/ \E p \in Cells : ReturnFuture(t, p)
    \/ ReturnLast(t)

ExecutorStep == \E j \in jobs : DropJob(j) \/ \E t \in Threads : RunJob(t, j)

Next ==
    \/ \E t \in Threads : UserStep(t) \/ LibraryStep(t) \/ ReturnStep(t)
    \/ ExecutorStep
    \/ \E s \in Cells : Destroy(s)

\* Threads are scheduled, a continuation that has been called returns (it
\* makes finitely many library calls, hence strong fairness), and an executor
\* runs or drops what it accepted.
Fairness ==
    /\ \A t \in Threads : WF_vars(LibraryStep(t)) /\ SF_vars(ReturnStep(t))
    /\ WF_vars(ExecutorStep)

Spec == Init /\ [][Next]_vars
FairSpec == Spec /\ Fairness

-----------------------------------------------------------------------------
\* Properties.

\* The library call at depth i of thread t's stack.
Working(t, i, pcs, s) == stack[t][i].pc \in pcs /\ stack[t][i].cell = s

Somewhere(pcs, s) ==
    \E t \in Threads : \E i \in DOMAIN stack[t] : Working(t, i, pcs, s)

\* No lost wakeup between operator() and Then/Try/AtLast, however their locked
\* sections interleave: while a fulfilled cell still has a published
\* continuation, some thread has yet to enter continueChain's lock for it.
NoLostWakeup ==
    \A s \in Cells :
        result[s] # "pending" /\ notify[s] # "null" => Somewhere({"drive"}, s)

\* Two drivers on one cell (a producer, the installer, the nested loop of
\* setResult) never run or delete a functor twice: of the one continuation a
\* cell ever gets, notify(self, true) and notify(self, false) together are
\* called at most once.
AtMostOnce ==
    \A s \in Cells :
        /\ attached[s] <= 1
        /\ delivered[s] + dropped[s] <= attached[s]

\* A continuation whose executor is null is discarded un-run only with a cell
\* that was never fulfilled: ~Base's notify(this, false) never throws away a
\* result somebody was waiting for.
DroppedOnlyUnresolved ==
    \A s \in Cells : dropped[s] > 0 /\ exec[s] = "null" => result[s] = "pending"

\* deref() reports "Broken Promise" only when no promise object is left that
\* could still have resolved the cell; the unlocked window between fetch_sub,
\* the read of done and operator() does not let a live promise lose to it.
BrokenOnlyWhenAbandoned ==
    \A s \in Cells :
        (result[s] = "broken" \/ Somewhere({"break"}, s)) => promises[s] = 0

\* Whoever holds a Future object is the only one who can attach: install's
\* "Then() Called Twice" cannot happen and setResult's unchecked write of
\* parent->notify overwrites nothing.
FutureOwnsCell ==
    \A s \in Cells : handle[s] => notify[s] = "null" /\ attached[s] = 0

\* A continuation that consumed its cell's result settles the chain, or is
\* still inside setResult, or has passed the duty to exactly the future it
\* returned, which has the same chain and has not delivered yet.
ChainAccounted ==
    \A s \in Cells :
        delivered[s] > 0 /\ chain[s] # Null =>
            \/ result[chain[s]] # "pending"
            \/ Somewhere({"fn", "pass"}, s)
            \/ \E p \in Cells \ {s} :
                /\ chain[p] = chain[s]
                /\ delivered[p] = 0 \/ Somewhere({"pass"}, p)

\* A fulfilled cell whose promises are all gone was fulfilled by them, and a
\* cell whose last promise goes away unfulfilled is broken: nobody who waits
\* for an abandoned cell waits for ever.
AbandonedIsSettled ==
    \A s \in Cells :
        life[s] = "promised" /\ promises[s] = 0 ~> result[s] # "pending"

Abstract == INSTANCE FutureCell

\* Every cell behaves like a write-once result with a one-shot continuation
\* that is delivered or dropped once the result is there (module FutureCell).
ImplementsCell == Abstract!CellSpec
=============================================================================

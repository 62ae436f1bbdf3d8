# rpcxx in TLA+

A verification development for rpcxx, the transport-agnostic JSON-RPC 2.0 library.
It holds TLA+ models of the parts of the library whose correctness depends on the order
in which things happen, of its reference counting and memory handling, and of the
algorithms on JSON documents; TLC configurations that check them on small instances; and
TLAPS proofs of nearly all safety properties of the concurrent and reentrant parts (futures,
combinators, both halves of a transport, client and server, reference counts, buffers and
arenas) for every value of their parameters. Paths are relative to the repository's root (`src/`).

## 1. The system: inventory

| Component | State it keeps | Operations | Where |
|---|---|---|---|
| Future/Promise core | `Base`/`Data<T>`: flags, value or exception, `notify`+`ctx`, `chain`, `exec`, the atomic counts `promises` and `_refs` | `Promise`, `SharedPromise` copy/drop, `operator()`, `GetFuture`, `Then`/`Try`/`AtLast`/`Catch`, `continueChain`, `setResult`, `~Base` | `include/future/future.hpp`, `src/future.cpp` |
| Executors | `StoppableExecutor::dead`, jobs an executor has queued | `Execute` (Done, Defer, Cancel), `Stop` | `include/future/executor.hpp` |
| Combinators | `GatherCtx` (results, `left`, promise, mutex), `MultiFuture`'s promises, `Signal`'s function, cancel tokens | `Gather`, `GatherTuple`, `MultiFuture`, `Signal`, `CancelController`, `ToStdFuture` | `include/future/{gather,multi_future,signal,cancel_token,to_std_fut,move_func}.hpp` |
| `IAsyncTransport`, requesting | `id`, `pending` (method, promise, timeout per id), `last` | `SendMethod`, `SendBatch`, `SendNotify`, responses in `Receive`, `CheckTimeouts`, `ClearAllPending`, destruction | `src/rpcxx/transport.cpp` |
| `IAsyncTransport`, answering | `handler`, `exec`, per batch a `Batch` (`left`, `parts`) | requests in `Receive`, `addBatchResp`, `sendResult`, destruction | `src/rpcxx/transport.cpp` |
| `Client` | `batchActive`, `currentBatch`, `transport`, `prefix` | requests, notifications, `StartBatch`, `BatchGuard::Finish`, `SetTransport` | `include/rpcxx/client.hpp`, `src/rpcxx/client.cpp` |
| `Server` | `calls`, middlewares, exception handlers, `fallback`, `current` | registration, `DoHandle`, `DoHandleNotify`, `OnForward`, extensions | `include/rpcxx/server.hpp`, `src/rpcxx/server.cpp` |
| `IHandler` | `routes` | `SetRoute`, `Handle`, `HandleNotify`, `sanitizeSlashes`, `tryRoute` | `include/rpcxx/handler.hpp`, `src/rpcxx/handler.cpp` |
| `Context`, protocol formatter, `ForwardToHandler` | a per-call map; none; a weak handler | field formatting, local forwarding | `include/rpcxx/{context,protocol,transport}.hpp` |
| Reference counting | strong count, weak block with spin lock | `Strong`, `Weak::lock/peek`, `Unref` | `include/rc/rc.hpp` |
| Memory buffers | cursor, capacity, what is left | `Out::Write/Grow`, `In::Read/Refill` | `include/membuff/membuff.hpp` |
| Arena | blocks, the next free address, what is left of it | `doAlloc`, `Clear`, moves | `include/json_view/alloc.hpp` |
| Mutable documents | a tree | `Assign`, `MergePatch`, `Unflatten`, `View` | `include/json_view/json.hpp` |
| Views, algorithms and codecs | none | conversions, lookup, sorted insertion, comparison, copies, JSON pointers, JSON and MessagePack | `include/json_view/`, `src/json_view/` |
| Code generator | none at run time | Lua to C++/Go text | `codegen/` |

How they interact. A `Client` makes a `Promise<JsonView>` per request and hands it to a
transport, which keeps it in `pending` under the id it puts on the wire. The peer's
transport gives the message to an `IHandler` (usually a `Server`, perhaps through routes)
with a promise whose continuation, run by the transport's `StoppableExecutor`, sends the
response. `Receive` on the requesting side looks the id up and fulfils the promise, which
at once runs the client's continuations: **user code runs inside of the transport's
loops**. Asynchronous handlers and user continuations may run on any thread, so the
future core is the only part with locks, and every other part relies on it.

What is hard, and what therefore the properties are about:

- *Futures*: attach and resolve race on two threads; several drivers meet in
  `continueChain`; a continuation may return another future, which is spliced into the
  chain; the last promise may go away while another thread looks; executors defer, cancel
  and drop. Correct means: no lost wakeup, a continuation runs or is dropped once, a
  result that was consumed reaches its chain, only abandoned cells are broken.
- *Requests*: responses come late, twice, out of order, malformed or from inside of
  `Send`; callbacks send, receive, check timeouts and cancel while an iterator into
  `pending` is live, and may erase the entry it stands at; timeouts are counted per call of
  `CheckTimeouts`, in whole milliseconds. Correct means: no request is forgotten, none gets
  another's answer, every erase hits the entry it was meant for, timeouts happen.
- *Batches on the answering side*: parts answer at once, later or never, on one thread or
  many, also while the transport is destroyed. Correct means: one response, and complete.
- *Calls*: one thread, but client, transport, routes, server, handlers and continuations
  call back into each other. Correct means: no request is lost, a batch holds what was put
  into it, no handler sees another request's context, and a name finds its handler.
- *Combinators*: handlers of a gather run under its mutex on whichever thread, and run
  continuations that resolve more futures; subscribers subscribe from callbacks. Correct
  means: the output keeps its promise and nobody blocks for ever, every subscriber is told.
- *Reference counts*: the last `Unref` races with `Weak::lock`, under a lock or, for every
  handle type the library has, without one. Correct means: no use after free, no leak, no
  double delete, and no `lock` of an object whose last reference has gone.
- *Documents and memory*: boundaries of encodings and of integer types, seams of buffers,
  alignment and reuse of blocks, order of keys after many edits. Correct means: what comes
  back is what went in, lookups find what is there, regions do not overlap.

## 2. Modules

| Module | Models | Extends / used by |
|---|---|---|
| `FutureCell` | the abstract promise of a future: write-once result, one-shot continuation | refined by `Future` |
| `Future` | `future.hpp`, `future.cpp`, `executor.hpp` | `MCFuture`, `FutureProofs` |
| `FutureProofs` | the inductive invariants, the TLAPS proofs and the refinement of `FutureCell`'s safety | extends `Future` |
| `TransportClient` | the requesting half of `transport.cpp` | `MCTransportClient`, `ClientProofs` |
| `ClientProofs` | what a step may do to the stack of calls and to the table, and where the time of a request went | extends `TransportClient` |
| `TransportServer` | the answering half of `transport.cpp` | `MCTransportServer`, `ServerProofs` |
| `ServerProofs` | the counting invariant of a batch | extends `TransportServer` |
| `Routing` | names (`sanitizeSlashes`, `tryRoute`, `addPref`) and messages (`protocol.hpp`) as operators | `Calls`, `RoutingProofs` |
| `RoutingProofs` | induction over sequences; what names and messages come to | extends `Routing` |
| `Calls` | `client.*`, `server.*`, `handler.*`, `ForwardToHandler`, `IClientTransport` | `MCCalls`, `CallsProofs` |
| `CallsProofs` | contexts on the call stack, the batch, the one place of a request, the way of a name | extends `Calls`, `RoutingProofs` |
| `GatherSpec` | the abstract promise of a gathered future | refined by `Gather` |
| `Gather` | `gather.hpp`, `to_std_fut.hpp` | `MCCombinators`, `CombinatorProofs` |
| `Broadcast` | `multi_future.hpp`, `cancel_token.hpp` | `MCCombinators`, `CombinatorProofs` |
| `CombinatorProofs` | the loop over subscribers; the results of a gather and its refinement | extends `Gather`, `Broadcast` |
| `RefCount` | `rc.hpp` | `MCRefCount`, `RefCountProofs` |
| `RefCountProofs` | references as a set, the single deleter, what a held lock means, until a `lock` meets the last drop | extends `RefCount` |
| `JsonObjects` | objects as sorted arrays: insertion, erasure, binary search | `JsonDoc`, `StorageProofs` |
| `JsonDoc` | nodes, lookup, `algo.*`, mutable documents | extends `JsonObjects`; the five below |
| `JsonPointers` | `pointer.*`, `Flatten`, `Unflatten` | `Documents` |
| `MsgPack` | `dump_msgpack.cpp`, `parse_msgpack.cpp` | `JsonText` |
| `JsonText` | `dump_json.cpp`, `parse_json.cpp` at the level of tokens | `Documents` |
| `JsonConvert` | `Convert<T>`, `intChecked`, struct and enum conversions, static views | `Documents` |
| `MemBuff` | `membuff.hpp` | `Documents`, `StorageProofs` |
| `Arena` | `alloc.hpp` | `Documents`, `StorageProofs` |
| `StorageProofs` | where the bytes, the regions and the keys are | extends `MemBuff`, `Arena`, `JsonObjects` |
| `Documents` | the composition: edits, dumps through buffers, parses, conversions, arenas | `MCDocuments` |
| `MC*` | symmetry sets, message sets and documents for TLC | |

Some definitions are preceded by variants marked "Seeded fault". They are not part of any
specification: each is a plausible mistake in the code, and putting it in the place of the
definition that follows makes TLC report the property it is paired with in `PROJECT.json`
("mutants"). This shows that the properties are sensitive to the code they speak of.

### Future

A *cell* is one `Data<T>`. `result` stands for `fullfilled`, `has_val` and `exc`; `notify`,
`chain`, `exec`, `promises` and `taken` are the fields of the same names; `handle[s]` says
that user code holds the `Future` object of `s`; `life` tells how a cell came to be and
whether `~Base` has run. Every `lock_guard` block and every atomic operation of the code is
one step. A thread is the stack of library calls it is inside of: `drive` is
`continueChain` before its lock, `exec` the claimed continuation on its way to an executor,
`run` before `notify(self, true)`, `fn` inside the user's functor, `pass` inside
`notifyForward` (or `setResult` with an exception), `broken`/`break` the two halves of
`deref`, `give` a `Then` that has yet to return its future. User code may call anything
whenever its stack is empty or a functor is on top of it, so continuations resolve, attach,
copy, drop and return futures themselves.

Operations and actions: `Promise()` is `NewPromise`; copy/`ref` `CopyPromise`; `GetFuture`
`GetFuture`; `operator()` `Resolve`; `deref` `DropPromise`, `CheckBroken`, `BreakPromise`;
`install` is `Publish` inside `Then` (also `Try`) and `AtLast` (also `Catch`);
`continueChain` is `Claim` with `Defer`, `ExecuteStoppable` or the inline `run`, and
`DriveChain` for its next round; the type-erased continuations are `Invoke`, `Pass`,
`Return`, `ReturnFuture`, `ReturnLast`; `NotifyCtx` is `jobs` with `RunJob` and `DropJob`;
`~Base` is `Destroy`. `attached`, `delivered` and `dropped` are history: they count events
and no guard reads them.

Abstractions: values are `"val"`, exceptions `"exc"`, the library's own error `"broken"`;
moving a promise or a future changes no shared state and is no step; a continuation
returns valid futures only (the code dereferences null otherwise).

### TransportClient

`pending`, `id` and `left` (`Transact::timeout`) are the table; `elapsed` is the time since
`Impl::last` in clock ticks, `TicksPerMs` of them per millisecond, so the truncation of
`duration_cast` is modelled. The transport is used by one thread, and the stack holds the
calls that thread is in: `send` (inside of `Send`), `parts` (responses of a message left to
handle), `erase` and `step` (an iterator at an entry whose promise has been fulfilled, to be
erased or advanced), `check` and `clear` (the two iterations with what is left to visit),
`user` (a callback) and `destroy` (`pending.clear()`).

Whoever is at the top may call: the event loop and any callback may send, call `Receive`,
`CheckTimeouts` and `ClearAllPending`, and `Send` may call `Receive` (as a transport does that
hands its message to the peer at once). `Receive` has no guard, and neither has its action:
any request on the wire may be answered at any time, any number of times, alone or in a
batch, from wherever the thread is. `Send` may throw. Destruction takes one entry after the
other away, and each broken promise runs its callback (`Break`).

What the code does not defend against is in the model and not guarded out:

- A call from inside of a callback may settle the same request again (a duplicate response, a
  timeout) and erase its entry, while `handleRespToClient`, `CheckTimeouts` or
  `ClearAllPending` further down still holds an iterator to it. `overtaken` records that it
  happened; when the iterator is used after that, `Dangling` is the step: the process ends, or
  an arbitrary entry or none is erased and the loop goes on anywhere, and `undef` is set.
  The library does not say that callbacks must not do this.
- An insertion during an iteration may rehash the table, after which anything may be visited
  or skipped (`AfterInsert`). `missed` has the requests of an iteration of `CheckTimeouts` that
  was disturbed by a rehash or by a nested `CheckTimeouts`.
- A callback of `pending.clear()` may call the transport that is being destroyed
  (`CallDying`): undefined as well.
- `Drops` counts in `lost` the parts of milliseconds that `CheckTimeouts` forgets.

A transport is not destroyed from inside of one of its own calls, which would leave every
frame of that call in a deleted object. When an id comes round, `addPending` rejects the
older request; the callback this runs is not a frame of its own. The peer and the link are
external.

### TransportServer

One message is served: its parts are methods that answer at once (`sync`) or later
(`async`), notifications, invalid parts, and parts without a method. `left` and `parts` are
the fields of `Batch`, `left` with the wrap-around of its unsigned type. A read-modify-write
of them is two steps (`LoopLoad`/`WorkerLoad`, then the write): without a lock the C++ memory
model does not promise more. With `OneThread` the completions run on the transport's
thread, between its calls; otherwise each runs on a thread of its own.

`Destroy` begins `~Impl`, which clears `pending` (`life` = `clearing`) before it stops the
executor (`Stop`, `life` = `gone`). The continuation of a broken client promise may resolve a
promise of a handler while `pending` is cleared; the executor still runs the completion, on
the same thread, and it calls `Send` of an object whose derived part is gone: `life` =
`crashed`. The same state is reached by a completion on another thread that the executor had
let through when it was stopped. The code allows both, so no property denies them; what is
stated of responses holds up to there.

### Calls and Routing

One thread. `stack` holds the calls that have not returned: `batch` (the loop of
`SendBatch`), `route` (`Handle` about to look for a route), `body` (user code of a handler),
`leave` (`DoHandle` with its answer given, the context yet to be reverted) and `callback`
(a client's continuation, which runs inside of the call that fulfils its promise). Whenever
user code is on top it may do anything: ask, notify, start or finish a batch, or change the
configuration (`SetTransport`, `SetPrefix`, `SetRoute`, `registerCall`, `Unregister`,
`SetFallback`, destroy a server). `Request` is `sendRequest` and `NotifyRaw`, `Finish` is
`BatchGuard::Finish` up to `SendBatch` and `BatchDone` the rest of `batchDone`; `Receive` is
a peer's request that comes out of `handleServer`; `Forward`, `ForwardToTransport` and
`DoHandle` are the branches of `IHandler::Handle` and `HandleNotify` with the server's hooks
inside; `HandlerReturns`, `HandlerThrows` and `Settle` are the three ways an answer comes
about. A promise is answered once (`Fulfil`, from module `Future`), through the
continuations that `OnForward` left on it (`Through`). What an exception handler does is one
of four things (nothing, override with an `RpcException`, override with something else,
throw). A name is a sequence of words and slashes; names are really sanitized, cut and
prefixed, and messages really built and read back. `own` in a frame records, for
`OwnContext`, that a nested call to the same server has come in between.

A server is not destroyed, and a method not unregistered, while it is running: the code
would continue in a deleted object. An asynchronous handler's promise is resolved from
outside of all calls (`Settle` needs an empty stack), not from inside of another handler; and
a server finds methods whose names are one word, while `server.cpp:242` would also accept a
registration under a name with `/` in it. `IAsyncTransport`'s own state is in the two transport
modules; here a transport is either the synchronous `ForwardToHandler` or gone.

### Gather, GatherSpec and Broadcast

Futures are the cells of `FutureCell`: resolving, attaching and running the handler once are
taken from there. Threads hold stacks of what they are doing: wait for the mutex, handle a
result, run the output's continuation (which resolves the futures in `Feeds`), unlock.
`GatherSpec` says what a gathered future promises, without threads and mutexes: it settles
once, with a value only if all inputs have one, with an exception only if one failed, and
when it can settle it will. `KeepsPromise` is `GatherSpec` under the mapping `input <- src`,
`output <- out`. `FeedsAssumption` excludes gathers that feed each other in a cycle: with
each thread holding the mutex that the other wants they would wait for ever, and the code
does not protect against it. A cycle of one gather with itself is allowed, as the mutex is
recursive. `GatherTuple` counts up where `Gather` counts down and is the same otherwise.

`Broadcast` has one thread, whose calls nest. A subscription from a callback may reallocate
the vector that the loop iterates over; the rest of that loop is then undefined behaviour,
which the model takes as a choice between doing nothing and going on as if nothing had
moved. `CancelReachesAll` excepts this case, and only this one.

### RefCount

Two `Strong` variables and one `Weak` for each thread, a `Strong` member in each object.
Each atomic operation is a step. `mode` is the static type behind the handles: on
`WeakableVirtual` itself overload resolution finds the `Unref` that takes the block's lock
(`exact`), on a derived class the template of `DefaultBase`, which does not. Every handle type
in the library is of the second kind. `Weak::lock` takes the block's lock in both modes, reads
`data` (`WeakTake`) and makes a `Strong` of it (`WeakGrab`), as the code does: a reference is
added to the object some steps after it was found. When the last reference goes between
those two, or `lock` comes while the object is being deleted, `lock` hands out an object that
is deleted all the same; `raced` records it. `LockNeverRaces` says that this cannot happen in
mode `exact`; in the other mode it does happen, and the other three properties say that
nothing else goes wrong until then. The library's own code calls `peek` on one thread and not
`lock`, so the race is open to its users only. `crashed` is the null dereference of the locking
`Unref` on an object that never had a weak block; no type in the library reaches it.

All handles have one static type, so the offset that `Weak` adds to `data` is zero; that `lock`
and `peek` add it to a null `data` as well (`rc.hpp:181`, `186`) is not modelled.

### JsonObjects, JsonDoc, JsonPointers, MsgPack, JsonText, JsonConvert

A node is a pair of a type and a payload; numbers are eight bytes, strings and keys
sequences of bytes, objects sequences of pairs in storage order, so that sorting, binary
search and encodings are the code's and not the model's. Exceptions are a result of their
own (`Thrown`). The writers yield the list of their `Write` calls, the readers take bytes
and a position. Between text and tokens stands rapidjson, which is vendored: `JsonText`
starts at tokens, and what a number looks like after printing and reading (`Lexed`) is
marked external. In `JsonConvert` integers have `Bits` bits in place of 64, so that all of
them, signed and unsigned, can be enumerated; types are records of a kind and their parts.

### MemBuff, Arena and Documents

`MemBuff` runs the writer's `Write` calls through an `Out` of a few bytes (growing or
flushed), and then a reader's loop through an `In` that is refilled. `Arena` has addresses
made of a block and an offset, blocks that are freed and come back, three arenas of which
one starts on the stack, and the documents that own them. `Documents` puts the pieces
together in behaviours of four kinds (`scene`): a mutable document that is edited in any
order; a document dumped, carried by the buffers, and parsed; a C++ value converted to a
document and back; and arenas.

## 3. Runs

| Run | Configuration | Checks |
|---|---|---|
| `future_chains` | 2 threads, 3 cells, inline continuations, 2 promises per cell, depth 3 | `TypeOK`, `NoLostWakeup`, `AtMostOnce`, `FutureOwnsCell`, `ChainAccounted`, `DroppedOnlyUnresolved`, `BrokenOnlyWhenAbandoned` |
| `future_executors` | 2 threads, 2 cells, deferring and stoppable executors, fair | `AbandonedIsSettled`, `ImplementsCell` |
| `client_table` | 2 requests of 1 ms or without timeout, 2 ids, 2 ticks per ms, calls nested 4 deep, rehash | `TypeOK`, `Accounted`, `AnsweredByOwn`, `ErasesWhatItFound`, `NoOverdue` |
| `client_timeouts` | 2 requests of 2 ms, 2 ticks per ms, checks a ms or more apart, fair | `TimesOut` |
| `server_batch` | all messages of up to 3 parts, one thread, fair | `TypeOK`, `SentOnce`, `SentComplete`, `MethodLastAnswered` |
| `calls` | 2 servers, a route, a proxy and a route to itself, 2 requests, 1 batch, 1 change | `TypeOK`, `Accounted`, `BatchHolds`, `OwnContext`, `RejectedStaysRejected`, `RoutedByName`, no deadlock |
| `combinators` | 3 gathers of 5 futures, a caller and 2 workers, fair; 4 subscribers | `KeepsPromise`, `ValuesComplete`, `CalledOnlyByCancel`, `CancelReachesAll`, no deadlock |
| `refcounts` | 2 threads, 2 objects, both overloads of `Unref`, `lock` | `CountsHandles`, `NoUseAfterFree`, `LockNeverRaces`, `WeakSeesLife` |
| `documents` | see below | `ViewFinds`, `PatchIsRfc7386`, `FlattenInverts`, `RoundTrip`, `ConvertsBack`, `BytesInOrder`, `RegionsDisjoint` |
| `client_early` | 1 request of 2 ms | `NoEarlyTimeout`: violated |
| `server_part_order` | messages of 2 parts, one thread, fair | `Answered`: violated |
| `server_batch_race` | messages of 2 methods or notifications, many threads, fair | `Answered`: violated |

Why the bounds are enough. The races of the future core are between two parties on one
cell (producer and installer, last promise and late resolver, two drivers), so two threads
meet all of them; a splice involves three cells (the continuation's, its chain, the
returned future). Depth 3 lets a continuation resolve, attach or return a future from
inside of a call; `MaxPromises` = 2 gives the last promise a rival. The proofs (section 5)
remove the bounds of every run for most of its safety properties; what they leave to these
bounds is named at the end of that section. In `client_table` two requests
make a batch, or one whose callback sends, answers or times out the other while the first is
iterated over or waits to be erased; there are as many ids as requests, because the counter is
a `size_t`, so id reuse is not reached. Two are too few for a rehash to hide a third from
an iteration, which is where the exception that `NoOverdue` makes for `missed` matters; all
five properties are proved for any number of requests. A call is made with fewer than
`MaxDepth` frames below it: with four, a callback that runs while an entry waits to be erased
sends, and a duplicate for that entry arrives inside of this `Send`; nested checks and nested
cancels fit as well. `MaxTicks` bounds the time between two checks: it is a whole millisecond,
so that a check charges nothing, or charges one; with `MaxTicks` = 3 in `client_timeouts` it
charges one and drops a part of another. `MaxAge` is how long a request is watched, its timeout
in ticks, the age at which it is overdue when no check has dropped anything; it is 0 where
no property is about ages. `Period` is how many ticks the application lets pass between two
checks: none where it may check at any time, a millisecond in `client_timeouts`.

In `server_batch` three parts are the fewest that have a part before, between and after others.

In `calls` two requests are enough for a request inside of a handler or of a continuation
of the other, and for a batch of two; names go through no, one and two routes, through the
proxy, with and without stray slashes; one change of the configuration falls into every gap.
In `combinators` the first gather feeds the second and itself, so that handlers nest in the
same and in another mutex while the workers compete for both; the vector of subscribers
reallocates at 1, 2 and 4. `refcounts` has the two parties that a race on a count needs, and
an object that holds another, so that deletions nest. In `documents` the store has two keys,
pointers of up to two parts, and any number of edits; the pipe sends every scalar at the
edges of the encodings (2^7, 2^8, 2^16, 2^31, 2^32, 2^63, strings of 0, 1, 31, 32, 255 and
256 bytes, arrays and objects of 15, 16 and 17 elements), limits of depth around the height
of the document, and some 1500 byte strings that nobody dumped; conversions cover every
value of every integer type of up to 4 bits and one type of each other kind; arenas have two
blocks to reuse and three live regions of two sizes and alignments.

`calls` and `combinators` check for deadlock: a program at rest is a state of its own there
(`Idle`, `Finished`), and every other state must have a step. In the other runs an
application may stop calling the library, or a document comes to its end, anywhere.

Symmetry is used for threads, cells, objects and requests in the runs without liveness only; no
definition tells them apart.

## 4. Fairness

- `Future`: a thread inside of a library call goes on (weak fairness of `LibraryStep`),
  and a functor that was called returns (strong fairness of `ReturnStep`: a functor may
  make calls in between, finitely many). An executor that answered `Defer` runs or drops
  the job some time. User code owes nothing: it need not resolve, attach or drop.
- `TransportClient`: the thread goes on, callbacks and `Send` return, time passes, and the
  application calls `CheckTimeouts` again and again, `Period` ticks or more after the last
  call. The last one is what the library's documentation asks of the application. Strong
  fairness, because other calls come between: a callback or `Send` may be called back into
  any number of times, and returns all the same. How often one may poll the documentation
  does not say; a millisecond or more is what the code needs (section 6).
- `TransportServer`: `Receive` goes on, and every asynchronous handler resolves or drops
  its promise some time. A dropped promise counts, since `Future` breaks it
  (`AbandonedIsSettled`).

- `Gather`: the caller attaches its handlers and returns from `get`, and every worker goes
  on, resolving the futures that nobody else resolves. `KeepsPromise` needs no more, as it
  promises nothing about a gather whose inputs stay open.

## 5. What is proved

Every theorem holds for all values of the constants that satisfy the named assumptions of its
module. These exclude values that are not of the right kind, markers that are also data
(`NoneAssumption`, `Null`, `Nowhere`), gathers that feed each other in a cycle
(`FeedsAssumption`), and reads that are not as large as the buffer (`SizesAssumption`, which
is how the parsers read). Two hypotheses are stated in the theorems themselves, because
the code does not establish them:

- `OneThread` (`TransportServer`): completions run on the transport's thread. Without it
  `left` and `parts` are changed without a lock, and the run `server_batch_race` shows what
  happens.
- `NoWrap` (`ClientProofs`, for `ClientAnsweredByOwn` and `ClientErasesWhatItFound` only): no
  more requests are ever made than there are ids. The counter is a `size_t`, and `addPending`
  rejects the older request when an id comes round.

The run that checks a property satisfies the hypotheses of the theorem that states it.

### Futures

`FutureProofs`, for any sets of threads, cells and executors:

| Theorem | Statement |
|---|---|
| `TokenInvariant` | `Spec => []IInv` |
| `TypeCorrect` | `Spec => []TypeOK` |
| `NeverLosesWakeup` | `Spec => []NoLostWakeup` |
| `RunsAtMostOnce` | `Spec => []AtMostOnce` |
| `DropsOnlyUnresolved` | `Spec => []DroppedOnlyUnresolved` |
| `BreaksOnlyAbandoned` | `Spec => []BrokenOnlyWhenAbandoned` |
| `FutureIsExclusive` | `Spec => []FutureOwnsCell` |
| `ChainsAreSettled` | `Spec => []ChainAccounted` |
| `ImplementsCellSafely` | `Spec => Abstract!CellSafety` |

The argument. None of the properties is inductive by itself: that a functor is called once
depends on who else may be carrying it. `IInv` therefore treats a cell's continuation as a
*token* with one place at a time. It is unborn while nothing is attached, and then the right
to attach is held by one `Future` object or by one `Then` about to return it (`HandleAt`);
published in `notify` (`PublishedAt`); claimed, by one frame of one thread's stack or by one
queued job (`ClaimedAt`); or gone, delivered or dropped (`HistoryAt`). `WakeAt` adds that a
published token on a fulfilled cell has a driver on its way: `Resolve` puts one on the stack
after fulfilling, `Publish` after publishing, and only `Claim`, which takes the token, and a
`Claim` that finds the cell pending or empty remove one. `LifeAt` and `ChainAt` tie this to
the life of cells (a fresh or deleted cell has no frames or jobs; a chain outlives whoever
points to it), which `Destroy` needs to drop only what nobody can deliver any more, and
`LifeAt` also carries the count of promises that `deref` relies on.

Layout: `CallStack` and `BecomeStack` say how a push and a replacement of the top change
which calls are somewhere on a stack and that uniqueness is kept; there is one lemma per
action (`ResolveIInv`, `ClaimTakesIInv`, ...), with one step per conjunct the action can
disturb; `UserStepIInv`, `LibraryStepIInv` and `NextIInv` put them together; the theorems
follow from `TokenInvariant`.

`ChainAccounted` speaks of the future that `Then` returned: whoever took on the duty to
fulfil it must not forget it. `DutyInv` adds to `IInv` who that is once a continuation was
called (`DutyAt`): the functor or `notifyForward`, while it runs; afterwards the future that
the functor returned (`HandedTo`), which was attached by `setResult` itself, holds nothing but
the continuation that forwards into the same chain, and has not delivered it or is in the
middle of it. That it holds nothing else is what makes it inductive, and it is `IInv` that
shows it: nobody else had the right to attach there. A chain is never settled by
"last" continuations (`Held`), and the result of a cell stays once it is there (`FulfilKeeps`).

The refinement mapping is the identity on `result`, `attached`, `delivered` and `dropped`.
Each action of the code changes at most one of the four, at one cell, and the invariant
supplies the guard of the abstract step: the carrier of a claimed token finds the cell
settled and the continuation waiting (`CarriedIsWaiting`), a `Future` object finds nothing
attached (`AttachesFirst`), and fulfilling twice changes nothing (`FulfilSettles`).

### Combinators

`CombinatorProofs`, for any subscribers, gathers, futures, lists and feeds:

| Theorem | Statement |
|---|---|
| `CallbackOnce` | `BroadcastSpec => []CalledOnlyByCancel` |
| `CancelComplete` | `BroadcastSpec => []CancelReachesAll` |
| `GatherComplete` | `Spec => []ValuesComplete` |
| `GatherImplements` | `Spec => Promise!SafeSpec`, the safety half of `KeepsPromise` |

`BroadcastInv` says what each subscriber has had relative to the position of the loop.
`GatherInv` counts: `left` is the number of inputs whose value is not stored yet (`CountInv`),
the handler of an input is on one stack at most, once (`HandledOnce`), and while it is there
its input has a result that is not stored yet (`FrameInv`). A step of `Gather` then is a step of `GatherSpec`
(an input settles, the output settles) or none, with the guard supplied by the count.

### Transports

`ServerProofs`, for any messages; `ClientProofs`, for any requests, timeouts and nesting:

| Theorem | Statement |
|---|---|
| `ServerTypeOK` | `Spec => []TypeOK`, on one thread or many |
| `ServerSendsOnce` | `OneThread /\ Spec => []SentOnce` |
| `ServerSendsAll` | `OneThread /\ Spec => []SentComplete` |
| `ClientTypeOK` | `Spec => []TypeOK`, also when ids come round |
| `ClientAccounted` | `Spec => []Accounted`, also when ids come round |
| `ClientAnsweredByOwn` | `NoWrap => (Spec => []AnsweredByOwn)` |
| `ClientErasesWhatItFound` | `NoWrap => (Spec => []ErasesWhatItFound)` |
| `ClientNotOverdue` | `Spec => []NoOverdue`, for any tick length, polling and rehash |

`ServerInv`: on one thread what was read of a `Batch` is never stale, and `left` is the number
of parts the loop has yet to take and of handlers that have yet to answer; so it reaches zero
in `addBatchResp` only when every part has its response.

The theorems about requests share one lemma on the stack, `StackSteps`: a step leaves the
frames below the top as they are, but for what a loop has still to visit, and what it puts on
top is of a few kinds (`Fresh`): among them an iterator only to an entry that is there,
with the request that is in it. And one on the table: all steps but sending let it wear
(`StepWears`), entries leave and nothing comes; sending adds (`SendAdds`).

- `AccountInv` (`ClientAccounted`): an iterator whose entry is about to be erased stands at a
  settled one (`HoldsSettled`), so `Erase` breaks no open promise.
- `ClientInv` (`ClientAnsweredByOwn`): the next id is the number of requests sent so far, so an
  entry once erased never comes back (`TableInv`), and every message, on the wire (`WireInv`)
  or being handled (`PartsInv`), names the request that was sent under its id (`Truthful`).
- `EraseInv` (`ClientErasesWhatItFound`): unless `overtaken`, every iterator is true to its entry
  (`HoldsTrue`) and no two that will be erased stand at the same one (`Apart`); so none of the
  calls that a callback may make takes an entry away under an iterator except by settling
  its request again.
- `TimelyInv` (`ClientNotOverdue`): the time of an open request was taken from what is left of
  it, or was dropped by a check, or has passed since the last one, or is owed by an iteration
  that has yet to come to it (`Covered`); and a request with nothing left is one that such an
  iteration will reach, or that is as young as the last check (`Running`).

### Calls

`CallsProofs` and `RoutingProofs`, for any servers, methods, names, routes, middlewares,
nesting and number of requests:

| Theorem | Statement |
|---|---|
| `CallsOwnContext` | `Spec => []OwnContext` |
| `CallsBatchHolds` | `Spec => []BatchHolds` |
| `CallsAccounted` | `Spec => []Accounted` |
| `CallsRejectedStay` | `Spec => []RejectedStaysRejected` |
| `CallsRoutedByName` | `Spec => []RoutedByName` |
| `CallsTypeOK` | `Spec => []TypeOK` |
| `SanitizedAsPromised` | `sanitizeSlashes` returns the words of a name, with single slashes between them |
| `RoutedByFirstWord` | `tryRoute` takes the first of several words if it is mounted, and leaves the others |
| `RequestReadBack` | a request or notification that was built is recognised as such and read back as it was |
| `ResponseReadBack` | a response that was built is not taken for a request and is unpacked to what was put in |

`CallsInv` reads the stack from the bottom: a handler is interrupted when a later call is
inside of the same server (`Interrupted`), it does not own its context any more then, and
every other handler does or sees the fallback (`CurrentOK`); and a batch is active exactly
while it is collected, sent, or has failed. `AccountInv` gives each request slots: the batch
that is collected, and each frame of the stack. It is in one slot at most, once (`One`), or in
the hands of an asynchronous handler and in no slot; if it is not answered it is somewhere
(`Somewhere`); and if it is somewhere although it is answered, a route middleware threw at it.
Every step moves the request of the innermost call only (`TopStep`), makes one, or moves a
whole batch. The continuations of `OnForward` and the exception handlers are folds over
sequences of any length: `FoldTyped` and `FoldExists` prove by induction over the natural
numbers (`RoutingProofs`, from the library's well-founded order) that such a fold exists and stays in the set
its steps stay in.

`NamesInv` follows a name. What is left of it at a server is what the words before it have
led to (`Routed`): there is a path of servers from `Main`, one per word that was taken, and
each word is mounted at one server and leads to the next, perhaps through the proxy. A route
that is taken makes the path one word longer (`RoutedByFirstWord`), a name that goes over
the wire or through the transport keeps its words, and a handler runs only when one word is left.
`req` is only appended to, so the name on which the path is read does not change, and
`SettingsOK` bounds what any change of the prefix or of the routes can leave behind. A name is
a sequence of words and slashes in which no two words are neighbours (`IsName`, in
`NamesAssumption`); `Parts` is what it is made of. `sanitizeSlashes` is a fold too:
`SqueezedOK` is its loop invariant.

### Reference counts

`RefCountProofs`, for any threads and any finite set of objects, with both overloads of `Unref`:

| Theorem | Statement |
|---|---|
| `RefCountsHandles` | `Spec => []CountsHandles` |
| `RefNoUseAfterFree` | `Spec => []NoUseAfterFree` |
| `RefWeakSeesLife` | `Spec => []WeakSeesLife` |
| `RefLockNeverRaces` | `Spec => []LockNeverRaces` |

`RefInv` counts the references to an object as a set: variables, members of other objects, and
`Unref` calls that have not subtracted yet. Every step moves one, makes one or ends one, so
`refs` stays the size of that set, and the call that takes it to zero is alone: there is one
deleter (`EndInv`). `LockInv` says what a held lock of a weak block means, and that the block
cannot go meanwhile (`Pinned`: the holder has a `Weak` to it, or a reference is left, or the
holder is the one that has yet to delete). `BlockInv` counts the references to the block in
the same way. All of this holds until a `lock` meets the drop of the last reference
(`SafeInv`); in mode `exact` it never does, because the count goes to zero and `data` is cleared
under the lock that `lock` holds from its look at `data` to its reference.

### Buffers, arenas and objects

`StorageProofs`, for any bytes, writes, sizes and alignments, and objects of any size:

| Theorem | Statement |
|---|---|
| `BuffKeepsBytes` | `BuffInit(writes) /\ [][BuffNext]_buffVars => []BytesInOrder` for any `writes` |
| `ArenaKeepsApart` | `ArenaInit /\ [][ArenaNext]_arenaVars => []RegionsDisjoint` |
| `SortedInsertPuts` | `SortedInsert` of an object is an object, with the entries of a map after `m[key] = value` |
| `EraseKeyRemoves` | `EraseKey` of an object is an object, with the other entries |
| `SortedFindFinds` | `SortedFind` in an object ends at the key, or at 0 if no entry has it |

`BuffPlaces` says where the bytes are: what was sent is the stream, the `Out`'s buffer and what
is left of the `Write` in progress while there are writes, and afterwards what the reader has,
the part of a `Read` that is copied, the `In`'s buffer and the stream, in this order. `ArenaInv`
says that every region lies in a block of its arena, below the next free address if that is
in the same block (`RegionOK`), that the next free address and `space` span the rest of a
block (`PtrOK`), and that a block in use has one owner (`AllocsOK`). The
runs check both properties inside of `Documents`, whose scenes for buffers and arenas take the
steps of these two modules.

An object is an array sorted by key (`Objects`), and `Entries` is what it says: the two
together are the map that a reader has in mind. `KeyLess` is a strict total order on byte
strings (`KeyLessTransitive`, `KeyLessTotal`), so the keys less than a given one are a prefix
of the array (`LowerBound`), which is where `SortedInsert` puts the new pair. `SortedFind` is
a recursive function on ranges: `Place`, the answer that is expected for a range, satisfies
the equation of its loop (`PlaceProbes`), and induction on the length of the range shows that
nothing else does. These three are what `ViewFinds` rests on for one object; that whole
documents, with their nesting and the other operations, keep to it is model-checked.

### Only model-checked

- All liveness (`AbandonedIsSettled`, `TimesOut`, `MethodLastAnswered`, and the liveness halves
  of `ImplementsCell` and `KeepsPromise`): fairness and `ENABLED` are out of the prover's
  reach, and so is freedom from deadlock.
- `ViewFinds`, `PatchIsRfc7386`, `FlattenInverts`, `RoundTrip`, `ConvertsBack`: they speak of
  documents of any depth. The modules they are in (`JsonDoc`, `JsonPointers`, `MsgPack`,
  `JsonText`, `JsonConvert`, `Documents`) use recursive operators, which the prover's
  arithmetic backend does not take. The object layer below them is proved (`JsonObjects`).

## 6. Findings

Three runs show the code disagreeing with what its documentation says; `PROJECT.json` quotes
the lines.

1. `client_early` — `CheckTimeouts` charges every request with the time since its own last
   call, also for time before the request was sent; a request can time out almost at once.
2. `server_part_order` — only `addBatchResp` looks whether `left` is zero. If notifications
   or invalid parts follow the last method that has answered, the loop itself takes `left`
   to zero and the batch is never answered. `MethodLastAnswered` shows that messages that
   end with a method are; `SendBatch` itself puts notifications first.
3. `server_batch_race` — asynchronous handlers that resolve on threads of their own change
   `left` and `parts` without a lock; a lost decrement leaves the batch unanswered.

Some more things are visible in the models without contradicting anything the repository
says:

- `CheckTimeouts` truncates to milliseconds while `last` moves to `now`. Every check lets
  requests live up to a millisecond longer, which `NoOverdue` accounts for, and polled more
  often than once per millisecond no request ever times out: with `Period` less than
  `TicksPerMs`, `TimesOut` is violated.
- A call from inside of a callback that settles the same request again leaves an iterator
  dangling (`transport.cpp:236`, `371`): `Dangling` in `TransportClient`.
- `~Impl` clears `pending` before it stops the executor, and user code that runs then can
  reach `Send`, or the table, of a half-destroyed transport: `CallDying`, and `life` = `crashed`
  in `TransportServer`.
- `Weak::lock` on a class derived from `WeakableVirtual` races with the `Unref` that takes no
  lock: `raced` in `RefCount`.
- The size check for `std::tuple` is `<=` where `<` is meant, so a tuple cannot be read back
  from the array it was written to; `ConvertsBack` leaves tuples out.

## 7. Plan

The model covers what can be modelled faithfully, and all safety properties of all modules
but those on documents are proved. What is left:

1. Documents: the invariants that are left to the run `documents`, for which the recursive
   operators have to become recursive functions on the depth that is left.
2. `TransportClient` with an id counter that comes round: what `addPending` promises then
   about answers (types, `Accounted` and `NoOverdue` are proved for it), with the callback of the
   request that is evicted as a frame of its own.

## 8. Not modelled

- The metaprogramming helpers, struct descriptions and macros: compile time only.
- The code generator: a build-time program that turns Lua into C++ and Go text, with no
  state or order to check.
- `MoveFunc`: type erasure and small-buffer storage; functors are opaque in the models.
- `Signal`: one functor behind a mutex, used by no other part.
- rapidjson and Lua, which are vendored; rapidjson is represented by the tokens it produces.
- Of documents: copies of mutable documents, the iterative `Destroy`, custom and discarded
  nodes (which the MessagePack writer skips without correcting the length it wrote), the
  plain accessors; validators, `EnumAsInteger`, explicit field indices; denormal floats and
  lengths of 2^31 and more in MessagePack.
- Of buffers: errors of the underlying stream, `ReadByte`, `TryTotalLeft`, and reads that
  are not as large as the buffer (which overrun the caller's buffer; no caller in the library does this).
- Of transports: `SetHandler` in the middle of a batch, a `Send` of a response that throws,
  destruction from inside of one of the transport's own calls, calls from inside of the
  callback of a request that is evicted when its id comes round.
- Of reference counts: handles of several static types to one object, and so `Weak`'s offset.
- Of servers: methods registered under names with `/`, promises of asynchronous handlers that
  are resolved from inside of another call.
- Of contexts: the values inside. Of futures: continuations that return invalid futures,
  and more than 32767 copies of one `SharedPromise`.
- Logging and the wording of errors.

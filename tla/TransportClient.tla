--------------------------- MODULE TransportClient ---------------------------
(***************************************************************************)
(* The requesting half of IAsyncTransport (src/rpcxx/transport.cpp): the   *)
(* table of pending requests, the ids that match responses to them, their  *)
(* timeouts, and the callbacks that run inside of all that.                *)
(*                                                                         *)
(* A transport has no lock: one thread calls it.  What makes it hard is    *)
(* that fulfilling a promise runs user code at once, and that user code    *)
(* may call the transport while CheckTimeouts, ClearAllPending or the      *)
(* handling of a response still holds an iterator into the table.  So the  *)
(* state has the stack of calls the thread is inside of.  Nothing keeps    *)
(* such a call from erasing the entry that an iterator stands at: what the *)
(* program does then is undefined (Dangling).                              *)
(*                                                                         *)
(* The peer and the link are external: they answer late, twice or never,   *)
(* while the event loop, a callback or Send itself runs.                   *)
(***************************************************************************)
EXTENDS Naturals, Sequences, FiniteSets

CONSTANTS
    Reqs,          \* the requests the user may send
    None,          \* no entry in the table
    IdSpace,       \* how many ids there are before Impl::id wraps around
    Timeouts,      \* timeouts the user gives, in milliseconds
    NoTimeout,     \* the timeout that never happens
    TicksPerMs,    \* resolution of steady_clock
    Period,        \* ticks the application lets pass before it checks again
    MaxTicks,      \* bound: ticks between two calls of CheckTimeouts
    MaxAge,        \* bound: ticks a request is watched for
    MaxDepth       \* bound: calls the thread is inside of when it makes another

ASSUME NoneAssumption == None \notin Reqs
ASSUME TimeoutsAssumption ==
    Timeouts \subseteq Nat \cup {NoTimeout} /\ NoTimeout \notin Nat
ASSUME ClockAssumption ==
    /\ IdSpace \in Nat \ {0} /\ TicksPerMs \in Nat \ {0}
    /\ Period \in Nat /\ MaxTicks \in Nat /\ MaxAge \in Nat /\ MaxDepth \in Nat

VARIABLES
    id,            \* Impl::id, the next id
    pending,       \* Impl::pending: which request an id stands for
    left,          \* Transact::timeout, what is left of it
    elapsed,       \* ticks since Impl::last
    outcome,       \* what became of the promise of a request
    stack,         \* the transport's calls the thread is inside of
    wire,          \* requests the peer has got
    gone,          \* ~Impl has begun, or the process is at its end
    undef,         \* what the program does is undefined from here
    limit,         \* history: the timeout a request was sent with
    age,           \* history: ticks from sending a request to its outcome
    answeredBy,    \* history: the request whose response settled a request
    overtaken,     \* history: an entry was to be erased under another iterator
    lost,          \* history: ticks that checks dropped while a request was open
    missed         \* history: requests of an iteration that a callback disturbed

table == <<id, pending, left>>
history == <<limit, age, answeredBy, overtaken, lost, missed>>
vars == <<table, elapsed, outcome, stack, wire, gone, undef, history>>

Ids == 0 .. IdSpace - 1
Msgs == [id : Ids, req : Reqs]
Kinds == {"result", "error", "malformed"}
Parts == [msg : Msgs, kind : Kinds]

\* A promise is settled by a response, by TimeoutHappened, by ClearAllPending,
\* by a request that takes its id over, or by going away unfulfilled.
Settled == {"value", "error", "timeout", "cancelled", "evicted", "broken"}

Frame == [pc : {"send", "destroy"}]                      \* inside Send(), pending.clear()
         \cup [pc : {"parts"}, parts : Seq(Parts)]       \* responses left to handle
         \cup [pc : {"check"}, todo : SUBSET Ids, diff : Nat]
         \cup [pc : {"clear"}, todo : SUBSET Ids]
         \cup [pc : {"erase", "step"}, id : Ids, req : Reqs]  \* the iterator at this entry
                                                         \* is to be erased, or advanced
         \cup [pc : {"user"}, req : Reqs]                \* the callback of req runs

TypeOK ==
    /\ id \in Ids
    /\ pending \in [Ids -> Reqs \cup {None}]
    /\ left \in [Reqs -> Nat \cup {NoTimeout}]
    /\ elapsed \in Nat
    /\ outcome \in [Reqs -> {"new", "open"} \cup Settled]
    /\ stack \in Seq(Frame)
    /\ wire \subseteq Msgs
    /\ gone \in BOOLEAN /\ undef \in BOOLEAN /\ overtaken \in BOOLEAN
    /\ limit \in [Reqs -> Nat \cup {NoTimeout}]
    /\ age \in [Reqs -> Nat]
    /\ answeredBy \in [Reqs -> Reqs \cup {None}]
    /\ lost \in [Reqs -> Nat] /\ missed \subseteq Reqs

-----------------------------------------------------------------------------
Top == stack[Len(stack)]
Below == SubSeq(stack, 1, Len(stack) - 1)
At(pc) == stack # << >> /\ Top.pc = pc

\* User code runs: the event loop, or a callback that calls the transport.
MayCall == ~gone /\ Len(stack) < MaxDepth
UserRuns == MayCall /\ (stack = << >> \/ At("user"))

Used == {i \in Ids : pending[i] # None}

\* Fulfilling the promise of r with o; only the first one counts and runs the
\* callback of r.
Settle(r, o) ==
    outcome' = IF outcome[r] = "open" THEN [outcome EXCEPT ![r] = o] ELSE outcome
Callback(r) == IF outcome[r] = "open" THEN <<[pc |-> "user", req |-> r]>> ELSE << >>

\* An entry leaves the table: a promise that is still open is broken.
DropEntry(i) ==
    /\ pending' = [pending EXCEPT ![i] = None]
    /\ left' = [r \in Reqs |-> IF pending[i] = r THEN NoTimeout ELSE left[r]]
    /\ outcome' = [r \in Reqs |-> IF pending[i] = r /\ outcome[r] = "open" THEN "broken" ELSE outcome[r]]
BrokenCallback(i) == IF pending[i] = None THEN << >> ELSE Callback(pending[i])

\* One of the calls below has an iterator that stands at the entry of i.
Held(i) == \E n \in DOMAIN stack : stack[n].pc \in {"erase", "step"} /\ stack[n].id = i
Checking == \E n \in DOMAIN stack : stack[n].pc = "check"

Init ==
    /\ id = 0
    /\ pending = [i \in Ids |-> None]
    /\ left = [r \in Reqs |-> NoTimeout]
    /\ elapsed = 0
    /\ outcome = [r \in Reqs |-> "new"]
    /\ stack = << >>
    /\ wire = {}
    /\ gone = FALSE /\ undef = FALSE /\ overtaken = FALSE
    /\ limit = [r \in Reqs |-> NoTimeout]
    /\ age = [r \in Reqs |-> 0]
    /\ answeredBy = [r \in Reqs |-> None]
    /\ lost = [r \in Reqs |-> 0] /\ missed = {}

-----------------------------------------------------------------------------
\* Sending.

\* The id the k-th request of a batch gets: next = d->id++.
IdOf(k) == (id + k - 1) % IdSpace

Elems(rs) == {rs[k] : k \in DOMAIN rs}
NewIds(rs) == {IdOf(k) : k \in DOMAIN rs}

\* An iterator of the calls below survives an insertion: the new entries are
\* met or not, and after a rehash anything may be left to visit.
AfterInsert(f, new, rehash, x) ==
    IF f.pc \notin {"check", "clear"} THEN f
    ELSE [f EXCEPT !.todo = IF rehash THEN x ELSE @ \cup (x \cap new)]

\* Seeded fault: the counter does not move.
IdAfterStuck(n) == id

IdAfter(n) == (id + n) % IdSpace

\* addPending, for every method of a batch in turn.  A request that still has
\* the id is rejected and replaced.
AddPending(rs) ==
    /\ outcome' = [r \in Reqs |->
                    IF r \in Elems(rs) THEN "open"
                    ELSE IF outcome[r] = "open" /\ \E i \in NewIds(rs) : pending[i] = r
                    THEN "evicted" ELSE outcome[r]]
    /\ pending' = [i \in Ids |->
                    IF i \in NewIds(rs) THEN rs[CHOOSE k \in DOMAIN rs : i = IdOf(k)]
                    ELSE pending[i]]
    /\ id' = IdAfter(Len(rs))

\* SendMethod (one request) and SendBatch (several): every entry is in the
\* table before Send is called.
Send(rs, t) ==
    /\ UserRuns
    /\ Len(rs) <= IdSpace
    /\ \A r \in Elems(rs) : outcome[r] = "new"
    /\ AddPending(rs)
    /\ left' = [r \in Reqs |-> IF r \in Elems(rs) THEN t ELSE left[r]]
    /\ limit' = [r \in Reqs |-> IF r \in Elems(rs) THEN t ELSE limit[r]]
    /\ wire' = wire \cup {[id |-> IdOf(k), req |-> rs[k]] : k \in DOMAIN rs}
    /\ \E rehash \in BOOLEAN, x \in SUBSET (Used \cup NewIds(rs)) :
        /\ stack' = [n \in DOMAIN stack |-> AfterInsert(stack[n], NewIds(rs), rehash, x)]
                    \o <<[pc |-> "send"]>>
        /\ missed' = IF rehash /\ Checking THEN missed \cup {pending[i] : i \in Used} ELSE missed
    /\ UNCHANGED <<elapsed, gone, undef, age, answeredBy, overtaken, lost>>

\* Send returns, or throws: the exception is logged and the entries stay.  A
\* request that did not get through is one that is never answered.
SendReturns ==
    /\ At("send")
    /\ stack' = Below
    /\ UNCHANGED <<table, elapsed, outcome, wire, gone, undef, history>>

-----------------------------------------------------------------------------
\* Receiving responses.

\* All ways to answer messages of ms, one or as a batch of two.
Answers(ms) ==
    {<<p>> : p \in [msg : ms, kind : Kinds]}
    \cup {<<p, q>> : p \in [msg : ms, kind : {"result"}], q \in [msg : ms, kind : {"error"}]}

\* Receive is called by the event loop, by a callback, or by a sender that has
\* a response at hand from inside of Send.
Receive ==
    /\ UserRuns \/ (MayCall /\ At("send"))
    /\ \E ps \in Answers(wire) : stack' = Append(stack, [pc |-> "parts", parts |-> ps])
    /\ UNCHANGED <<table, elapsed, outcome, wire, gone, undef, history>>

\* handleBatch's loop, which a single response enters with one part.
Rest == IF Len(Top.parts) = 1 THEN << >> ELSE <<[Top EXCEPT !.parts = Tail(@)]>>

\* Seeded fault: a response with neither a result nor an error also ends the
\* request.
RejectRespErases ==
    /\ At("parts")
    /\ LET p == Head(Top.parts)
           r == pending[p.msg.id]
       IN  /\ r = None \/ p.kind = "malformed"
           /\ stack' = Below \o Rest \o
                IF r = None THEN << >> ELSE <<[pc |-> "erase", id |-> p.msg.id, req |-> r]>>
    /\ UNCHANGED <<table, elapsed, outcome, wire, gone, undef, history>>

\* handleRespToClient throws: an id that is not pending (or none at all), or
\* neither a result nor an error in it.  Nothing has changed.
RejectResp ==
    /\ At("parts")
    /\ LET p == Head(Top.parts)
       IN  pending[p.msg.id] = None \/ p.kind = "malformed"
    /\ stack' = Below \o Rest
    /\ UNCHANGED <<table, elapsed, outcome, wire, gone, undef, history>>

\* handleRespToClient finds the entry and fulfils its promise; the entry is
\* erased when the callback has returned.
HandleResp ==
    /\ At("parts")
    /\ LET p == Head(Top.parts)
           r == pending[p.msg.id]
       IN  /\ r # None /\ p.kind # "malformed"
           /\ Settle(r, IF p.kind = "result" THEN "value" ELSE "error")
           /\ answeredBy' = IF outcome[r] = "open" THEN [answeredBy EXCEPT ![r] = p.msg.req]
                            ELSE answeredBy
           /\ stack' = Below \o Rest \o <<[pc |-> "erase", id |-> p.msg.id, req |-> r]>> \o Callback(r)
           /\ overtaken' = (overtaken \/ Held(p.msg.id))
    /\ UNCHANGED <<table, elapsed, wire, gone, undef, limit, age, lost, missed>>

CallbackReturns ==
    /\ At("user")
    /\ stack' = Below
    /\ UNCHANGED <<table, elapsed, outcome, wire, gone, undef, history>>

\* The iterator on top still stands at the entry it was taken for.
Intact == pending[Top.id] = Top.req

\* pending.erase(iterator): the promise in the entry goes away with it.
Erase ==
    /\ At("erase") /\ Intact
    /\ DropEntry(Top.id)
    /\ stack' = Below
    /\ UNCHANGED <<id, elapsed, wire, gone, undef, history>>

\* ++iterator.
Step ==
    /\ At("step") /\ Intact
    /\ stack' = Below
    /\ UNCHANGED <<table, elapsed, outcome, wire, gone, undef, history>>

\* A loop that has lost its way.
Astray(f, x) == IF f.pc \in {"check", "clear"} THEN [f EXCEPT !.todo = x] ELSE f

\* The entry is gone, and the node's memory free or in use again.  The process
\* ends, or erase hits whatever entry is there now, if any, and the loop that
\* the iterator belongs to goes on anywhere.
Dangling ==
    /\ At("erase") \/ At("step")
    /\ ~Intact
    /\ undef' = TRUE
    /\ \/ stack' = << >> /\ gone' = TRUE /\ UNCHANGED <<pending, left, outcome>>
       \/ \E i \in Ids, x \in SUBSET Ids :
            /\ IF At("erase") THEN DropEntry(i) ELSE UNCHANGED <<pending, left, outcome>>
            /\ stack' = [n \in DOMAIN Below |-> IF n = Len(Below) THEN Astray(stack[n], x) ELSE stack[n]]
                        \o IF At("erase") THEN BrokenCallback(i) ELSE << >>
            /\ UNCHANGED gone
    /\ UNCHANGED <<id, elapsed, wire, history>>

-----------------------------------------------------------------------------
\* Timeouts and cancelling.

\* Time passes in the event loop, in callbacks and in Send.
Tick ==
    /\ stack = << >> \/ At("user") \/ At("send")
    /\ elapsed < MaxTicks
    /\ elapsed' = elapsed + 1
    /\ age' = [r \in Reqs |-> IF outcome[r] = "open" /\ age[r] < MaxAge THEN age[r] + 1 ELSE age[r]]
    /\ UNCHANGED <<table, outcome, stack, wire, gone, undef, limit, answeredBy, overtaken, lost, missed>>

\* What CheckTimeouts drops of the time since the last call, which is no whole
\* number of milliseconds; counted as far as a request is watched.
Drops(r) ==
    LET n == lost[r] + (elapsed % TicksPerMs)
    IN  IF outcome[r] # "open" THEN lost[r] ELSE IF n > MaxAge THEN MaxAge + 1 ELSE n

\* Seeded fault: d->last = now comes before diff is computed.
CheckTimeoutsSwapped ==
    /\ UserRuns /\ elapsed >= Period
    /\ stack' = Append(stack, [pc |-> "check", todo |-> Used, diff |-> 0])
    /\ elapsed' = 0
    /\ lost' = [r \in Reqs |-> Drops(r)]
    /\ missed' = IF Checking THEN missed \cup {pending[i] : i \in Used} ELSE missed
    /\ UNCHANGED <<table, outcome, wire, gone, undef, limit, age, answeredBy, overtaken>>

\* CheckTimeouts: whole milliseconds since the last call, the rest is lost.
CheckTimeouts ==
    /\ UserRuns /\ elapsed >= Period
    /\ stack' = Append(stack, [pc |-> "check", todo |-> Used, diff |-> elapsed \div TicksPerMs])
    /\ elapsed' = 0
    /\ lost' = [r \in Reqs |-> Drops(r)]
    /\ missed' = IF Checking THEN missed \cup {pending[i] : i \in Used} ELSE missed
    /\ UNCHANGED <<table, outcome, wire, gone, undef, limit, age, answeredBy, overtaken>>

\* The iteration reaches the entry of i, or finds it gone.
Visited(i) == [Top EXCEPT !.todo = @ \ {i}]

\* Seeded faults: >= for >; the comparison is missing.
ExpiredLate(i, diff) ==
    pending[i] # None /\ left[pending[i]] # NoTimeout /\ left[pending[i]] < diff
ExpiredNever(i, diff) == FALSE

\* The entry of i has at most diff left.
Expired(i, diff) ==
    pending[i] # None /\ left[pending[i]] # NoTimeout /\ left[pending[i]] <= diff

\* CheckTimeouts' loop: an entry with time left pays diff.
Deduct ==
    /\ At("check")
    /\ \E i \in Top.todo :
        /\ ~Expired(i, Top.diff)
        /\ left' = IF pending[i] # None /\ left[pending[i]] # NoTimeout
                   THEN [left EXCEPT ![pending[i]] = @ - Top.diff] ELSE left
        /\ stack' = Below \o <<Visited(i)>>
    /\ UNCHANGED <<id, pending, elapsed, outcome, wire, gone, undef, history>>

\* CheckTimeouts' loop: TimeoutHappened rejects the promise; then the entry is
\* erased.
TimeoutHappened ==
    /\ At("check")
    /\ \E i \in Top.todo :
        /\ Expired(i, Top.diff)
        /\ Settle(pending[i], "timeout")
        /\ stack' = Below \o <<Visited(i), [pc |-> "erase", id |-> i, req |-> pending[i]]>>
                    \o Callback(pending[i])
        /\ overtaken' = (overtaken \/ Held(i))
    /\ UNCHANGED <<table, elapsed, wire, gone, undef, limit, age, answeredBy, lost, missed>>

\* ClearAllPending rejects the promises and leaves the entries.
ClearAllPending ==
    /\ UserRuns
    /\ stack' = Append(stack, [pc |-> "clear", todo |-> Used])
    /\ UNCHANGED <<table, elapsed, outcome, wire, gone, undef, history>>

Cancel ==
    /\ At("clear")
    /\ \E i \in Top.todo :
        IF pending[i] = None
        THEN stack' = Below \o <<Visited(i)>> /\ UNCHANGED outcome
        ELSE /\ Settle(pending[i], "cancelled")
             /\ stack' = Below \o <<Visited(i), [pc |-> "step", id |-> i, req |-> pending[i]]>>
                         \o Callback(pending[i])
    /\ UNCHANGED <<table, elapsed, wire, gone, undef, history>>

LoopEnds ==
    /\ At("check") \/ At("clear")
    /\ Top.todo = {}
    /\ stack' = Below
    /\ UNCHANGED <<table, elapsed, outcome, wire, gone, undef, history>>

\* ~Impl: pending.clear() ...
Destroy ==
    /\ ~gone /\ stack = << >>
    /\ gone' = TRUE
    /\ stack' = <<[pc |-> "destroy"]>>
    /\ UNCHANGED <<table, elapsed, outcome, wire, undef, history>>

\* ... takes one entry after the other away; a broken promise runs its callback.
Break ==
    /\ At("destroy")
    /\ \E i \in Used :
        /\ DropEntry(i)
        /\ stack' = stack \o BrokenCallback(i)
    /\ UNCHANGED <<id, elapsed, wire, gone, undef, history>>

Destroyed ==
    /\ At("destroy") /\ Used = {}
    /\ stack' = Below
    /\ UNCHANGED <<table, elapsed, outcome, wire, gone, undef, history>>

\* Such a callback calls the transport, whose derived part is gone and whose
\* table is half cleared (a Weak handle to it still finds it).
CallDying ==
    /\ gone /\ At("user")
    /\ undef' = TRUE
    /\ stack' \in {stack, << >>}
    /\ UNCHANGED <<table, elapsed, outcome, wire, gone, history>>

-----------------------------------------------------------------------------
UserStep ==
    \/ \E r \in Reqs, t \in Timeouts : Send(<<r>>, t)
    \/ \E r, q \in Reqs, t \in Timeouts : r # q /\ Send(<<r, q>>, t)
    \/ ClearAllPending
    \/ Destroy \/ CallDying

LibraryStep ==
    \/ SendReturns \/ RejectResp \/ HandleResp \/ Erase \/ Step \/ Dangling
    \/ Deduct \/ TimeoutHappened \/ Cancel \/ LoopEnds
    \/ Break \/ Destroyed

Next ==
    \/ UserStep
    \/ Receive
    \/ LibraryStep \/ CallbackReturns
    \/ Tick \/ CheckTimeouts

\* The thread runs, callbacks and Send return however often they are called back
\* into, time passes, and the application calls CheckTimeouts again and again,
\* whatever else it has to do.
Fairness ==
    /\ WF_vars(LibraryStep) /\ SF_vars(SendReturns) /\ SF_vars(CallbackReturns)
    /\ SF_vars(Tick) /\ SF_vars(CheckTimeouts)

Spec == Init /\ [][Next]_vars
FairSpec == Spec /\ Fairness

-----------------------------------------------------------------------------
\* Properties.

\* No request is forgotten: an open promise is in the table, so a response, a
\* timeout or a cancel can still reach it; and no promise is thrown away
\* unfulfilled ("Broken Promise") before the transport is destroyed, whatever
\* callbacks do to the table between a promise's fulfilment and its erasure,
\* until an iterator dangles.
Accounted ==
    \A r \in Reqs :
        /\ outcome[r] = "open" => \E i \in Ids : pending[i] = r
        /\ outcome[r] = "broken" => gone \/ undef

\* Responses that come late, twice or out of order, and requests sent from
\* callbacks, never settle a request with the answer to another one.
AnsweredByOwn == \A r \in Reqs : answeredBy[r] \in {r, None}

\* The iterator that handleRespToClient, CheckTimeouts or ClearAllPending holds
\* across a callback still denotes the entry it was taken for when it is erased
\* or advanced.  The one way in which this breaks is that a call from inside of
\* the callback settles the same request again, and erases its entry.
ErasesWhatItFound ==
    \/ overtaken
    \/ \A n \in DOMAIN stack :
        stack[n].pc \in {"erase", "step"} => pending[stack[n].id] = stack[n].req

\* When CheckTimeouts has just run, no request that was already out and is still
\* open is older than its timeout and the parts of milliseconds that this and
\* earlier checks have dropped; unless a callback of CheckTimeouts made the
\* table rehash or called CheckTimeouts while the request was in it.
NoOverdue ==
    \A r \in Reqs :
        /\ stack = << >> /\ elapsed = 0 /\ ~undef
        /\ outcome[r] = "open" /\ limit[r] # NoTimeout /\ age[r] > 0 /\ r \notin missed
        => age[r] < limit[r] * TicksPerMs + lost[r]

\* A request with a timeout never waits for ever, in a program whose behaviour
\* is defined.
TimesOut ==
    \A r \in Reqs : outcome[r] = "open" /\ limit[r] # NoTimeout ~> outcome[r] # "open" \/ undef

\* A request is given as much time as Method{name, timeout} says before it is
\* rejected with a timeout error.
NoEarlyTimeout ==
    \A r \in Reqs : outcome[r] = "timeout" => age[r] >= limit[r] * TicksPerMs
=============================================================================

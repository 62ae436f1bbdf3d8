--------------------------- MODULE TransportServer ---------------------------
(***************************************************************************)
(* The answering half of IAsyncTransport (src/rpcxx/transport.cpp):        *)
(* handleServer and handleServerBatch hand requests to an IHandler and     *)
(* send the responses when the handlers' promises resolve.                 *)
(*                                                                         *)
(* A batch is answered once, with all its responses, by whoever brings     *)
(* Batch::left down to zero.  The loop over the parts and the handlers     *)
(* that answer later share left and parts without a lock.  If OneThread,   *)
(* all of them run on the transport's thread (an executor that brings      *)
(* completions back, Server::GetExecutor); otherwise each asynchronous     *)
(* handler answers from a thread of its own, like the one in README.md,    *)
(* and a read-modify-write of left and parts is two steps.                 *)
(*                                                                         *)
(* The handler is external: a method answers at once ("sync"), later       *)
(* ("async"), a notification returns ("notify"), and an invalid part or a  *)
(* notification that throws is answered with an error ("bad"); an invalid  *)
(* part without a method is a "blank".                                     *)
(***************************************************************************)
EXTENDS Naturals, Sequences

CONSTANTS
    Messages,      \* messages that may arrive: sequences of parts
    MaxParts,      \* bound: parts of one message
    OneThread,     \* completions run on the transport's thread
    None           \* nothing read

Kinds == {"sync", "async", "notify", "bad", "blank"}

ASSUME OneThreadAssumption == OneThread \in BOOLEAN /\ MaxParts \in Nat
ASSUME MessagesAssumption ==
    \A m \in Messages : m \in Seq(Kinds) /\ m # << >> /\ Len(m) <= MaxParts

VARIABLES
    msg,           \* the message being served, << >> before it arrives
    batch,         \* it came as an array
    handler,       \* Impl::handler is set and alive
    next,          \* handleServerBatch: the part the loop is at
    pc,            \* what the receiving thread is about to do to the Batch
    worker,        \* worker[k]: where the handler of the asynchronous part k is
    left,          \* Batch::left
    parts,         \* Batch::parts: the parts that have their response in it
    copy,          \* copy[a]: what thread a has read of left and parts
    sent,          \* the responses handed to Send
    life           \* "up"; ~Impl is "clearing" pending; "gone": exec is stopped;
                   \* "crashed": an object that is no transport any more was to Send

vars == <<msg, batch, handler, next, pc, worker, left, parts, copy, sent, life>>

Slots == 1 .. MaxParts
Receiver == 0
Actors == Slots \cup {Receiver}

\* left is a size_t.
Size == MaxParts + 2
Dec(n) == (n + Size - 1) % Size
Inc(n) == (n + 1) % Size

TypeOK ==
    /\ msg \in Messages \cup {<< >>}
    /\ batch \in BOOLEAN /\ handler \in BOOLEAN
    /\ life \in {"up", "clearing", "gone", "crashed"}
    /\ next \in 0 .. MaxParts + 1
    /\ pc \in {"idle", "dec", "push", "inc", "resp", "end"}
    /\ worker \in [Slots -> {"none", "open", "resp", "done", "dropped"}]
    /\ left \in 0 .. Size - 1
    /\ parts \subseteq Slots
    /\ copy \in [Actors -> {None} \cup [left : 0 .. Size - 1, parts : SUBSET Slots]]
    /\ sent \in Seq(SUBSET Slots)

Init ==
    /\ msg = << >> /\ batch = FALSE /\ handler \in BOOLEAN
    /\ next = 0 /\ pc = "idle"
    /\ worker = [k \in Slots |-> "none"]
    /\ left = 0 /\ parts = {}
    /\ copy = [a \in Actors |-> None]
    /\ sent = << >> /\ life = "up"

-----------------------------------------------------------------------------
\* handleServer: one request.  Without a handler NoServerFound throws and the
\* promise goes away, which answers the request as well; a message that is no
\* request throws out of Receive.
ReceiveOne(m) ==
    /\ pc = "idle" /\ life = "up" /\ Len(m) = 1
    /\ msg' = m /\ pc' = "end"
    /\ worker' = IF handler /\ m[1] = "async" THEN [worker EXCEPT ![1] = "open"] ELSE worker
    /\ sent' = IF m[1] = "sync" \/ (m[1] = "async" /\ ~handler) THEN <<{1}>> ELSE sent
    /\ UNCHANGED <<batch, handler, next, left, parts, copy, life>>

\* handleBatch: the first part tells requests from responses.
\* handleServerBatch: without a handler NoServerFound throws.
ReceiveBatch(m) ==
    /\ pc = "idle" /\ life = "up"
    /\ msg' = m /\ batch' = TRUE
    /\ next' = 1
    /\ left' = IF m[1] = "blank" THEN left ELSE Len(m)
    /\ pc' = IF handler /\ m[1] # "blank" THEN "dec" ELSE "end"
    /\ UNCHANGED <<handler, worker, parts, copy, sent, life>>

\* A thread reads left and parts to change them.
Load(a) == /\ copy[a] = None
           /\ copy' = [copy EXCEPT ![a] = [left |-> left, parts |-> parts]]
           /\ UNCHANGED <<msg, batch, handler, next, pc, worker, left, parts, sent, life>>

\* The loop of handleServerBatch starts one of its updates.
LoopLoad == pc \in {"dec", "push", "inc", "resp"} /\ Load(Receiver)

\* The loop goes on with the next part, or returns.
NextPart == /\ next' = next + 1
            /\ pc' = IF next = Len(msg) THEN "end" ELSE "dec"

\* batch->left--, and what the part turns out to be.
TakePart ==
    /\ pc = "dec" /\ copy[Receiver] # None
    /\ left' = Dec(copy[Receiver].left)
    /\ copy' = [copy EXCEPT ![Receiver] = None]
    /\ \/ msg[next] = "notify" /\ NextPart
       \/ msg[next] \in {"bad", "blank"} /\ pc' = "push" /\ UNCHANGED next
       \/ msg[next] \in {"sync", "async"} /\ pc' = "inc" /\ UNCHANGED next
    /\ UNCHANGED <<msg, batch, handler, worker, parts, sent, life>>

\* Seeded fault: parts are counted from zero.
PushErrorZeroBased ==
    /\ pc = "push" /\ copy[Receiver] # None
    /\ parts' = copy[Receiver].parts \cup {next - 1}
    /\ copy' = [copy EXCEPT ![Receiver] = None]
    /\ NextPart
    /\ UNCHANGED <<msg, batch, handler, worker, left, sent, life>>

\* The error of an invalid part goes into parts; nobody looks at left.
PushError ==
    /\ pc = "push" /\ copy[Receiver] # None
    /\ parts' = copy[Receiver].parts \cup {next}
    /\ copy' = [copy EXCEPT ![Receiver] = None]
    /\ NextPart
    /\ UNCHANGED <<msg, batch, handler, worker, left, sent, life>>

\* Seeded fault: batch->left++ is missing.
CallMethodUncounted ==
    /\ pc = "inc" /\ copy[Receiver] # None
    /\ left' = copy[Receiver].left
    /\ copy' = [copy EXCEPT ![Receiver] = None]
    /\ \/ msg[next] = "sync" /\ pc' = "resp" /\ UNCHANGED <<next, worker>>
       \/ msg[next] = "async" /\ worker' = [worker EXCEPT ![next] = "open"] /\ NextPart
    /\ UNCHANGED <<msg, batch, handler, parts, sent, life>>

\* batch->left++, then h->Handle, which may answer before it returns.
CallMethod ==
    /\ pc = "inc" /\ copy[Receiver] # None
    /\ left' = Inc(copy[Receiver].left)
    /\ copy' = [copy EXCEPT ![Receiver] = None]
    /\ \/ msg[next] = "sync" /\ pc' = "resp" /\ UNCHANGED <<next, worker>>
       \/ msg[next] = "async" /\ worker' = [worker EXCEPT ![next] = "open"] /\ NextPart
    /\ UNCHANGED <<msg, batch, handler, parts, sent, life>>

\* Send belongs to the derived class, whose part of the object goes before ~Impl runs.
Send(response) ==
    IF life = "up" THEN sent' = Append(sent, response) /\ UNCHANGED life
                   ELSE life' = "crashed" /\ UNCHANGED sent

\* Seeded faults: the count is off by one; the old count is looked at.
AddBatchRespEarly(a, k) ==
    /\ parts' = copy[a].parts \cup {k}
    /\ left' = Dec(copy[a].left)
    /\ copy' = [copy EXCEPT ![a] = None]
    /\ IF left' \in {0, 1} THEN Send(parts') ELSE UNCHANGED <<sent, life>>

AddBatchRespOldCount(a, k) ==
    /\ parts' = copy[a].parts \cup {k}
    /\ left' = Dec(copy[a].left)
    /\ copy' = [copy EXCEPT ![a] = None]
    /\ IF copy[a].left = 0 THEN Send(parts') ELSE UNCHANGED <<sent, life>>

\* addBatchResp: the response goes into parts; the last one sends them all.
AddBatchResp(a, k) ==
    /\ parts' = copy[a].parts \cup {k}
    /\ left' = Dec(copy[a].left)
    /\ copy' = [copy EXCEPT ![a] = None]
    /\ IF left' = 0 THEN Send(parts') ELSE UNCHANGED <<sent, life>>

\* A method has answered inside of Handle.
RespondInLoop ==
    /\ pc = "resp" /\ copy[Receiver] # None
    /\ AddBatchResp(Receiver, next)
    /\ NextPart
    /\ UNCHANGED <<msg, batch, handler, worker>>

-----------------------------------------------------------------------------
\* Asynchronous handlers.

\* No other code of the transport runs on this thread now.
ThreadFree == OneThread => pc \in {"idle", "end"} /\ \A k \in Slots : worker[k] # "resp"

\* The promise of part k is resolved, rejected or dropped: its continuation
\* goes to exec, which runs it unless it was stopped.
Resolve(k) ==
    /\ worker[k] = "open" /\ ThreadFree
    /\ worker' = [worker EXCEPT ![k] = IF life = "gone" THEN "dropped" ELSE "resp"]
    /\ UNCHANGED <<msg, batch, handler, next, pc, left, parts, copy, sent, life>>

WorkerLoad(k) == worker[k] = "resp" /\ batch /\ Load(k)

\* addBatchResp on the thread that resolved the promise.
RespondLater(k) ==
    /\ worker[k] = "resp" /\ copy[k] # None
    /\ AddBatchResp(k, k)
    /\ worker' = [worker EXCEPT ![k] = "done"]
    /\ UNCHANGED <<msg, batch, handler, next, pc>>

\* sendResult, for a request that came alone.
SendResult(k) ==
    /\ worker[k] = "resp" /\ ~batch
    /\ Send({k})
    /\ worker' = [worker EXCEPT ![k] = "done"]
    /\ UNCHANGED <<msg, batch, handler, next, pc, left, parts, copy>>

\* ~Impl: pending.clear() breaks the promises of the client side.  Their
\* continuations run on this thread and may resolve promises of handlers (Resolve).
Destroy ==
    /\ life = "up" /\ pc \in {"idle", "end"} /\ ThreadFree
    /\ life' = "clearing"
    /\ UNCHANGED <<msg, batch, handler, next, pc, worker, left, parts, copy, sent>>

\* Then exec->Stop(): completions that come later are dropped.
Stop ==
    /\ life = "clearing" /\ ThreadFree
    /\ life' = "gone"
    /\ UNCHANGED <<msg, batch, handler, next, pc, worker, left, parts, copy, sent>>

-----------------------------------------------------------------------------
Loop == LoopLoad \/ TakePart \/ PushError \/ CallMethod \/ RespondInLoop
Worker(k) == Resolve(k) \/ WorkerLoad(k) \/ RespondLater(k) \/ SendResult(k)

Next ==
    \/ \E m \in Messages : ReceiveOne(m) \/ ReceiveBatch(m)
    \/ Loop
    \/ \E k \in Slots : Worker(k)
    \/ Destroy \/ Stop

\* Receive returns, and every handler resolves its promise some time.
Fairness == WF_vars(Loop) /\ \A k \in Slots : WF_vars(Worker(k))

Spec == Init /\ [][Next]_vars
FairSpec == Spec /\ Fairness

-----------------------------------------------------------------------------
\* Properties.

\* However synchronous and asynchronous answers and errors are mixed, a
\* message gets one response message at most.
SentOnce == Len(sent) <= 1

\* A batch is not answered before every request and every invalid part of it
\* has its response: left never reaches zero too early.
SentComplete ==
    sent # << >> /\ batch => sent[1] = {k \in DOMAIN msg : msg[k] # "notify"}

\* A message that begins as a request does and ends with a method is answered
\* once its handlers have resolved, whatever is mixed in between: the decrement
\* that makes left zero is then always one of addBatchResp's.
MethodLastAnswered ==
    /\ msg # << >> /\ handler
    /\ msg[1] # "blank" /\ msg[Len(msg)] \in {"sync", "async"}
    ~> sent # << >> \/ life # "up"

\* A message with a request in it is answered once its handlers have resolved,
\* unless the transport is destroyed first.
Answered ==
    /\ msg # << >> /\ handler
    /\ \E k \in DOMAIN msg : msg[k] \in {"sync", "async"}
    ~> sent # << >> \/ life # "up"
=============================================================================

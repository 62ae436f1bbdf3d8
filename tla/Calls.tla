------------------------------- MODULE Calls -------------------------------
(***************************************************************************)
(* A call from end to end: Client and its batches (client.cpp),            *)
(* ForwardToHandler and the forwarding IClientTransport (transport.cpp),   *)
(* IHandler's routing (handler.cpp) and Server's dispatch (server.cpp).    *)
(*                                                                         *)
(* Everything runs on one thread and calls back into itself: a handler may *)
(* use the client, and so may the continuation of an answer, which runs    *)
(* inside of the handler that gives the answer.  stack holds the calls     *)
(* that have not returned; an action is one step of the innermost.  User   *)
(* code (the main program, handler bodies, continuations) does anything    *)
(* the interfaces allow.  Requests also arrive from a peer through the     *)
(* transport of TransportServer; its part here is only to unpack them.     *)
(***************************************************************************)
EXTENDS Routing, FiniteSets

CONSTANTS
    Servers,          \* the Server objects
    Main,             \* the server ForwardToHandler and the peers talk to
    Proxy,            \* an IClientTransport that is mounted as a handler ...
    ProxyTarget,      \* ... and forwards to this server
    MaxRequests,      \* bound: the requests that are made in one behaviour
    Profiles,         \* what the client asks for: name, notify and params
    PeerProfiles,     \* what peers ask for
    Methods,          \* methods that can be registered: words -> kind and params
    Registered,       \* Registered[s]: the methods registered at first
    Mounts,           \* Mounts[s]: the routes of s, words -> handlers
    Middlewares,      \* servers with middlewares that may throw
    RouteMiddlewares, \* servers with route middlewares that may throw
    EHandlers,        \* EHandlers[s]: what each exception handler of s does
    RouteEHandlers,   \* the same for the route exception handlers
    NamePrefixes,         \* values for SetPrefix
    Proto,            \* the protocol of the transport
    MaxBatches,       \* bound: batches in one behaviour
    MaxChanges,       \* bound: changes of the configuration in one behaviour
    None              \* no answer, no server, the null context

Requests == 1 .. MaxRequests
Codes == {"app", "over", "internal", "not_found", "invalid", "broken"}
Answers == Codes \cup {"value"}

\* The context of a request is named after the request; FallbackCtx is the
\* server's own.
FallbackCtx == 0

\* When a request was made: outside of batches, under the guard of the n-th batch,
\* or while SendBatch was running.
Free == 0
WhileSending == MaxBatches + 1

ASSUME BoundsAssumption == MaxRequests \in Nat /\ MaxBatches \in Nat /\ MaxChanges \in Nat
ASSUME ServersAssumption ==
    Main \in Servers /\ ProxyTarget \in Servers /\ Proxy \notin Servers /\ Proto \in Protocols
ASSUME NamesAssumption ==
    /\ \A p \in Profiles \cup PeerProfiles :
          p.name \in Seq(Parts) /\ IsName(p.name) /\ p.notify \in BOOLEAN /\ p.params \in {"array", "object"}
    /\ << >> \in NamePrefixes /\ \A p \in NamePrefixes : p \in Seq(Parts) /\ IsName(p)
ASSUME RegisteredAssumption == Registered \in [Servers -> SUBSET DOMAIN Methods]
ASSUME NoneAssumption == None \notin Answers \cup Servers
ASSUME EHandlersAssumption ==
    /\ EHandlers \in [Servers -> Seq({"log", "rpc", "plain", "throw"})]
    /\ RouteEHandlers \in [Servers -> Seq({"log", "rpc", "plain", "throw"})]

VARIABLES
    req,           \* what was asked for, in the order in which it was made
    answer,        \* answer[r]: what the promise of r was fulfilled with
    batchActive,   \* Client::batchActive
    currentBatch,  \* Client::currentBatch
    guard,         \* there is a BatchGuard that is still valid
    connected,     \* Client::transport is set and alive
    prefix,        \* Client::prefix
    alive,         \* the servers that have not been destroyed
    routes,        \* routes[s]: the words of Mounts[s] that are set
    calls,         \* calls[s]: the methods registered at s
    fallback,      \* the servers with a fallback
    current,       \* current[s]: Impl::current
    waiting,       \* waiting[r]: the server whose handler will answer r later
    wraps,         \* wraps[r]: the servers whose OnForward wrapped r's promise
    rejected,      \* requests that a route middleware threw at
    stack,         \* the calls that have not returned
    failed,        \* SendBatch has thrown, or there was no transport for it
    batches,       \* batches started so far
    changes        \* configuration changes so far

client == <<batchActive, currentBatch, guard, connected, prefix, failed, batches>>
config == <<alive, routes, calls, fallback, changes>>
vars == <<req, answer, client, config, current, waiting, wraps, rejected, stack>>

Batches == [methods : Seq(Requests), notifs : Seq(Requests)]
Made == DOMAIN req
IsMethod(r) == ~req[r].notify

TypeOK ==
    /\ req \in Seq([name : Seq(Parts), notify : BOOLEAN, params : {"array", "object"},
                    from : {"client", "peer"}, during : Free .. WhileSending])
    /\ answer \in [Requests -> Answers \cup {None}]
    /\ batchActive \in BOOLEAN /\ currentBatch \in Batches /\ guard \in BOOLEAN
    /\ connected \in BOOLEAN /\ prefix \in NamePrefixes
    /\ alive \subseteq Servers /\ fallback \subseteq Servers
    /\ \A s \in Servers : routes[s] \subseteq DOMAIN Mounts[s] /\ calls[s] \subseteq DOMAIN Methods
    /\ current \in [Servers -> Requests \cup {FallbackCtx, None}]
    /\ waiting \in [Requests -> Servers \cup {None}]
    /\ \A r \in Requests : wraps[r] \in Seq(Servers)
    /\ rejected \subseteq Made
    /\ \A i \in DOMAIN stack : stack[i].at \in {"batch", "route", "body", "leave", "callback"}
    /\ failed \in BOOLEAN /\ batches \in 0 .. MaxBatches /\ changes \in 0 .. MaxChanges

EmptyBatch == [methods |-> << >>, notifs |-> << >>]

Init ==
    /\ req = << >>
    /\ answer = [r \in Requests |-> None]
    /\ batchActive = FALSE /\ currentBatch = EmptyBatch /\ guard = FALSE
    /\ connected = TRUE /\ prefix = << >>
    /\ alive = Servers /\ fallback = {}
    /\ routes = [s \in Servers |-> DOMAIN Mounts[s]]
    /\ calls = Registered
    /\ current = [s \in Servers |-> FallbackCtx]
    /\ waiting = [r \in Requests |-> None]
    /\ wraps = [r \in Requests |-> << >>]
    /\ rejected = {} /\ stack = << >>
    /\ failed = FALSE /\ batches = 0 /\ changes = 0

-----------------------------------------------------------------------------
\* The stack.

Top == stack[Len(stack)]
Running(at) == stack # << >> /\ Top.at = at
UserCode == stack # << >> => Top.at \in {"body", "callback"}
Sending == \E i \in DOMAIN stack : stack[i].at = "batch"

HandleFrame(r, h, name, ctx, shield) ==
    [at |-> "route", r |-> r, h |-> h, name |-> name, ctx |-> ctx,
     own |-> TRUE, shield |-> shield]
BatchFrame(batch) == [at |-> "batch", batch |-> batch]
Callback(r) == [at |-> "callback", r |-> r]

\* Seeded fault: an override that is no RpcException is passed on as it is.
ExcHandlersRaw(hs, e) ==
    LET Step(h, ec) == IF h = "log" THEN ec ELSE h
    IN  FoldRight(Step, hs, e)

\* excHandlers: the handlers of hs run from the last to the first, each on what
\* the one before it made of the exception; an override that is no RpcException
\* becomes an internal error, and so does an exception thrown by a handler.
ExcHandlers(hs, e) ==
    LET Step(h, ec) == CASE h = "log" -> ec
                         [] h = "rpc" -> "over"
                         [] OTHER -> "internal"
    IN  IF Contains(hs, "throw") THEN "internal" ELSE FoldRight(Step, hs, e)

\* The continuation that OnForward leaves on the promise it hands on: errors go
\* through the route exception handlers.  A stopped executor drops it, and the
\* promise it holds with it.
Through(ws, a) ==
    LET Step(w, res) == CASE w \notin alive -> "broken"
                          [] w \in alive /\ res = "value" -> res
                          [] OTHER -> ExcHandlers(RouteEHandlers[w], res)
    IN  FoldRight(Step, ws, a)

\* What the one who asked gets to see: a peer reads it from the message that
\* sendResult makes, in which a broken promise is an internal error.
Delivered(r, a) ==
    CASE req[r].from = "client" -> a
      [] req[r].from = "peer" /\ a = "value" ->
            UnpackSingleResponce(Proto, MakeResponce(Proto, r, a))
      [] OTHER -> UnpackSingleResponce(Proto, MakeError(Proto, r, IF a = "broken" THEN "internal" ELSE a))

\* Seeded fault: a later answer replaces the first.
FulfilLast(r, ws, a) ==
    answer' = IF IsMethod(r) THEN [answer EXCEPT ![r] = Delivered(r, Through(ws, a))] ELSE answer

\* Promise::operator(): the first answer counts.
Fulfil(r, ws, a) ==
    answer' = IF IsMethod(r) /\ answer[r] = None
              THEN [answer EXCEPT ![r] = Delivered(r, Through(ws, a))] ELSE answer

\* The continuation of the client that asked runs inside of the call that
\* fulfils the promise.
Continuation(r) ==
    IF IsMethod(r) /\ answer[r] = None /\ req[r].from = "client" THEN <<Callback(r)>> ELSE << >>

-----------------------------------------------------------------------------
\* ForwardToHandler, IClientTransport.

\* SendMethod, SendNotify: the handler is called with a new Request that has no
\* context; without a handler nothing happens and the promise goes away.
Send(below, r, name, h, shield) ==
    IF h \in alive
    THEN /\ stack' = Append(below, HandleFrame(r, h, name, None, shield))
         /\ UNCHANGED answer
    ELSE /\ stack' = below \o Continuation(r)
         /\ Fulfil(r, wraps[r], "broken")

\* SendBatch: the methods first, then the notifications.
SendBatchStep ==
    /\ Running("batch")
    /\ LET b == Top.batch
           isMethod == b.methods # << >>
           r == IF isMethod THEN Head(b.methods) ELSE Head(b.notifs)
           rest == IF isMethod THEN [b EXCEPT !.methods = Tail(b.methods)]
                               ELSE [b EXCEPT !.notifs = Tail(b.notifs)]
       IN  /\ b # EmptyBatch
           /\ Send(Append(Front(stack), BatchFrame(rest)), r, req[r].name, Main, FALSE)
    /\ UNCHANGED <<req, client, config, current, waiting, wraps, rejected>>

\* SendBatch returns and batchDone clears batchActive.
BatchDone ==
    /\ Running("batch") /\ Top.batch = EmptyBatch
    /\ stack' = Front(stack)
    /\ batchActive' = FALSE
    /\ UNCHANGED <<req, answer, currentBatch, guard, connected, prefix, failed, batches,
                   config, current, waiting, wraps, rejected>>

-----------------------------------------------------------------------------
\* Client.

\* StartBatch; it throws if a batch is active.
StartBatch ==
    /\ UserCode /\ ~batchActive /\ batches < MaxBatches
    /\ batchActive' = TRUE /\ guard' = TRUE /\ batches' = batches + 1
    /\ UNCHANGED <<req, answer, currentBatch, connected, prefix, failed,
                   config, current, waiting, wraps, rejected, stack>>

\* Seeded fault: the batch is moved away before tr() throws.
FinishMovesFirst ==
    /\ UserCode /\ guard
    /\ guard' = FALSE /\ currentBatch' = EmptyBatch
    /\ stack' = IF connected THEN Append(stack, BatchFrame(currentBatch)) ELSE stack
    /\ failed' = (failed \/ ~connected)
    /\ UNCHANGED <<req, answer, batchActive, connected, prefix, batches,
                   config, current, waiting, wraps, rejected>>

\* BatchGuard::Finish and batchDone: the guard is spent whatever happens; tr()
\* throws without a transport, and the batch stays active with all it holds.
Finish ==
    /\ UserCode /\ guard
    /\ guard' = FALSE
    /\ IF connected
       THEN /\ stack' = Append(stack, BatchFrame(currentBatch))
            /\ currentBatch' = EmptyBatch
            /\ UNCHANGED failed
       ELSE failed' = TRUE /\ UNCHANGED <<stack, currentBatch>>
    /\ UNCHANGED <<req, answer, batchActive, connected, prefix, batches,
                   config, current, waiting, wraps, rejected>>

\* Seeded fault: only methods wait for the batch.
QueuesMethodsOnly(p) == batchActive /\ ~p.notify

\* NotifyRaw and sendRequest: a request joins the batch that is active.
Queues(p) == batchActive

\* tr() finds the transport, and the transport its handler.
Reachable == connected /\ Main \in alive

\* For the properties: which guard is valid, or that SendBatch is running.
Period == CASE guard -> batches [] ~guard /\ Sending -> WhileSending [] OTHER -> Free

\* sendRequest and NotifyRaw: the request joins the active batch, or goes to the
\* transport; tr() throws without one, which breaks the promise.
Request(p) ==
    LET r == Len(req) + 1
        q == [name |-> AddPref(p.name, prefix), notify |-> p.notify,
              params |-> p.params, from |-> "client", during |-> Period]
    IN  /\ UserCode /\ r \in Requests
        /\ req' = Append(req, q)
        /\ IF Queues(p)
           THEN /\ currentBatch' = IF p.notify
                                   THEN [currentBatch EXCEPT !.notifs = Append(@, r)]
                                   ELSE [currentBatch EXCEPT !.methods = Append(@, r)]
                /\ UNCHANGED <<stack, answer>>
           ELSE /\ stack' = IF Reachable
                            THEN Append(stack, HandleFrame(r, Main, q.name, None, FALSE))
                            ELSE stack
                /\ answer' = IF p.notify \/ Reachable THEN answer
                             ELSE [answer EXCEPT ![r] = "broken"]
                /\ UNCHANGED currentBatch
        /\ UNCHANGED <<batchActive, guard, connected, prefix, failed, batches,
                       config, current, waiting, wraps, rejected>>

\* handleServer: a request arrives from a peer, with a context of its own.  An
\* exception from a notification leaves Receive.
Receive(p) ==
    LET r == Len(req) + 1
        msg == IF p.notify THEN MakeNotify(Proto, p.name, p.params)
                           ELSE MakeRequest(Proto, r, p.name, p.params)
        u == ReadRequest(Proto, msg)
    IN  /\ stack = << >> /\ r \in Requests /\ Main \in alive
        /\ IsRequest(Proto, msg)
        /\ req' = Append(req, [name |-> p.name, notify |-> u.notify, params |-> u.params,
                               from |-> "peer", during |-> Free])
        /\ stack' = <<HandleFrame(r, Main, u.method, r, TRUE)>>
        /\ UNCHANGED <<answer, client, config, current, waiting, wraps, rejected>>

-----------------------------------------------------------------------------
\* IHandler and Server.

LiveRoutes(h) ==
    [w \in {w \in routes[h] : Mounts[h][w] \in alive \cup {Proxy}} |-> Mounts[h][w]]

\* An exception leaves HandleNotify: Receive and IClientTransport::DoHandleNotify
\* log it, the loop of SendBatch is left and batchActive stays as it is, and any
\* other caller is user code that may go on.
ThrowNotify(below, shield) ==
    LET aborts == ~shield /\ below # << >> /\ below[Len(below)].at = "batch"
    IN  /\ stack' = IF aborts THEN Front(below) ELSE below
        /\ failed' = (failed \/ aborts)

\* Handle and HandleNotify with a route: OnForward wraps the promise and runs the
\* route middlewares; if one throws the promise is rejected, with the exception
\* handlers asked here and again by the continuation, the context is moved away,
\* and the request is handed on all the same.  OnForwardNotify throws.
Forward ==
    /\ Running("route") /\ Top.h \in Servers
    /\ LET f == Top
           t == TryRoute(LiveRoutes(f.h), f.name)
           word == Words(f.name)[1]
           ws == Append(wraps[f.r], f.h)
           on == [f EXCEPT !.h = Mounts[f.h][word], !.name = t.method]
       IN  /\ t.routed
           /\ \/ /\ stack' = Append(Front(stack), on)
                 /\ wraps' = IF IsMethod(f.r) THEN [wraps EXCEPT ![f.r] = ws] ELSE wraps
                 /\ UNCHANGED <<answer, rejected, failed>>
              \/ /\ f.h \in RouteMiddlewares /\ IsMethod(f.r)
                 /\ stack' = Front(stack) \o <<[on EXCEPT !.ctx = None]>> \o Continuation(f.r)
                 /\ wraps' = [wraps EXCEPT ![f.r] = ws]
                 /\ Fulfil(f.r, ws, ExcHandlers(RouteEHandlers[f.h], "app"))
                 /\ rejected' = rejected \cup {f.r}
                 /\ UNCHANGED failed
              \/ /\ f.h \in RouteMiddlewares /\ ~IsMethod(f.r)
                 /\ ThrowNotify(Front(stack), f.shield)
                 /\ UNCHANGED <<answer, wraps, rejected>>
    /\ UNCHANGED <<req, batchActive, currentBatch, guard, connected, prefix, batches,
                   config, current, waiting>>

\* IClientTransport::DoHandle and DoHandleNotify: the request goes out again.
ForwardToTransport ==
    /\ Running("route") /\ Top.h = Proxy
    /\ Send(Front(stack), Top.r, Top.name, ProxyTarget, TRUE)
    /\ UNCHANGED <<req, client, config, current, waiting, wraps, rejected>>

\* validateRequest.
ValidateRequest(call, r) ==
    /\ (call.kind = "notify") = ~IsMethod(r)
    /\ call.params \in {"none", req[r].params}

\* Seeded fault: an inner call leaves its own context behind.
LeaveContextNested(f) ==
    current' = [current EXCEPT ![f.h] =
        IF Len(stack) > 1 THEN f.ctx ELSE FallbackCtx]

\* The deferred revert of DoHandle.
LeaveContext(f) == current' = [current EXCEPT ![f.h] = FallbackCtx]

\* The calls below the top one; those on the same server h are no longer the one
\* that current belongs to.
Below(h) == [i \in 1 .. Len(stack) - 1 |->
                IF stack[i].at = "body" /\ stack[i].h = h
                THEN [stack[i] EXCEPT !.own = FALSE] ELSE stack[i]]

\* DoHandle and DoHandleNotify end with an exception: the context is reverted,
\* the exception handlers are asked, and the promise is rejected or the exception
\* goes on.
Throws(f, e) ==
    /\ LeaveContext(f)
    /\ IF IsMethod(f.r)
       THEN /\ Fulfil(f.r, wraps[f.r], ExcHandlers(EHandlers[f.h], e))
            /\ stack' = Below(f.h) \o Continuation(f.r)
            /\ UNCHANGED failed
       ELSE ThrowNotify(Below(f.h), f.shield) /\ UNCHANGED answer

\* The call answers from inside of DoHandle: the client's continuation runs
\* before DoHandle returns.
AnswersInside(f, a) ==
    /\ Fulfil(f.r, wraps[f.r], a)
    /\ stack' = Below(f.h) \o <<[f EXCEPT !.at = "leave"]>> \o Continuation(f.r)

\* The request's context becomes current.
Enter(f) == current' = [current EXCEPT ![f.h] = f.ctx] /\ UNCHANGED failed

Found(f) == Len(f.name) = 1 /\ f.name[1] \in calls[f.h]
IsExtension(f) == IsMethod(f.r) /\ f.name # << >> /\ f.name[1] \in {"rpc.list", "rpc.other"}

\* runMiddlewares, from the last to the first until one throws.
MiddlewareThrows(f) == f.h \in Middlewares /\ Throws(f, "app")

\* handleExtension.
Extension(f) ==
    /\ IsExtension(f)
    /\ \/ f.name = <<"rpc.list">> /\ Enter(f) /\ AnswersInside(f, "value")
       \/ f.name # <<"rpc.list">> /\ Throws(f, "not_found")

\* The method is found and the request fits it, or does not.
CallFound(f) ==
    LET call == Methods[f.name[1]] IN
    /\ ~IsExtension(f) /\ Found(f)
    /\ \/ /\ ValidateRequest(call, f.r) /\ Enter(f)
          /\ stack' = Append(Below(f.h), [f EXCEPT !.at = "body"])
          /\ UNCHANGED answer
       \/ ~ValidateRequest(call, f.r) /\ Throws(f, "invalid")

\* It is not: the fallback answers or throws, without one the method is not
\* found, and a notification is ignored.
NotFound(f) ==
    /\ ~IsExtension(f) /\ ~Found(f)
    /\ \/ IsMethod(f.r) /\ f.h \in fallback /\ Enter(f) /\ AnswersInside(f, "value")
       \/ IsMethod(f.r) /\ f.h \in fallback /\ Throws(f, "app")
       \/ /\ IsMethod(f.r) /\ f.h \notin fallback /\ Enter(f)
          /\ AnswersInside(f, ExcHandlers(EHandlers[f.h], "not_found"))
       \/ /\ ~IsMethod(f.r) /\ Enter(f)
          /\ stack' = Append(Below(f.h), [f EXCEPT !.at = "leave"])
          /\ UNCHANGED answer

\* DoHandle and DoHandleNotify up to the handler.
DoHandle ==
    /\ Running("route") /\ Top.h \in Servers
    /\ LET t == TryRoute(LiveRoutes(Top.h), Top.name)
           f == [Top EXCEPT !.name = t.method]
       IN  ~t.routed /\ (MiddlewareThrows(f) \/ Extension(f) \/ CallFound(f) \/ NotFound(f))
    /\ UNCHANGED <<req, batchActive, currentBatch, guard, connected, prefix, batches,
                   config, waiting, wraps, rejected>>

\* IHandler::Handle and HandleNotify.
Handle == Forward \/ ForwardToTransport \/ DoHandle

\* The handler returns: a synchronous one and one whose future is ready answer
\* inside of DoHandle; another leaves Wrap on its future.
HandlerReturns ==
    /\ Running("body")
    /\ LET kind == Methods[Top.name[1]].kind IN
       \/ /\ kind \in {"sync", "async"}
          /\ AnswersInside(Top, "value") /\ UNCHANGED waiting
       \/ /\ kind = "async"
          /\ \/ /\ AnswersInside(Top, ExcHandlers(EHandlers[Top.h], "app")) /\ UNCHANGED waiting
             \/ /\ waiting' = [waiting EXCEPT ![Top.r] = Top.h]
                /\ stack' = Append(Front(stack), [Top EXCEPT !.at = "leave"])
                /\ UNCHANGED answer
       \/ /\ kind = "notify"
          /\ stack' = Append(Front(stack), [Top EXCEPT !.at = "leave"])
          /\ UNCHANGED <<waiting, answer>>
    /\ UNCHANGED <<req, client, config, current, wraps, rejected>>

\* The handler throws.
HandlerThrows ==
    /\ Running("body") /\ Throws(Top, "app")
    /\ UNCHANGED <<req, batchActive, currentBatch, guard, connected, prefix, batches,
                   config, waiting, wraps, rejected>>

\* DoHandle returns.
Leave ==
    /\ Running("leave")
    /\ LeaveContext(Top) /\ stack' = Front(stack)
    /\ UNCHANGED <<req, answer, client, config, waiting, wraps, rejected>>

\* The client's continuation returns.
CallbackReturns ==
    /\ Running("callback") /\ stack' = Front(stack)
    /\ UNCHANGED <<req, answer, client, config, current, waiting, wraps, rejected>>

\* The future of an asynchronous handler is settled; Wrap runs on the server's
\* executor, and is dropped with its promise if the server is gone.
Settle(r) ==
    /\ stack = << >> /\ waiting[r] # None
    /\ \E res \in {"value", "app"} :
          Fulfil(r, wraps[r], CASE waiting[r] \notin alive -> "broken"
                                [] waiting[r] \in alive /\ res = "value" -> res
                                [] OTHER -> ExcHandlers(EHandlers[waiting[r]], res))
    /\ stack' = Continuation(r)
    /\ waiting' = [waiting EXCEPT ![r] = None]
    /\ UNCHANGED <<req, client, config, current, wraps, rejected>>

-----------------------------------------------------------------------------
\* Changes of the configuration by user code.

Change == UserCode /\ changes < MaxChanges /\ changes' = changes + 1
Calm == UNCHANGED <<req, answer, batchActive, currentBatch, guard, failed, batches,
                    current, waiting, wraps, rejected, stack>>

\* SetTransport, or the end of the transport the client watches.
SetTransport ==
    /\ Change /\ connected' = ~connected
    /\ Calm /\ UNCHANGED <<prefix, alive, routes, calls, fallback>>

SetPrefix(p) ==
    /\ Change /\ p # prefix /\ prefix' = p
    /\ Calm /\ UNCHANGED <<connected, alive, routes, calls, fallback>>

\* SetRoute with a null handler.
SetRoute(s, w) ==
    /\ Change /\ s \in alive /\ w \in routes[s]
    /\ routes' = [routes EXCEPT ![s] = @ \ {w}]
    /\ Calm /\ UNCHANGED <<connected, prefix, alive, calls, fallback>>

\* registerCall, which throws if the name is taken.
RegisterCall(s, m) ==
    /\ Change /\ s \in alive /\ m \notin calls[s]
    /\ calls' = [calls EXCEPT ![s] = @ \cup {m}]
    /\ Calm /\ UNCHANGED <<connected, prefix, alive, routes, fallback>>

\* Unregister, of a method that is not running.
Unregister(s, m) ==
    /\ Change /\ s \in alive /\ m \in calls[s]
    /\ \A i \in DOMAIN stack : stack[i].at = "body" => stack[i].name # <<m>>
    /\ calls' = [calls EXCEPT ![s] = @ \ {m}]
    /\ Calm /\ UNCHANGED <<connected, prefix, alive, routes, fallback>>

SetFallback(s) ==
    /\ Change /\ s \in alive \ fallback /\ fallback' = fallback \cup {s}
    /\ Calm /\ UNCHANGED <<connected, prefix, alive, routes, calls>>

\* ~Server, which stops its executor; no call is inside of it.
DestroyServer(s) ==
    /\ Change /\ s \in alive
    /\ \A i \in DOMAIN stack : stack[i].at \in {"route", "body", "leave"} => stack[i].h # s
    /\ alive' = alive \ {s}
    /\ Calm /\ UNCHANGED <<connected, prefix, routes, calls, fallback>>

Reconfigure ==
    \/ SetTransport
    \/ \E p \in NamePrefixes : SetPrefix(p)
    \/ \E s \in Servers : SetFallback(s) \/ DestroyServer(s)
    \/ \E s \in Servers : \/ \E w \in DOMAIN Mounts[s] : SetRoute(s, w)
                          \/ \E m \in DOMAIN Methods : RegisterCall(s, m) \/ Unregister(s, m)

-----------------------------------------------------------------------------
Return == \/ SendBatchStep \/ BatchDone \/ Handle \/ HandlerReturns \/ HandlerThrows \/ Leave \/ CallbackReturns

\* The program waits in its event loop.  Every other state has a next step: no
\* nesting of calls gets stuck.
Idle == stack = << >> /\ (\A r \in Requests : waiting[r] = None) /\ UNCHANGED vars

Next ==
    \/ StartBatch \/ Finish
    \/ \E p \in Profiles : Request(p)
    \/ \E p \in PeerProfiles : Receive(p)
    \/ Return
    \/ \E r \in Requests : Settle(r)
    \/ Reconfigure
    \/ Idle

Spec == Init /\ [][Next]_vars

-----------------------------------------------------------------------------
\* Properties.

\* Where an unanswered request of a client is.
InBatch(b, r) == {<<"m", i>> : i \in {i \in DOMAIN b.methods : b.methods[i] = r}}
                 \cup {<<"n", i>> : i \in {i \in DOMAIN b.notifs : b.notifs[i] = r}}
Places(r) ==
    {<<"queued", p>> : p \in InBatch(currentBatch, r)}
    \cup (UNION {{<<i, p>> : p \in InBatch(stack[i].batch, r)} :
                     i \in {i \in DOMAIN stack : stack[i].at = "batch"}})
    \cup {i \in DOMAIN stack : stack[i].at \in {"route", "body"} /\ stack[i].r = r}
    \cup (IF waiting[r] # None THEN {<<"waiting">>} ELSE {})

\* A request whose promise is not fulfilled is in exactly one place: a batch, a
\* call, or the hands of an asynchronous handler.  None is lost when SendBatch
\* throws, a transport or a server goes away, or calls nest.
Accounted == \A r \in Made : IsMethod(r) /\ answer[r] = None => Cardinality(Places(r)) = 1

\* Nothing is sent until the BatchGuard finishes: what was made under a guard that
\* is valid is still in the batch, once.  A batch is active without a guard only
\* while SendBatch runs, or for ever once it has failed; requests are left in the
\* batch when none is active only if they were made while SendBatch ran.
BatchHolds ==
    /\ guard => /\ batchActive
                /\ \A r \in Made : req[r].during = batches =>
                       Cardinality(InBatch(currentBatch, r)) = 1
    /\ batchActive => guard \/ failed \/ Sending
    /\ ~batchActive => \A r \in Made : InBatch(currentBatch, r) # {} => req[r].during = WhileSending

\* CurrentContext: a handler that has not been interrupted by another call to its
\* server sees the context of its own request, an interrupted one sees the
\* fallback context, nobody sees the context of another request, and outside of
\* handlers the fallback context is current.
OwnContext ==
    /\ Running("body") => current[Top.h] = IF Top.own THEN Top.ctx ELSE FallbackCtx
    /\ stack = << >> => \A s \in Servers : current[s] = FallbackCtx

\* A request that a route middleware threw at is answered with an error, although
\* it is handed on and its handler may run and answer.
RejectedStaysRejected == \A r \in rejected : answer[r] \in Codes

\* The word is mounted at the server from and leads to the server to, perhaps
\* through the transport.
Leads(from, word, to) ==
    word \in DOMAIN Mounts[from] /\ (Mounts[from][word] = to \/ (Mounts[from][word] = Proxy /\ to = ProxyTarget))

\* However a name is slashed and prefixed, and whichever routes come and go, a
\* handler is called under the last word of the name that was asked for, at the
\* server that the words before it lead to from Main, one after the other; a
\* name survives the wire and the transport on the way.
RoutedByName ==
    \A i \in DOMAIN stack : stack[i].at = "body" =>
        LET words == Words(req[stack[i].r].name)
        IN  /\ stack[i].name = <<Last(words)>>
            /\ \E path \in [1 .. Len(words) -> Servers] :
                  /\ path[1] = Main /\ path[Len(words)] = stack[i].h
                  /\ \A n \in 1 .. Len(words) - 1 : Leads(path[n], words[n], path[n + 1])
=============================================================================

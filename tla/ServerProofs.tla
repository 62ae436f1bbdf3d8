---------------------------- MODULE ServerProofs ----------------------------
(***************************************************************************)
(* Theorems about module TransportServer, for any set of messages of any   *)
(* length.                                                                 *)
(*                                                                         *)
(* The argument: with completions on one thread what a thread has read of  *)
(* a Batch is never stale, and left is the number of parts the loop has    *)
(* yet to take and of handlers that have yet to answer.  So it reaches     *)
(* zero in addBatchResp only when every part has its response.             *)
(***************************************************************************)
EXTENDS TransportServer, FiniteSetTheorems, SequenceTheorems, TLAPS

LoopPcs == {"dec", "push", "inc", "resp"}

\* Where the receiving thread is and what it has in hand.
LoopInv ==
    /\ pc = "idle" => ~batch /\ sent = << >> /\ parts = {} /\ \A k \in Slots : worker[k] = "none"
    /\ pc \in LoopPcs =>
        /\ batch /\ handler /\ msg # << >> /\ msg[1] # "blank" /\ next \in 1 .. Len(msg)
    /\ pc = "push" => msg[next] \in {"bad", "blank"}
    /\ pc = "inc" => msg[next] \in {"sync", "async"}
    /\ pc = "resp" => msg[next] = "sync"

ShapeInv == TypeOK /\ LoopInv

\* The messages that may arrive, and nothing before one does.
LEMMA MsgFacts ==
    ASSUME msg \in Messages \cup {<< >>}
    PROVE  /\ msg \in Seq(Kinds) /\ Len(msg) \in Nat /\ Len(msg) <= MaxParts /\ MaxParts \in Nat
           /\ DOMAIN msg = 1 .. Len(msg)
           /\ Len(msg) = 0 <=> msg = << >>
           /\ \A k \in 1 .. Len(msg) : msg[k] \in Kinds /\ k \in Slots
<1>1. msg \in Seq(Kinds) /\ Len(msg) <= MaxParts /\ MaxParts \in Nat
  <2>1. CASE msg = << >>
    BY <2>1, OneThreadAssumption
  <2>2. CASE msg \in Messages
    BY <2>2, MessagesAssumption, OneThreadAssumption
  <2> QED BY <2>1, <2>2
<1> QED BY <1>1 DEF Slots

\* Arithmetic of a size_t that does not wrap, and of one that may.
LEMMA DecInc ==
    ASSUME NEW n \in 0 .. Size - 1
    PROVE  /\ Dec(n) \in 0 .. Size - 1 /\ Inc(n) \in 0 .. Size - 1
           /\ n > 0 => Dec(n) = n - 1
           /\ n < Size - 1 => Inc(n) = n + 1
<1>1. MaxParts \in Nat /\ Size \in Nat /\ Size >= 2
  BY OneThreadAssumption DEF Size
<1>2. PICK m \in Nat : m = Size
  BY <1>1
<1>3. \A a \in Nat : a % m \in 0 .. m - 1
  BY <1>1, <1>2
<1>4. \A a \in 0 .. m - 1 : a % m = a /\ (a + m) % m = a
  BY <1>1, <1>2
<1>5. n + m - 1 \in Nat /\ n + 1 \in Nat
  BY <1>1, <1>2
<1>6. n > 0 => n + m - 1 = (n - 1) + m /\ n - 1 \in 0 .. m - 1
  BY <1>1, <1>2
<1>7. n < Size - 1 => n + 1 \in 0 .. m - 1
  BY <1>1, <1>2
<1> QED BY <1>2, <1>3, <1>4, <1>5, <1>6, <1>7 DEF Dec, Inc

-----------------------------------------------------------------------------
\* Types, with any threads.

\* What a thread has read.
LEMMA CopyFacts ==
    ASSUME TypeOK, NEW a \in Actors, copy[a] # None
    PROVE  /\ copy[a].left \in 0 .. Size - 1 /\ copy[a].parts \subseteq Slots
           /\ [copy EXCEPT ![a] = None] \in [Actors -> {None} \cup [left : 0 .. Size - 1, parts : SUBSET Slots]]
BY DEF TypeOK

LEMMA InitShape == Init => ShapeInv
<1> SUFFICES ASSUME Init PROVE ShapeInv
  OBVIOUS
<1>1. MaxParts \in Nat /\ Size \in Nat /\ Size >= 2
  BY OneThreadAssumption DEF Size
<1>2. sent \in Seq(SUBSET Slots)
  BY DEF Init
<1>3. TypeOK
  <2>1. handler \in BOOLEAN /\ batch \in BOOLEAN
    BY DEF Init
  <2> QED BY <1>1, <1>2, <2>1 DEF Init, TypeOK
<1>4. LoopInv
  BY DEF Init, LoopInv, LoopPcs
<1> QED BY <1>3, <1>4 DEF ShapeInv

\* A message arrives.
LEMMA ReceiveShape ==
    ASSUME ShapeInv, NEW m \in Messages, ReceiveOne(m) \/ ReceiveBatch(m)
    PROVE  ShapeInv'
<1>1. m \in Seq(Kinds) /\ m # << >> /\ Len(m) \in 1 .. MaxParts /\ MaxParts \in Nat /\ 1 \in Slots
  BY MessagesAssumption, OneThreadAssumption DEF Slots
<1>2. CASE ReceiveOne(m)
  <2>1. sent' \in Seq(SUBSET Slots) /\ worker' \in [Slots -> {"none", "open", "resp", "done", "dropped"}]
    <3>1. <<{1}>> \in Seq(SUBSET Slots)
      BY <1>1
    <3> QED BY <1>1, <1>2, <3>1 DEF ReceiveOne, ShapeInv, TypeOK
  <2> QED BY <1>1, <1>2, <2>1 DEF ReceiveOne, ShapeInv, TypeOK, LoopInv, LoopPcs
<1>3. CASE ReceiveBatch(m)
  <2>1. left' \in 0 .. Size - 1 /\ 1 \in 0 .. MaxParts + 1
    BY <1>1, <1>3 DEF ReceiveBatch, ShapeInv, TypeOK, Size
  <2> QED BY <1>1, <1>3, <2>1 DEF ReceiveBatch, ShapeInv, TypeOK, LoopInv, LoopPcs
<1> QED BY <1>2, <1>3

\* A thread reads left and parts.
LEMMA LoadShape ==
    ASSUME ShapeInv, NEW a \in Actors, Load(a)
    PROVE  ShapeInv'
BY DEF Load, ShapeInv, TypeOK, LoopInv, LoopPcs

\* The loop goes on: next stays inside of the message, or the loop is over.
LEMMA NextPartShape ==
    ASSUME ShapeInv, pc \in LoopPcs, NextPart
    PROVE  /\ next' \in 0 .. MaxParts + 1 /\ pc' \in {"end", "dec"}
           /\ pc' = "dec" => next' \in 1 .. Len(msg)
           /\ next' = next + 1 /\ (pc' = "end" <=> next = Len(msg))
BY MsgFacts DEF NextPart, ShapeInv, TypeOK, LoopInv, LoopPcs

\* A response is sent, or nothing is and the program is at its end.
LEMMA SendShape ==
    ASSUME TypeOK, NEW response \in SUBSET Slots, Send(response)
    PROVE  sent' \in Seq(SUBSET Slots) /\ life' \in {"up", "clearing", "gone", "crashed"}
<1>1. sent \in Seq(SUBSET Slots) /\ life \in {"up", "clearing", "gone", "crashed"}
  BY DEF TypeOK
<1>2. CASE life = "up"
  BY <1>1, <1>2 DEF Send
<1>3. CASE life # "up"
  BY <1>1, <1>3 DEF Send
<1> QED BY <1>2, <1>3

\* The steps of the loop.
LEMMA LoopShape ==
    ASSUME ShapeInv, TakePart \/ PushError \/ CallMethod \/ RespondInLoop
    PROVE  ShapeInv'
<1>1. /\ Receiver \in Actors /\ copy[Receiver] # None /\ pc \in LoopPcs
      /\ next \in 1 .. Len(msg) /\ next \in Slots /\ TypeOK /\ msg[next] \in Kinds
  BY MsgFacts DEF TakePart, PushError, CallMethod, RespondInLoop, Actors, LoopPcs, ShapeInv, LoopInv, TypeOK
<1>2. /\ copy[Receiver].left \in 0 .. Size - 1 /\ copy[Receiver].parts \subseteq Slots
      /\ [copy EXCEPT ![Receiver] = None] \in [Actors -> {None} \cup [left : 0 .. Size - 1, parts : SUBSET Slots]]
      /\ Dec(copy[Receiver].left) \in 0 .. Size - 1 /\ Inc(copy[Receiver].left) \in 0 .. Size - 1
  BY <1>1, CopyFacts, DecInc
<1>3. CASE TakePart
  <2>1. /\ next' \in 0 .. MaxParts + 1 /\ pc' \in {"dec", "push", "inc", "end"}
        /\ pc' # "end" => next' \in 1 .. Len(msg)
        /\ pc' = "push" => next' = next /\ msg[next] \in {"bad", "blank"}
        /\ pc' = "inc" => next' = next /\ msg[next] \in {"sync", "async"}
    BY <1>1, <1>3, NextPartShape DEF TakePart, ShapeInv, TypeOK
  <2> QED BY <1>1, <1>2, <1>3, <2>1 DEF TakePart, ShapeInv, TypeOK, LoopInv, LoopPcs
<1>4. CASE PushError
  <2>1. parts' \subseteq Slots
    BY <1>1, <1>2, <1>4 DEF PushError
  <2> QED BY <1>1, <1>2, <1>4, <2>1, NextPartShape DEF PushError, ShapeInv, TypeOK, LoopInv, LoopPcs
<1>5. CASE CallMethod
  <2>1. /\ next' \in 0 .. MaxParts + 1 /\ pc' \in {"dec", "resp", "end"}
        /\ pc' # "end" => next' \in 1 .. Len(msg)
        /\ pc' = "resp" => next' = next /\ msg[next] = "sync"
        /\ worker' \in [Slots -> {"none", "open", "resp", "done", "dropped"}]
    BY <1>1, <1>5, NextPartShape DEF CallMethod, ShapeInv, TypeOK
  <2> QED BY <1>1, <1>2, <1>5, <2>1 DEF CallMethod, ShapeInv, TypeOK, LoopInv, LoopPcs
<1>6. CASE RespondInLoop
  <2>1. parts' \subseteq Slots /\ parts' \in SUBSET Slots
    BY <1>1, <1>2, <1>6 DEF RespondInLoop, AddBatchResp
  <2>2. sent' \in Seq(SUBSET Slots) /\ life' \in {"up", "clearing", "gone", "crashed"}
    BY <1>1, <1>6, <2>1, SendShape DEF RespondInLoop, AddBatchResp, TypeOK
  <2> QED BY <1>1, <1>2, <1>6, <2>1, <2>2, NextPartShape
          DEF RespondInLoop, AddBatchResp, ShapeInv, TypeOK, LoopInv, LoopPcs
<1> QED BY <1>3, <1>4, <1>5, <1>6

\* The steps of the handlers that answer later, and ~IAsyncTransport.
LEMMA WorkerShape ==
    ASSUME ShapeInv, (\E k \in Slots : Worker(k)) \/ Destroy \/ Stop
    PROVE  ShapeInv'
<1>1. ASSUME NEW k \in Slots, Resolve(k) PROVE ShapeInv'
  BY <1>1 DEF Resolve, ShapeInv, TypeOK, LoopInv, LoopPcs
<1>2. ASSUME NEW k \in Slots, WorkerLoad(k) PROVE ShapeInv'
  BY <1>2, LoadShape DEF WorkerLoad, Actors
<1>3. ASSUME NEW k \in Slots, RespondLater(k) PROVE ShapeInv'
  <2>1. k \in Actors /\ copy[k] # None /\ pc # "idle" /\ TypeOK
    BY <1>3 DEF RespondLater, Actors, ShapeInv, LoopInv
  <2>2. /\ copy[k].left \in 0 .. Size - 1 /\ copy[k].parts \subseteq Slots
        /\ [copy EXCEPT ![k] = None] \in [Actors -> {None} \cup [left : 0 .. Size - 1, parts : SUBSET Slots]]
        /\ Dec(copy[k].left) \in 0 .. Size - 1
    BY <2>1, CopyFacts, DecInc
  <2>3. parts' \subseteq Slots /\ parts' \in SUBSET Slots
    BY <1>3, <2>1, <2>2 DEF RespondLater, AddBatchResp
  <2>4. sent' \in Seq(SUBSET Slots) /\ life' \in {"up", "clearing", "gone", "crashed"}
    BY <1>3, <2>1, <2>3, SendShape DEF RespondLater, AddBatchResp, TypeOK
  <2> QED BY <1>3, <2>1, <2>2, <2>3, <2>4 DEF RespondLater, AddBatchResp, ShapeInv, TypeOK, LoopInv, LoopPcs
<1>4. ASSUME NEW k \in Slots, SendResult(k) PROVE ShapeInv'
  <2>1. pc # "idle" /\ {k} \in SUBSET Slots
    BY <1>4 DEF SendResult, ShapeInv, LoopInv
  <2>2. sent' \in Seq(SUBSET Slots) /\ life' \in {"up", "clearing", "gone", "crashed"}
    BY <1>4, <2>1, SendShape DEF SendResult, ShapeInv
  <2> QED BY <1>4, <2>1, <2>2 DEF SendResult, ShapeInv, TypeOK, LoopInv, LoopPcs
<1>5. CASE Destroy \/ Stop
  BY <1>5 DEF Destroy, Stop, ShapeInv, TypeOK, LoopInv, LoopPcs
<1> QED BY <1>1, <1>2, <1>3, <1>4, <1>5 DEF Worker

LEMMA NextShape == ShapeInv /\ [Next]_vars => ShapeInv'
<1> SUFFICES ASSUME ShapeInv, [Next]_vars PROVE ShapeInv'
  OBVIOUS
<1>1. CASE UNCHANGED vars
  BY <1>1 DEF vars, ShapeInv, TypeOK, LoopInv, LoopPcs
<1>2. CASE Loop
  BY <1>2, LoopShape, LoadShape DEF Loop, LoopLoad, Actors
<1> QED BY <1>1, <1>2, ReceiveShape, WorkerShape DEF Next

\* Every step keeps the types, on one thread or on many: left stays in the range of
\* its size_t and no step reaches for a part the message does not have.
THEOREM ServerTypeOK == Spec => []TypeOK
BY InitShape, NextShape, PTL DEF Spec, ShapeInv

-----------------------------------------------------------------------------
\* One thread.

\* What was read of the Batch is what is there, and only the thread that is about
\* to write has read it.
CopyInv ==
    /\ copy[Receiver] # None => pc \in LoopPcs
    /\ \A k \in Slots : copy[k] # None => worker[k] = "resp" /\ batch
    /\ \A a \in Actors : copy[a] # None => copy[a].left = left /\ copy[a].parts = parts

\* One completion at a time, none inside of the loop.
ThreadInv ==
    /\ \A k \in Slots : worker[k] = "resp" => pc \in {"idle", "end"}
    /\ \A k, l \in Slots : worker[k] = "resp" /\ worker[l] = "resp" => k = l

\* A batch that handleServerBatch goes through: somebody handles it, and it is not
\* taken for responses.
Served == batch /\ handler /\ msg[1] # "blank"

\* The decrements of left to come from the loop, and the handlers that will make one.
Remaining ==
    IF pc \in {"dec", "resp"} THEN Len(msg) - next + 1
    ELSE IF pc \in {"push", "inc"} THEN Len(msg) - next ELSE 0
Outstanding == {k \in Slots : worker[k] \in {"open", "resp", "dropped"}}

\* The part k that the loop is done with.
PartInv(k) ==
    /\ k \in DOMAIN msg
    /\ msg[k] = "async" => worker[k] # "none" /\ (k \in parts <=> worker[k] = "done")
    /\ msg[k] # "async" => worker[k] = "none" /\ (k \in parts <=> msg[k] # "notify")

\* The batch as a whole.
BatchInv ==
    /\ pc # "idle" /\ next \in 1 .. Len(msg) + 1
    /\ pc = "end" <=> next = Len(msg) + 1
    /\ left = Remaining + Cardinality(Outstanding)
    /\ \A k \in Slots : IF k < next THEN PartInv(k) ELSE worker[k] = "none" /\ k \notin parts
    /\ sent # << >> => left = 0 /\ pc = "end" /\ sent = <<parts>>

\* A batch nobody handles, and a request that came alone.
UnservedInv == pc = "end" /\ sent = << >> /\ \A k \in Slots : worker[k] = "none"
SingleInv ==
    /\ pc = "end" /\ Len(sent) <= 1
    /\ \A k \in Slots : worker[k] # "none" => k = 1
    /\ worker[1] \in {"open", "resp"} => sent = << >>

ServerInv ==
    /\ ShapeInv /\ CopyInv /\ ThreadInv
    /\ Served => BatchInv
    /\ batch /\ ~Served => UnservedInv
    /\ ~batch /\ pc # "idle" => SingleInv

\* The handlers that will answer are counted one by one.
LEMMA OutstandingFacts ==
    /\ IsFiniteSet(Outstanding) /\ Cardinality(Outstanding) \in Nat
    /\ Outstanding = {} <=> Cardinality(Outstanding) = 0
    /\ \A k \in Slots : k \notin Outstanding =>
          Cardinality(Outstanding \cup {k}) = Cardinality(Outstanding) + 1
    /\ \A k \in Outstanding : Cardinality(Outstanding \ {k}) = Cardinality(Outstanding) - 1
    /\ \A n \in Nat : Outstanding \subseteq 1 .. n => Cardinality(Outstanding) <= n
<1>1. IsFiniteSet(Slots) /\ Outstanding \in SUBSET Slots
  BY OneThreadAssumption, FS_Interval DEF Slots, Outstanding
<1>2. IsFiniteSet(Outstanding)
  BY <1>1, FS_Subset
<1>3. ASSUME NEW n \in Nat, Outstanding \subseteq 1 .. n PROVE Cardinality(Outstanding) <= n
  <2>1. IsFiniteSet(1 .. n) /\ Cardinality(1 .. n) = n
    BY FS_Interval
  <2>2. Outstanding \in SUBSET (1 .. n)
    BY <1>3
  <2>3. Cardinality(Outstanding) <= Cardinality(1 .. n)
    BY <2>1, <2>2, FS_Subset
  <2> QED BY <2>1, <2>3
<1> QED BY <1>2, <1>3, FS_CardinalityType, FS_EmptySet, FS_AddElement, FS_RemoveElement

LEMMA InitServer == Init => ServerInv
<1> SUFFICES ASSUME Init PROVE ServerInv
  OBVIOUS
<1>1. ShapeInv
  BY InitShape
<1>2. CopyInv /\ ThreadInv
  BY DEF Init, CopyInv, ThreadInv, Actors
<1> QED BY <1>1, <1>2 DEF Init, ServerInv, Served

\* A message arrives.
LEMMA ReceiveServer ==
    ASSUME ServerInv, NEW m \in Messages, ReceiveOne(m) \/ ReceiveBatch(m)
    PROVE  ServerInv'
<1>1. ShapeInv' /\ ShapeInv
  BY ReceiveShape DEF ServerInv
<1>2. /\ pc = "idle" /\ ~batch /\ sent = << >> /\ m # << >> /\ m \in Seq(Kinds)
      /\ \A k \in Slots : worker[k] = "none"
      /\ \A a \in Actors : copy[a] = None
  BY <1>1, MessagesAssumption
     DEF ReceiveOne, ReceiveBatch, ShapeInv, LoopInv, ServerInv, CopyInv, LoopPcs, Actors
<1>3. CASE ReceiveOne(m)
  <2>1. 1 \in Slots /\ worker \in [Slots -> {"none", "open", "resp", "done", "dropped"}]
    BY <1>1, MessagesAssumption, OneThreadAssumption DEF Slots, ShapeInv, TypeOK
  <2>2. CopyInv' /\ ThreadInv'
    BY <1>2, <1>3, <2>1 DEF ReceiveOne, CopyInv, ThreadInv, Actors
  <2>3. SingleInv'
    <3>1. Len(sent') <= 1
      BY <1>2, <1>3 DEF ReceiveOne
    <3>2. worker'[1] \in {"open", "resp"} => sent' = << >>
      BY <1>2, <1>3, <2>1 DEF ReceiveOne
    <3> QED BY <1>2, <1>3, <2>1, <3>1, <3>2 DEF ReceiveOne, SingleInv
  <2>4. batch' = FALSE
    BY <1>2, <1>3 DEF ReceiveOne, ShapeInv, TypeOK
  <2> QED BY <1>1, <2>2, <2>3, <2>4 DEF ServerInv, Served
<1>4. CASE ReceiveBatch(m)
  <2>1. CopyInv' /\ ThreadInv'
    BY <1>2, <1>4 DEF ReceiveBatch, CopyInv, ThreadInv, Actors
  <2>2. ASSUME Served' PROVE BatchInv'
    <3>1. /\ pc' = "dec" /\ next' = 1 /\ left' = Len(m) /\ msg' = m
          /\ UNCHANGED <<worker, parts, sent>>
      BY <1>4, <2>2 DEF ReceiveBatch, Served
    <3>2. parts = {}
      BY <1>1, <1>2 DEF ShapeInv, LoopInv
    <3>3. Len(m) \in Nat \ {0}
      BY <1>2
    <3>4. Outstanding' = {}
      BY <1>2, <3>1 DEF Outstanding
    <3>5. Cardinality(Outstanding') = 0
      BY <3>4, FS_EmptySet
    <3> QED BY <1>2, <3>1, <3>2, <3>3, <3>5 DEF BatchInv, Remaining, Slots
  <2>3. batch' /\ ~Served' => UnservedInv'
    BY <1>2, <1>4 DEF ReceiveBatch, Served, UnservedInv
  <2>4. batch'
    BY <1>4 DEF ReceiveBatch
  <2> QED BY <1>1, <2>1, <2>2, <2>3, <2>4 DEF ServerInv
<1> QED BY <1>3, <1>4

\* Reading left and parts.
LEMMA LoadServer ==
    ASSUME ServerInv, LoopLoad \/ \E k \in Slots : WorkerLoad(k)
    PROVE  ServerInv'
<1>1. PICK a \in Actors : Load(a) /\ (a = Receiver => pc \in LoopPcs)
                          /\ (a \in Slots => worker[a] = "resp" /\ batch)
  <2>1. Receiver \notin Slots
    BY DEF Receiver, Slots
  <2> QED BY <2>1 DEF LoopLoad, WorkerLoad, LoopPcs, Actors
<1>2. ShapeInv'
  BY <1>1, LoadShape DEF ServerInv
<1>3. CopyInv'
  BY <1>1 DEF Load, ServerInv, ShapeInv, TypeOK, CopyInv, Actors
<1>4. ThreadInv' /\ (Served' <=> Served) /\ (BatchInv => BatchInv')
      /\ (UnservedInv => UnservedInv') /\ (SingleInv => SingleInv')
  BY <1>1 DEF Load, ServerInv, ThreadInv, Served, BatchInv, UnservedInv, SingleInv, PartInv,
     Remaining, Outstanding
<1>5. UNCHANGED <<batch, pc>>
  BY <1>1 DEF Load
<1> QED BY <1>2, <1>3, <1>4, <1>5 DEF ServerInv

\* What a step of the loop finds.
LEMMA LoopFacts ==
    ASSUME ServerInv, copy[Receiver] # None, pc \in LoopPcs
    PROVE  /\ ShapeInv /\ Served /\ BatchInv /\ TypeOK
           /\ next \in Slots /\ next \in 1 .. Len(msg) /\ Len(msg) \in Nat /\ DOMAIN msg = 1 .. Len(msg)
           /\ Len(msg) <= MaxParts /\ MaxParts \in Nat
           /\ copy[Receiver].left = left /\ copy[Receiver].parts = parts /\ left \in 0 .. Size - 1
           /\ \A k \in Slots : copy[k] = None /\ worker[k] # "resp"
           /\ worker[next] = "none" /\ next \notin parts /\ next \notin Outstanding
           /\ worker \in [Slots -> {"none", "open", "resp", "done", "dropped"}]
           /\ sent = << >>
           /\ Cardinality(Outstanding) <= next - 1 /\ Cardinality(Outstanding) \in Nat
<1>1. ShapeInv /\ TypeOK /\ Served /\ BatchInv /\ pc \notin {"idle", "end"}
  BY DEF ServerInv, ShapeInv, LoopInv, Served, LoopPcs
<1>2. /\ next \in Slots /\ next \in 1 .. Len(msg) /\ Len(msg) \in Nat /\ DOMAIN msg = 1 .. Len(msg)
      /\ Len(msg) <= MaxParts /\ MaxParts \in Nat
  BY <1>1, MsgFacts DEF ShapeInv, LoopInv, TypeOK
<1>3. /\ copy[Receiver].left = left /\ copy[Receiver].parts = parts /\ left \in 0 .. Size - 1
      /\ \A k \in Slots : copy[k] = None /\ worker[k] # "resp"
  BY <1>1 DEF ServerInv, CopyInv, ThreadInv, Actors, TypeOK
<1>4. worker[next] = "none" /\ next \notin parts /\ next \notin Outstanding /\ sent = << >>
  BY <1>1, <1>2 DEF BatchInv, Outstanding
<1>5. Outstanding \subseteq 1 .. next - 1
  BY <1>1, <1>2 DEF BatchInv, Outstanding, Slots
<1>6. Cardinality(Outstanding) <= next - 1 /\ Cardinality(Outstanding) \in Nat
  BY <1>2, <1>5, OutstandingFacts
<1> QED BY <1>1, <1>2, <1>3, <1>4, <1>6 DEF TypeOK

\* What follows for the rest of ServerInv once the batch is as it should be.
LEMMA LoopRest ==
    ASSUME ServerInv, ShapeInv', BatchInv', copy[Receiver] # None, pc \in LoopPcs,
           UNCHANGED <<msg, batch, handler>>, copy' = [copy EXCEPT ![Receiver] = None],
           \A k \in Slots : worker'[k] # "resp"
    PROVE  ServerInv'
<1>1. Served /\ \A a \in Actors : copy'[a] = None
  BY LoopFacts DEF Actors, TypeOK
<1>2. CopyInv' /\ ThreadInv'
  BY <1>1 DEF CopyInv, ThreadInv, Actors
<1> QED BY <1>1, <1>2 DEF ServerInv, Served

\* The loop goes on behind a part n that is done with: how that is counted.
LEMMA NextPartBatch ==
    ASSUME ServerInv, copy[Receiver] # None, pc \in LoopPcs, NextPart, msg' = msg,
           NEW n \in Nat, n \in Slots, n = next, PartInv(n)',
           left' = Len(msg) - n + Cardinality(Outstanding'),
           \A k \in Slots : k # n => worker'[k] = worker[k],
           \A k \in Slots : k # n => (k \in parts' <=> k \in parts),
           sent' # << >> => left' = 0 /\ sent' = <<parts'>>
    PROVE  BatchInv'
<1>1. BatchInv /\ n \in 1 .. Len(msg) /\ Len(msg) \in Nat
  BY LoopFacts
<1>2. next' = n + 1 /\ pc' = (IF n = Len(msg) THEN "end" ELSE "dec")
  BY DEF NextPart
<1>3. Cardinality(Outstanding') \in Nat
  <2>1. IsFiniteSet(Slots) /\ Outstanding' \in SUBSET Slots
    BY OneThreadAssumption, FS_Interval DEF Slots, Outstanding
  <2> QED BY <2>1, FS_Subset, FS_CardinalityType
<1>4. Remaining' = Len(msg) - n
  BY <1>1, <1>2 DEF Remaining
<1>5. left' = Remaining' + Cardinality(Outstanding')
  BY <1>4
<1>6. ASSUME NEW k \in Slots, k < next' PROVE PartInv(k)'
  <2>1. CASE k = n
    BY <2>1
  <2>2. CASE k # n
    <3>1. k < next /\ k \in Slots
      BY <1>1, <1>2, <1>6, <2>2 DEF Slots
    <3>2. PartInv(k)
      BY <1>1, <3>1 DEF BatchInv
    <3>3. worker'[k] = worker[k] /\ (k \in parts' <=> k \in parts)
      BY <2>2
    <3> QED BY <3>2, <3>3 DEF PartInv
  <2> QED BY <2>1, <2>2
<1>7. ASSUME NEW k \in Slots, ~(k < next') PROVE worker'[k] = "none" /\ k \notin parts'
  <2>1. k # n /\ ~(k < next)
    BY <1>1, <1>2, <1>7 DEF Slots
  <2> QED BY <1>1, <2>1 DEF BatchInv
<1>8. sent' # << >> => pc' = "end"
  BY <1>1, <1>2, <1>3
<1>9. pc' # "idle" /\ next' \in 1 .. Len(msg) + 1 /\ (pc' = "end" <=> next' = Len(msg) + 1)
  BY <1>1, <1>2
<1> QED BY <1>5, <1>6, <1>7, <1>8, <1>9 DEF BatchInv

\* batch->left--, for the part the loop takes.
LEMMA TakePartServer ==
    ASSUME ServerInv, TakePart
    PROVE  ServerInv'
<1>1. pc = "dec" /\ pc \in LoopPcs /\ copy[Receiver] # None /\ ShapeInv /\ ShapeInv'
  BY LoopShape DEF TakePart, LoopPcs, ServerInv
<1>2. /\ BatchInv /\ next \in Slots /\ next \in 1 .. Len(msg) /\ Len(msg) \in Nat /\ DOMAIN msg = 1 .. Len(msg)
      /\ copy[Receiver].left = left /\ left \in 0 .. Size - 1
      /\ worker[next] = "none" /\ next \notin parts /\ sent = << >>
      /\ Cardinality(Outstanding) \in Nat
      /\ \A k \in Slots : worker[k] # "resp"
  BY <1>1, LoopFacts
<1>3. left = Len(msg) - next + 1 + Cardinality(Outstanding) /\ left > 0
  BY <1>1, <1>2 DEF BatchInv, Remaining
<1>4. left' = left - 1
  BY <1>2, <1>3, DecInc DEF TakePart
<1>5. UNCHANGED <<msg, batch, handler, worker, parts, sent>> /\ Outstanding' = Outstanding
  BY DEF TakePart, Outstanding
<1>6. BatchInv'
  <2>1. CASE msg[next] = "notify" /\ NextPart
    <3>1. PICK n \in Nat : n = next /\ n \in Slots
      BY <1>2 DEF Slots
    <3>2. PartInv(n)'
      BY <1>2, <1>5, <2>1, <3>1 DEF PartInv
    <3>3. left' = Len(msg) - n + Cardinality(Outstanding')
      BY <1>2, <1>3, <1>4, <1>5, <3>1
    <3> QED BY <1>1, <1>2, <1>5, <2>1, <3>1, <3>2, <3>3, NextPartBatch
  <2>2. CASE pc' \in {"push", "inc"} /\ UNCHANGED next
    <3>1. left' = Remaining' + Cardinality(Outstanding')
      BY <1>2, <1>3, <1>4, <1>5, <2>2 DEF Remaining
    <3> QED BY <1>2, <1>5, <2>2, <3>1 DEF BatchInv, PartInv
  <2> QED BY <2>1, <2>2 DEF TakePart
<1>7. copy' = [copy EXCEPT ![Receiver] = None]
  BY DEF TakePart
<1> QED BY <1>1, <1>2, <1>5, <1>6, <1>7, LoopRest

\* The error of an invalid part.
LEMMA PushErrorServer ==
    ASSUME ServerInv, PushError
    PROVE  ServerInv'
<1>1. pc = "push" /\ pc \in LoopPcs /\ copy[Receiver] # None /\ ShapeInv /\ ShapeInv'
  BY LoopShape DEF PushError, LoopPcs, ServerInv
<1>2. PICK n \in Nat : n = next /\ n \in Slots
  BY <1>1, LoopFacts DEF Slots
<1>3. /\ BatchInv /\ copy[Receiver].parts = parts /\ sent = << >> /\ n \in DOMAIN msg
      /\ worker[n] = "none" /\ msg[n] \in {"bad", "blank"}
      /\ \A k \in Slots : worker[k] # "resp"
  BY <1>1, <1>2, LoopFacts DEF ShapeInv, LoopInv
<1>4. /\ UNCHANGED <<msg, batch, handler, worker, left, sent>> /\ parts' = parts \cup {n}
      /\ NextPart /\ copy' = [copy EXCEPT ![Receiver] = None] /\ Outstanding' = Outstanding
  BY <1>2, <1>3 DEF PushError, Outstanding
<1>5. left' = Len(msg) - n + Cardinality(Outstanding')
  BY <1>1, <1>2, <1>3, <1>4 DEF BatchInv, Remaining
<1>6. PartInv(n)'
  BY <1>3, <1>4 DEF PartInv
<1>7. BatchInv'
  BY <1>1, <1>2, <1>3, <1>4, <1>5, <1>6, NextPartBatch
<1> QED BY <1>1, <1>3, <1>4, <1>7, LoopRest

\* batch->left++ and the call of the handler.
LEMMA CallMethodServer ==
    ASSUME ServerInv, CallMethod
    PROVE  ServerInv'
<1>1. pc = "inc" /\ pc \in LoopPcs /\ copy[Receiver] # None /\ ShapeInv /\ ShapeInv'
  BY LoopShape DEF CallMethod, LoopPcs, ServerInv
<1>2. PICK n \in Nat : n = next /\ n \in Slots
  BY <1>1, LoopFacts DEF Slots
<1>3. /\ BatchInv /\ copy[Receiver].left = left /\ left \in 0 .. Size - 1
      /\ n \in 1 .. Len(msg) /\ Len(msg) \in Nat /\ Len(msg) <= MaxParts /\ MaxParts \in Nat
      /\ Cardinality(Outstanding) <= n - 1 /\ Cardinality(Outstanding) \in Nat
  BY <1>1, <1>2, LoopFacts
<1>4. /\ n \in DOMAIN msg /\ n \notin parts /\ n \notin Outstanding /\ worker[n] = "none"
      /\ sent = << >> /\ \A k \in Slots : worker[k] # "resp"
      /\ worker \in [Slots -> {"none", "open", "resp", "done", "dropped"}]
  BY <1>1, <1>2, LoopFacts
<1>5. left = Len(msg) - n + Cardinality(Outstanding)
  BY <1>1, <1>2, <1>3 DEF BatchInv, Remaining
<1>6. left' = left + 1
  <2>1. left < Size - 1
    BY <1>3, <1>5 DEF Size
  <2> QED BY <1>3, <2>1, DecInc DEF CallMethod
<1>7. /\ UNCHANGED <<msg, batch, handler, parts, sent>>
      /\ copy' = [copy EXCEPT ![Receiver] = None]
  BY DEF CallMethod
<1>8. CASE msg[next] = "sync" /\ pc' = "resp" /\ UNCHANGED <<next, worker>>
  <2>1. Outstanding' = Outstanding
    BY <1>8 DEF Outstanding
  <2>2. left' = Remaining' + Cardinality(Outstanding')
    BY <1>2, <1>3, <1>5, <1>6, <1>7, <1>8, <2>1 DEF Remaining
  <2>3. pc' # "idle" /\ next' \in 1 .. Len(msg) + 1 /\ (pc' = "end" <=> next' = Len(msg) + 1)
    BY <1>2, <1>3, <1>8
  <2>4. BatchInv'
    BY <1>3, <1>4, <1>7, <1>8, <2>2, <2>3 DEF BatchInv, PartInv
  <2> QED BY <1>1, <1>4, <1>7, <1>8, <2>4, LoopRest
<1>9. CASE msg[next] = "async" /\ worker' = [worker EXCEPT ![next] = "open"] /\ NextPart
  <2>1. /\ worker'[n] = "open" /\ \A k \in Slots : k # n => worker'[k] = worker[k]
    BY <1>2, <1>4, <1>9
  <2>2. Outstanding' = Outstanding \cup {n}
    BY <1>2, <2>1 DEF Outstanding
  <2>3. Cardinality(Outstanding') = Cardinality(Outstanding) + 1
    BY <1>2, <1>4, <2>2, OutstandingFacts
  <2>4. left' = Len(msg) - n + Cardinality(Outstanding')
    BY <1>3, <1>5, <1>6, <2>3
  <2>5. PartInv(n)'
    BY <1>2, <1>4, <1>7, <1>9, <2>1 DEF PartInv
  <2>6. BatchInv'
    BY <1>1, <1>2, <1>4, <1>7, <1>9, <2>1, <2>4, <2>5, NextPartBatch
  <2>7. \A k \in Slots : worker'[k] # "resp"
    BY <1>4, <2>1
  <2> QED BY <1>1, <1>7, <2>6, <2>7, LoopRest
<1> QED BY <1>8, <1>9 DEF CallMethod

\* A method has answered inside of Handle: left is zero only behind the last part,
\* with no other handler out.
LEMMA RespondInLoopServer ==
    ASSUME ServerInv, RespondInLoop
    PROVE  ServerInv'
<1>1. pc = "resp" /\ pc \in LoopPcs /\ copy[Receiver] # None /\ ShapeInv /\ ShapeInv'
  BY LoopShape DEF RespondInLoop, LoopPcs, ServerInv
<1>2. PICK n \in Nat : n = next /\ n \in Slots
  BY <1>1, LoopFacts DEF Slots
<1>3. /\ BatchInv /\ copy[Receiver].left = left /\ left \in 0 .. Size - 1
      /\ n \in 1 .. Len(msg) /\ Len(msg) \in Nat
      /\ Cardinality(Outstanding) \in Nat
  BY <1>1, <1>2, LoopFacts
<1>4. /\ n \in DOMAIN msg /\ worker[n] = "none" /\ msg[n] = "sync"
      /\ copy[Receiver].parts = parts /\ sent = << >> /\ \A k \in Slots : worker[k] # "resp"
  BY <1>1, <1>2, LoopFacts DEF ShapeInv, LoopInv
<1>5. left = Len(msg) - n + 1 + Cardinality(Outstanding) /\ left > 0
  BY <1>1, <1>2, <1>3 DEF BatchInv, Remaining
<1>6. left' = left - 1
  BY <1>3, <1>5, DecInc DEF RespondInLoop, AddBatchResp
<1>7. /\ UNCHANGED <<msg, batch, handler, worker>> /\ parts' = parts \cup {n}
      /\ NextPart /\ copy' = [copy EXCEPT ![Receiver] = None] /\ Outstanding' = Outstanding
      /\ sent' = sent \/ (left' = 0 /\ sent' = Append(sent, parts'))
  BY <1>2, <1>4 DEF RespondInLoop, AddBatchResp, Send, Outstanding
<1>8. left' = Len(msg) - n + Cardinality(Outstanding')
  BY <1>3, <1>5, <1>6, <1>7
<1>9. PartInv(n)'
  BY <1>4, <1>7 DEF PartInv
<1>10. sent' # << >> => left' = 0 /\ sent' = <<parts'>>
  BY <1>4, <1>7
<1>11. BatchInv'
  BY <1>1, <1>2, <1>7, <1>8, <1>9, <1>10, NextPartBatch
<1> QED BY <1>1, <1>4, <1>7, <1>11, LoopRest

\* The promise of part k is resolved: its completion runs, or is dropped.
LEMMA ResolveServer ==
    ASSUME ServerInv, OneThread, NEW k \in Slots, Resolve(k)
    PROVE  ServerInv'
<1>1. ShapeInv' /\ ShapeInv
  BY WorkerShape DEF Worker, ServerInv
<1>2. /\ worker[k] = "open" /\ pc \in {"idle", "end"} /\ \A l \in Slots : worker[l] # "resp"
      /\ worker' = [worker EXCEPT ![k] = IF life = "gone" THEN "dropped" ELSE "resp"]
      /\ UNCHANGED <<msg, batch, handler, next, pc, left, parts, copy, sent>>
      /\ worker \in [Slots -> {"none", "open", "resp", "done", "dropped"}]
  BY <1>1 DEF Resolve, ThreadFree, ShapeInv, TypeOK
<1>3. /\ worker'[k] \in {"dropped", "resp"}
      /\ \A l \in Slots : l # k => worker'[l] = worker[l]
  BY <1>2
<1>4. CopyInv' /\ ThreadInv'
  BY <1>2, <1>3 DEF ServerInv, CopyInv, ThreadInv, Actors
<1>5. Outstanding' = Outstanding
  BY <1>2, <1>3 DEF Outstanding
<1>6. BatchInv => BatchInv'
  BY <1>2, <1>3, <1>5 DEF BatchInv, PartInv, Remaining
<1>7. SingleInv => SingleInv'
  BY <1>2, <1>3 DEF SingleInv
<1>8. ~UnservedInv
  BY <1>2 DEF UnservedInv
<1> QED BY <1>1, <1>2, <1>4, <1>6, <1>7, <1>8 DEF ServerInv, Served

\* addBatchResp of a handler that answers later: left is zero when it was the last.
LEMMA RespondLaterServer ==
    ASSUME ServerInv, NEW k \in Slots, RespondLater(k)
    PROVE  ServerInv'
<1>1. ShapeInv' /\ ShapeInv
  BY WorkerShape DEF Worker, ServerInv
<1>2. /\ worker[k] = "resp" /\ copy[k] # None /\ batch /\ pc = "end"
      /\ copy[k].left = left /\ copy[k].parts = parts
      /\ \A a \in Actors : copy[a] # None => a = k
      /\ \A l \in Slots : l # k => worker[l] # "resp"
  BY <1>1 DEF RespondLater, ServerInv, CopyInv, ThreadInv, Actors, LoopPcs, ShapeInv, LoopInv
<1>3. Served /\ BatchInv /\ left \in 0 .. Size - 1
  BY <1>1, <1>2 DEF ServerInv, UnservedInv, ShapeInv, TypeOK
<1>4. k \in Outstanding /\ Cardinality(Outstanding) \in Nat /\ Cardinality(Outstanding) # 0
  BY <1>2, OutstandingFacts DEF Outstanding
<1>5. left = Cardinality(Outstanding) /\ left > 0
  BY <1>2, <1>3, <1>4 DEF BatchInv, Remaining
<1>6. left' = left - 1 /\ left' \in Nat
  BY <1>2, <1>3, <1>5, DecInc DEF RespondLater, AddBatchResp
<1>7. /\ UNCHANGED <<msg, batch, handler, next, pc>> /\ parts' = parts \cup {k}
      /\ copy' = [copy EXCEPT ![k] = None] /\ worker' = [worker EXCEPT ![k] = "done"]
      /\ sent' = sent \/ (left' = 0 /\ sent' = Append(sent, parts'))
  BY <1>2 DEF RespondLater, AddBatchResp, Send
<1>8. worker'[k] = "done" /\ \A l \in Slots : l # k => worker'[l] = worker[l]
  BY <1>1, <1>7 DEF ShapeInv, TypeOK
<1>9. Outstanding' = Outstanding \ {k}
  BY <1>8 DEF Outstanding
<1>10. left' = Remaining' + Cardinality(Outstanding')
  <2>1. Cardinality(Outstanding') = Cardinality(Outstanding) - 1
    BY <1>4, <1>9, OutstandingFacts
  <2>2. Remaining' = 0
    BY <1>2, <1>7 DEF Remaining
  <2> QED BY <1>4, <1>5, <1>6, <2>1, <2>2
<1>11. sent = << >>
  BY <1>3, <1>5 DEF BatchInv
<1>12. sent' # << >> => left' = 0 /\ pc' = "end" /\ sent' = <<parts'>>
  BY <1>2, <1>7, <1>11
<1>13. ASSUME NEW l \in Slots
       PROVE  IF l < next THEN PartInv(l)' ELSE worker'[l] = "none" /\ l \notin parts'
  <2>1. IF l < next THEN PartInv(l) ELSE worker[l] = "none" /\ l \notin parts
    BY <1>3 DEF BatchInv
  <2>2. CASE l = k
    <3>1. l < next /\ PartInv(k) /\ msg[k] = "async"
      BY <1>2, <2>1, <2>2 DEF PartInv
    <3> QED BY <1>7, <1>8, <2>2, <3>1 DEF PartInv
  <2>3. CASE l # k
    BY <1>7, <1>8, <2>1, <2>3 DEF PartInv
  <2> QED BY <2>2, <2>3
<1>14. BatchInv'
  BY <1>3, <1>7, <1>10, <1>12, <1>13 DEF BatchInv
<1>15. CopyInv' /\ ThreadInv'
  BY <1>1, <1>2, <1>7, <1>8 DEF CopyInv, ThreadInv, Actors, ShapeInv, TypeOK
<1>16. Served' /\ batch'
  BY <1>3, <1>7 DEF Served
<1> QED BY <1>1, <1>14, <1>15, <1>16 DEF ServerInv

\* The response to a request that came alone.
LEMMA SendResultServer ==
    ASSUME ServerInv, NEW k \in Slots, SendResult(k)
    PROVE  ServerInv'
<1>1. ShapeInv' /\ ShapeInv
  BY WorkerShape DEF Worker, ServerInv
<1>2. /\ worker[k] = "resp" /\ ~batch /\ pc # "idle" /\ SingleInv /\ k = 1 /\ sent = << >>
  BY <1>1 DEF SendResult, ServerInv, SingleInv, ShapeInv, LoopInv
<1>3. /\ UNCHANGED <<msg, batch, handler, next, pc, left, parts, copy>>
      /\ sent' \in {sent, Append(sent, {k})} /\ worker' = [worker EXCEPT ![k] = "done"]
      /\ worker'[k] = "done" /\ \A l \in Slots : l # k => worker'[l] = worker[l]
  BY <1>1 DEF SendResult, Send, ShapeInv, TypeOK
<1>4. Len(sent') <= 1
  <2>1. CASE sent' = sent
    BY <1>2, <2>1
  <2>2. CASE sent' = Append(sent, {k})
    BY <1>2, <2>2
  <2> QED BY <1>3, <2>1, <2>2
<1>5. SingleInv'
  BY <1>2, <1>3, <1>4 DEF SingleInv
<1>6. CopyInv' /\ ThreadInv'
  BY <1>2, <1>3 DEF ServerInv, CopyInv, ThreadInv
<1> QED BY <1>1, <1>2, <1>3, <1>5, <1>6 DEF ServerInv, Served

\* ~IAsyncTransport: no completion is running.
LEMMA DestroyServer ==
    ASSUME ServerInv, OneThread, Destroy \/ Stop
    PROVE  ServerInv'
<1>1. ShapeInv'
  BY WorkerShape DEF ServerInv
<1>2. UNCHANGED <<msg, batch, handler, next, pc, worker, left, parts, copy, sent>>
  BY DEF Destroy, Stop
<1> QED BY <1>1, <1>2 DEF ServerInv, CopyInv, ThreadInv, Served, BatchInv, PartInv,
           Remaining, Outstanding, UnservedInv, SingleInv

\* ServerInv is inductive if completions come on the transport's thread.
LEMMA NextServer == OneThread /\ ServerInv /\ [Next]_vars => ServerInv'
<1> SUFFICES ASSUME OneThread, ServerInv, [Next]_vars PROVE ServerInv'
  OBVIOUS
<1>1. CASE UNCHANGED vars
  BY <1>1 DEF vars, ServerInv, ShapeInv, TypeOK, LoopInv, LoopPcs, CopyInv, ThreadInv, Served, BatchInv,
     PartInv, Remaining, Outstanding, UnservedInv, SingleInv
<1>2. CASE Loop
  BY <1>2, LoadServer, TakePartServer, PushErrorServer, CallMethodServer, RespondInLoopServer DEF Loop
<1>3. ASSUME NEW k \in Slots, Worker(k) PROVE ServerInv'
  BY <1>3, LoadServer, ResolveServer, RespondLaterServer, SendResultServer DEF Worker
<1> QED BY <1>1, <1>2, <1>3, ReceiveServer, DestroyServer DEF Next

LEMMA ServerInvariant == OneThread /\ Spec => []ServerInv
<1> SUFFICES ASSUME OneThread PROVE Spec => []ServerInv
  OBVIOUS
<1>1. ServerInv /\ [Next]_vars => ServerInv'
  BY NextServer
<1> QED BY <1>1, InitServer, PTL DEF Spec

\* With completions on one thread (Server::GetExecutor), a message gets one response
\* message at most, however its answers and errors are mixed.
THEOREM ServerSendsOnce == OneThread /\ Spec => []SentOnce
<1>1. ASSUME ServerInv PROVE SentOnce
  <2>1. CASE batch
    <3>1. sent = << >> \/ sent = <<parts>>
      BY <1>1, <2>1 DEF ServerInv, BatchInv, UnservedInv
    <3>2. CASE sent = << >>
      BY <3>2 DEF SentOnce
    <3>3. CASE sent = <<parts>>
      BY <3>3 DEF SentOnce
    <3> QED BY <3>1, <3>2, <3>3
  <2>2. CASE ~batch
    BY <1>1, <2>2 DEF ServerInv, ShapeInv, LoopInv, SingleInv, SentOnce
  <2> QED BY <2>1, <2>2
<1> QED BY <1>1, ServerInvariant, PTL

\* With completions on one thread, the response message of a batch has the response
\* of every request and every invalid part: Batch::left does not reach zero too early.
THEOREM ServerSendsAll == OneThread /\ Spec => []SentComplete
<1>1. ASSUME ServerInv PROVE SentComplete
  <2> SUFFICES ASSUME sent # << >>, batch
               PROVE  sent[1] = {k \in DOMAIN msg : msg[k] # "notify"}
    BY DEF SentComplete
  <2>1. BatchInv
    BY <1>1 DEF ServerInv, UnservedInv
  <2>2. Remaining = 0 /\ left = 0 /\ sent = <<parts>> /\ pc = "end"
    BY <2>1 DEF BatchInv, Remaining
  <2>3. Outstanding = {}
    BY <2>1, <2>2, OutstandingFacts DEF BatchInv
  <2>4. /\ msg \in Messages \cup {<< >>} /\ parts \subseteq Slots
        /\ worker \in [Slots -> {"none", "open", "resp", "done", "dropped"}]
    BY <1>1 DEF ServerInv, ShapeInv, TypeOK
  <2>5. Len(msg) \in Nat /\ next = Len(msg) + 1
    BY <2>1, <2>2, <2>4, MsgFacts DEF BatchInv
  <2>6. \A k \in 1 .. Len(msg) : k \in Slots /\ k < next
    BY <2>4, <2>5, MsgFacts
  <2>7. \A k \in DOMAIN msg : k \in 1 .. Len(msg)
    BY <2>4, MsgFacts
  <2>8. ASSUME NEW k \in DOMAIN msg PROVE k \in parts <=> msg[k] # "notify"
    <3>1. PartInv(k) /\ k \in Slots
      BY <2>1, <2>6, <2>7 DEF BatchInv
    <3> QED BY <2>3, <2>4, <3>1 DEF PartInv, Outstanding
  <2>9. \A k \in parts : k \in DOMAIN msg
    BY <2>1, <2>4 DEF BatchInv, PartInv
  <2> QED BY <2>2, <2>8, <2>9
<1> QED BY <1>1, ServerInvariant, PTL
=============================================================================

---------------------------- MODULE FutureProofs ----------------------------
(***************************************************************************)
(* Theorems about module Future, for any number of threads and cells, any  *)
(* set of executors and any bounds.                                        *)
(*                                                                         *)
(* The argument: a continuation is a token.  It is published on its cell   *)
(* (notify # null), or carried by exactly one library call or executor job *)
(* that claimed it, or it has been delivered or dropped.  The right to     *)
(* publish is a token as well: a Future object, or a Then/Try that is      *)
(* about to return one.  IInv says so; the rest follows from it.           *)
(* What is owed to a chain is a third token, DutyInv.  That Future         *)
(* implements the abstract cell comes last.                                *)
(***************************************************************************)
EXTENDS Future, SequenceTheorems, TLAPS

\* At most one library call anywhere is in one of pcs and works on s.
Once(pcs, s) ==
    \A u, v \in Threads : \A i \in DOMAIN stack[u], k \in DOMAIN stack[v] :
        Working(u, i, pcs, s) /\ Working(v, k, pcs, s) => u = v /\ i = k

\* Calls that carry a claimed continuation which has not been called yet.
ClaimPcs == {"exec", "run"}
BreakPcs == {"broken", "break"}

Queued(s) == \E j \in jobs : j.cell = s

\* NoLostWakeup, for one cell.
WakeAt(s) ==
    result[s] # "pending" /\ notify[s] # "null" => Somewhere({"drive"}, s)

\* A published continuation is untouched and nobody else carries it.
PublishedAt(s) ==
    notify[s] # "null" =>
        /\ attached[s] = 1 /\ delivered[s] = 0 /\ dropped[s] = 0
        /\ ~Somewhere(ClaimPcs, s)
        /\ ~Queued(s)

\* A claimed continuation belongs to a fulfilled cell and is carried once.
ClaimedAt(s) ==
    /\ Somewhere(ClaimPcs, s) \/ Queued(s) =>
        /\ attached[s] = 1 /\ delivered[s] = 0 /\ dropped[s] = 0
        /\ result[s] # "pending"
    /\ Once(ClaimPcs, s)
    /\ Somewhere(ClaimPcs, s) => ~Queued(s)
    /\ Somewhere({"exec"}, s) \/ Queued(s) => exec[s] # "null"

\* The right to attach: a Future object, or Then/Try about to return one.
HandleAt(s) ==
    /\ handle[s] =>
        /\ attached[s] = 0
        /\ ~Somewhere({"give"}, s)
        /\ life[s] = "chained" \/ (life[s] = "promised" /\ taken[s])
    /\ Somewhere({"give"}, s) => attached[s] = 0 /\ life[s] = "chained"
    /\ Once({"give"}, s)
    /\ life[s] = "promised" /\ ~taken[s] => attached[s] = 0

\* What is known of a cell from how it came to be.
LifeAt(s) ==
    /\ life[s] # "promised" => promises[s] = 0
    /\ life[s] = "fresh" => attached[s] = 0 /\ chain[s] = Null /\ result[s] = "pending"
    /\ Somewhere(Pcs, s) \/ Queued(s) => life[s] \in {"promised", "chained"}
    /\ Somewhere(BreakPcs, s) \/ result[s] = "broken" => promises[s] = 0

\* A chain is a cell Then or Try made, and lives as long as its parent.
ChainAt(s) ==
    chain[s] # Null =>
        /\ life[chain[s]] \in {"chained", "dead"}
        /\ life[s] # "dead" => life[chain[s]] = "chained"

\* Nothing is delivered or dropped that was not attached.
HistoryAt(s) ==
    /\ attached[s] <= 1
    /\ delivered[s] + dropped[s] <= attached[s]
    /\ dropped[s] > 0 /\ exec[s] = "null" => result[s] = "pending" /\ life[s] = "dead"

CellInv(s) ==
    /\ WakeAt(s) /\ PublishedAt(s) /\ ClaimedAt(s) /\ HandleAt(s)
    /\ LifeAt(s) /\ ChainAt(s) /\ HistoryAt(s)

\* Jobs are told apart by their cell.
JobsInv == \A j, l \in jobs : j.cell = l.cell => j = l

IInv == TypeOK /\ JobsInv /\ \A s \in Cells : CellInv(s)

-----------------------------------------------------------------------------
\* How the two ways to change a stack change what is somewhere on it.

\* Some call of fs is in one of pcs and works on s.
Adds(fs, pcs, s) == \E k \in DOMAIN fs : fs[k].pc \in pcs /\ fs[k].cell = s

\* At most one call of fs is.
AddsOne(fs, pcs, s) ==
    \A k, l \in DOMAIN fs :
        fs[k].pc \in pcs /\ fs[k].cell = s /\ fs[l].pc \in pcs /\ fs[l].cell = s => k = l

TopIs(t, pcs, s) == Top(t).pc \in pcs /\ Top(t).cell = s

\* Call: what a push adds, and that it takes nothing away.
LEMMA CallStack ==
    ASSUME TypeOK, NEW t \in Threads, NEW fs \in Seq(Frame), Call(t, fs)
    PROVE  /\ stack' \in [Threads -> Seq(Frame)]
           /\ \A pcs : \A s \in Cells :
                /\ Somewhere(pcs, s)' <=> Somewhere(pcs, s) \/ Adds(fs, pcs, s)
                /\ Once(pcs, s) /\ ~Adds(fs, pcs, s) => Once(pcs, s)'
                /\ ~Somewhere(pcs, s) /\ AddsOne(fs, pcs, s) => Once(pcs, s)'
<1> DEFINE n == Len(stack[t])
<1>1. /\ stack \in [Threads -> Seq(Frame)]
      /\ stack' = [stack EXCEPT ![t] = stack[t] \o fs]
  BY DEF TypeOK, Call
<1>2. /\ stack[t] \in Seq(Frame) /\ n \in Nat /\ Len(fs) \in Nat
      /\ DOMAIN stack[t] = 1 .. n /\ DOMAIN fs = 1 .. Len(fs)
  BY <1>1
<1>3. stack'[t] = stack[t] \o fs /\ stack'[t] \in Seq(Frame)
  BY <1>1, <1>2
<1>4. \A u \in Threads : u # t => stack'[u] = stack[u]
  BY <1>1
<1>5. stack' \in [Threads -> Seq(Frame)]
  BY <1>1, <1>3
<1> HIDE DEF n
<1>6. DOMAIN stack'[t] = 1 .. n + Len(fs)
  BY <1>2, <1>3 DEF n
<1>7. \A i \in 1 .. n + Len(fs) : stack'[t][i] = IF i <= n THEN stack[t][i] ELSE fs[i - n]
  BY <1>2, <1>3 DEF n
<1>8. \A i \in DOMAIN stack'[t] :
        \/ i \in DOMAIN stack[t] /\ stack'[t][i] = stack[t][i]
        \/ i - n \in DOMAIN fs /\ stack'[t][i] = fs[i - n]
  BY <1>2, <1>6, <1>7
<1>9. \A i \in DOMAIN stack[t] : i \in DOMAIN stack'[t] /\ stack'[t][i] = stack[t][i]
  BY <1>2, <1>6, <1>7
<1>10. \A k \in DOMAIN fs : n + k \in DOMAIN stack'[t] /\ stack'[t][n + k] = fs[k]
  BY <1>2, <1>6, <1>7
<1>11. \A i, k \in DOMAIN stack'[t] : i - n = k - n => i = k
  BY <1>2, <1>6
<1>12. ASSUME NEW pcs, NEW s \in Cells
      PROVE  /\ Somewhere(pcs, s)' <=> Somewhere(pcs, s) \/ Adds(fs, pcs, s)
             /\ Once(pcs, s) /\ ~Adds(fs, pcs, s) => Once(pcs, s)'
             /\ ~Somewhere(pcs, s) /\ AddsOne(fs, pcs, s) => Once(pcs, s)'
  <2>1. ASSUME NEW u \in Threads, NEW i \in DOMAIN stack'[u], Working(u, i, pcs, s)'
        PROVE  \/ i \in DOMAIN stack[u] /\ Working(u, i, pcs, s)
               \/ /\ u = t /\ i - n \in DOMAIN fs
                  /\ fs[i - n].pc \in pcs /\ fs[i - n].cell = s
    <3>1. CASE u = t
      BY <2>1, <3>1, <1>8 DEF Working
    <3>2. CASE u # t
      BY <2>1, <3>2, <1>4 DEF Working
    <3> QED BY <3>1, <3>2
  <2>2. ASSUME Somewhere(pcs, s)' PROVE Somewhere(pcs, s) \/ Adds(fs, pcs, s)
    BY <2>1, <2>2 DEF Somewhere, Adds
  <2>3. ASSUME Somewhere(pcs, s) PROVE Somewhere(pcs, s)'
    BY <2>3, <1>4, <1>9 DEF Somewhere, Working
  <2>4. ASSUME Adds(fs, pcs, s) PROVE Somewhere(pcs, s)'
    BY <2>4, <1>10 DEF Somewhere, Working, Adds
  <2>5. ASSUME Once(pcs, s), ~Adds(fs, pcs, s) PROVE Once(pcs, s)'
    BY <2>1, <2>5 DEF Once, Adds
  <2>6. ASSUME ~Somewhere(pcs, s), AddsOne(fs, pcs, s) PROVE Once(pcs, s)'
    <3> SUFFICES ASSUME NEW u \in Threads, NEW v \in Threads,
                        NEW i \in DOMAIN stack'[u], NEW k \in DOMAIN stack'[v],
                        Working(u, i, pcs, s)', Working(v, k, pcs, s)'
                 PROVE  u = v /\ i = k
      BY DEF Once
    <3>1. u = t /\ i - n \in DOMAIN fs /\ fs[i - n].pc \in pcs /\ fs[i - n].cell = s
      BY <2>1, <2>6 DEF Somewhere
    <3>2. v = t /\ k - n \in DOMAIN fs /\ fs[k - n].pc \in pcs /\ fs[k - n].cell = s
      BY <2>1, <2>6 DEF Somewhere
    <3>3. i - n = k - n
      BY <2>6, <3>1, <3>2 DEF AddsOne
    <3> QED BY <3>1, <3>2, <3>3, <1>11
  <2> QED BY <2>2, <2>3, <2>4, <2>5, <2>6
<1> QED BY <1>5, <1>12

\* What concatenation of stacks contains.
LEMMA ConcatStack ==
    ASSUME NEW x \in Seq(Frame), NEW y \in Seq(Frame)
    PROVE  /\ DOMAIN (x \o y) = 1 .. Len(x) + Len(y)
           /\ \A i \in 1 .. Len(x) + Len(y) :
                (x \o y)[i] = IF i <= Len(x) THEN x[i] ELSE y[i - Len(x)]
OBVIOUS

\* Two calls one after the other.
LEMMA PairStack ==
    ASSUME NEW f \in Frame, NEW g \in Frame
    PROVE  <<f>> \o <<g>> = <<f, g>>
<1>1. <<f>> \o <<g>> \in Seq(Frame) /\ <<f, g>> \in Seq(Frame)
  OBVIOUS
<1>2. Len(<<f>> \o <<g>>) = 2 /\ Len(<<f, g>>) = 2
  OBVIOUS
<1>3. \A i \in 1 .. 2 : (<<f>> \o <<g>>)[i] = <<f, g>>[i]
  OBVIOUS
<1> QED BY <1>1, <1>2, <1>3, SeqEqual

\* Become: the top of the stack goes, fs comes.
LEMMA BecomeStack ==
    ASSUME TypeOK, NEW t \in Threads, NEW fs \in Seq(Frame),
           stack[t] # << >>, Become(t, fs)
    PROVE  /\ stack' \in [Threads -> Seq(Frame)]
           /\ \A pcs : \A s \in Cells :
                /\ Somewhere(pcs, s)' => Somewhere(pcs, s) \/ Adds(fs, pcs, s)
                /\ Adds(fs, pcs, s) => Somewhere(pcs, s)'
                /\ Somewhere(pcs, s) => Somewhere(pcs, s)' \/ TopIs(t, pcs, s)
                /\ TopIs(t, pcs, s) => Somewhere(pcs, s)
                /\ Once(pcs, s) /\ TopIs(t, pcs, s) /\ ~Adds(fs, pcs, s) => ~Somewhere(pcs, s)'
                /\ Once(pcs, s) /\ ~Adds(fs, pcs, s) => Once(pcs, s)'
                /\ /\ Once(pcs, s) /\ AddsOne(fs, pcs, s)
                   /\ TopIs(t, pcs, s) \/ ~Somewhere(pcs, s)
                   => Once(pcs, s)'
<1> DEFINE n == Len(stack[t]) - 1
<1>1. /\ stack \in [Threads -> Seq(Frame)]
      /\ stack' = [stack EXCEPT ![t] = SubSeq(stack[t], 1, n) \o fs]
  BY DEF TypeOK, Become, Below
<1>2. /\ stack[t] \in Seq(Frame) /\ n \in Nat /\ Len(fs) \in Nat
      /\ DOMAIN stack[t] = 1 .. n + 1 /\ DOMAIN fs = 1 .. Len(fs)
      /\ Top(t) = stack[t][n + 1]
  BY <1>1 DEF Top
<1> DEFINE low == SubSeq(stack[t], 1, n)
<1>3. low \in Seq(Frame) /\ Len(low) = n /\ \A i \in 1 .. n : low[i] = stack[t][i]
  BY <1>1, <1>2
<1>4. stack'[t] = low \o fs
  BY <1>1, <1>2
<1> HIDE DEF low
<1>5. \A u \in Threads : u # t => stack'[u] = stack[u]
  BY <1>1
<1>6. stack'[t] \in Seq(Frame)
  BY <1>3, <1>4
<1>7. stack' \in [Threads -> Seq(Frame)]
  BY <1>1, <1>6
<1> HIDE DEF n
<1>8. DOMAIN stack'[t] = 1 .. n + Len(fs)
  BY <1>3, <1>4, ConcatStack
<1>9. \A i \in 1 .. n + Len(fs) : stack'[t][i] = IF i <= n THEN low[i] ELSE fs[i - n]
  BY <1>3, <1>4, ConcatStack
<1>10. \A i \in DOMAIN stack'[t] :
        \/ i \in DOMAIN stack[t] /\ i # n + 1 /\ stack'[t][i] = stack[t][i]
        \/ i - n \in DOMAIN fs /\ stack'[t][i] = fs[i - n]
  BY <1>2, <1>3, <1>8, <1>9
<1>11. \A i \in DOMAIN stack[t] : i # n + 1 => i \in DOMAIN stack'[t] /\ stack'[t][i] = stack[t][i]
  BY <1>2, <1>3, <1>8, <1>9
<1>12. \A k \in DOMAIN fs : n + k \in DOMAIN stack'[t] /\ stack'[t][n + k] = fs[k]
  BY <1>2, <1>3, <1>8, <1>9
<1>13. \A i, k \in DOMAIN stack'[t] : i - n = k - n => i = k
  BY <1>2, <1>8
<1>14. n + 1 \in DOMAIN stack[t]
  BY <1>2
<1>15. ASSUME NEW pcs, NEW s \in Cells
      PROVE  /\ Somewhere(pcs, s)' => Somewhere(pcs, s) \/ Adds(fs, pcs, s)
             /\ Adds(fs, pcs, s) => Somewhere(pcs, s)'
             /\ Somewhere(pcs, s) => Somewhere(pcs, s)' \/ TopIs(t, pcs, s)
             /\ TopIs(t, pcs, s) => Somewhere(pcs, s)
             /\ Once(pcs, s) /\ TopIs(t, pcs, s) /\ ~Adds(fs, pcs, s) => ~Somewhere(pcs, s)'
             /\ Once(pcs, s) /\ ~Adds(fs, pcs, s) => Once(pcs, s)'
             /\ /\ Once(pcs, s) /\ AddsOne(fs, pcs, s)
                /\ TopIs(t, pcs, s) \/ ~Somewhere(pcs, s)
                => Once(pcs, s)'
  <2>1. ASSUME NEW u \in Threads, NEW i \in DOMAIN stack'[u], Working(u, i, pcs, s)'
        PROVE  \/ i \in DOMAIN stack[u] /\ Working(u, i, pcs, s) /\ ~(u = t /\ i = n + 1)
               \/ /\ u = t /\ i - n \in DOMAIN fs
                  /\ fs[i - n].pc \in pcs /\ fs[i - n].cell = s
    <3>1. CASE u = t
      BY <2>1, <3>1, <1>10 DEF Working
    <3>2. CASE u # t
      BY <2>1, <3>2, <1>5 DEF Working
    <3> QED BY <3>1, <3>2
  <2>2. ASSUME Somewhere(pcs, s)' PROVE Somewhere(pcs, s) \/ Adds(fs, pcs, s)
    BY <2>1, <2>2 DEF Somewhere, Adds
  <2>3. ASSUME Adds(fs, pcs, s) PROVE Somewhere(pcs, s)'
    BY <2>3, <1>12 DEF Somewhere, Working, Adds
  <2>4. TopIs(t, pcs, s) <=> Working(t, n + 1, pcs, s)
    BY <1>2 DEF Working, TopIs
  <2>5. ASSUME Somewhere(pcs, s) PROVE Somewhere(pcs, s)' \/ TopIs(t, pcs, s)
    <3>1. PICK u \in Threads : \E i \in DOMAIN stack[u] : Working(u, i, pcs, s)
      BY <2>5 DEF Somewhere
    <3>2. PICK i \in DOMAIN stack[u] : Working(u, i, pcs, s)
      BY <3>1
    <3>3. CASE u = t /\ i = n + 1
      BY <2>4, <3>2, <3>3
    <3>4. CASE u = t /\ i # n + 1
      BY <3>2, <3>4, <1>11 DEF Somewhere, Working
    <3>5. CASE u # t
      BY <3>2, <3>5, <1>5 DEF Somewhere, Working
    <3> QED BY <3>3, <3>4, <3>5
  <2>6. ASSUME TopIs(t, pcs, s) PROVE Somewhere(pcs, s)
    BY <2>4, <2>6, <1>14 DEF Somewhere
  <2>7. ASSUME Once(pcs, s), TopIs(t, pcs, s),
               NEW u \in Threads, NEW i \in DOMAIN stack'[u], Working(u, i, pcs, s)'
        PROVE  u = t /\ i - n \in DOMAIN fs /\ fs[i - n].pc \in pcs /\ fs[i - n].cell = s
    BY <2>1, <2>4, <2>7, <1>14 DEF Once
  <2>8. ASSUME Once(pcs, s), TopIs(t, pcs, s), ~Adds(fs, pcs, s) PROVE ~Somewhere(pcs, s)'
    BY <2>7, <2>8 DEF Somewhere, Adds
  <2>9. ASSUME Once(pcs, s), ~Adds(fs, pcs, s) PROVE Once(pcs, s)'
    BY <2>1, <2>9 DEF Once, Adds
  <2>10. ASSUME Once(pcs, s), AddsOne(fs, pcs, s), TopIs(t, pcs, s) \/ ~Somewhere(pcs, s)
        PROVE  Once(pcs, s)'
    <3> SUFFICES ASSUME NEW u \in Threads, NEW v \in Threads,
                        NEW i \in DOMAIN stack'[u], NEW k \in DOMAIN stack'[v],
                        Working(u, i, pcs, s)', Working(v, k, pcs, s)'
                 PROVE  u = v /\ i = k
      BY DEF Once
    <3>1. u = t /\ i - n \in DOMAIN fs /\ fs[i - n].pc \in pcs /\ fs[i - n].cell = s
      BY <2>1, <2>7, <2>10 DEF Somewhere
    <3>2. v = t /\ k - n \in DOMAIN fs /\ fs[k - n].pc \in pcs /\ fs[k - n].cell = s
      BY <2>1, <2>7, <2>10 DEF Somewhere
    <3>3. i - n = k - n
      BY <2>10, <3>1, <3>2 DEF AddsOne
    <3> QED BY <3>1, <3>2, <3>3, <1>13
  <2> QED BY <2>2, <2>3, <2>5, <2>6, <2>8, <2>9, <2>10
<1> QED BY <1>7, <1>15
-----------------------------------------------------------------------------
\* The shapes in which the actions use Call and Become.

\* A step that leaves the stacks alone moves no call.
LEMMA SameStack ==
    ASSUME stack' = stack
    PROVE  \A pcs : \A s \in Cells :
               (Somewhere(pcs, s)' <=> Somewhere(pcs, s)) /\ (Once(pcs, s) => Once(pcs, s)')
BY DEF Somewhere, Once, Working

\* Membership in the named sets of positions, which proofs leave unexpanded.
LEMMA PcMembers ==
    /\ "exec" \in ClaimPcs /\ "run" \in ClaimPcs
    /\ \A pc \in Pcs : pc \in ClaimPcs => pc = "exec" \/ pc = "run"
    /\ "broken" \in BreakPcs /\ "break" \in BreakPcs
    /\ \A pc \in Pcs : pc \in BreakPcs => pc = "broken" \/ pc = "break"
    /\ "drive" \in Pcs /\ "exec" \in Pcs /\ "run" \in Pcs /\ "fn" \in Pcs
    /\ "pass" \in Pcs /\ "broken" \in Pcs /\ "break" \in Pcs /\ "give" \in Pcs
BY DEF ClaimPcs, BreakPcs, Pcs, CarryPcs, PlainPcs

\* Wider sets of positions contain more calls.
LEMMA WiderPcs ==
    \A s \in Cells :
        /\ Somewhere({"give"}, s) \/ Somewhere({"drive"}, s) => Somewhere(Pcs, s)
        /\ Somewhere(ClaimPcs, s) \/ Somewhere(BreakPcs, s) => Somewhere(Pcs, s)
        /\ Somewhere({"exec"}, s) => Somewhere(ClaimPcs, s)
BY DEF Somewhere, Working, Pcs, CarryPcs, PlainPcs, ClaimPcs, BreakPcs

\* A step that leaves the executors' queues alone moves no job.
LEMMA SameJobs ==
    ASSUME jobs' = jobs
    PROVE  \A s \in Cells : Queued(s)' <=> Queued(s)
BY DEF Queued

\* An empty push adds no call.
LEMMA AddsNothing ==
    ASSUME NEW pcs, NEW s \in Cells
    PROVE  ~Adds(<< >>, pcs, s)
BY DEF Adds

\* A push of one call adds just that.
LEMMA AddsSingle ==
    ASSUME NEW f \in Frame, NEW pcs, NEW s \in Cells
    PROVE  /\ Adds(<<f>>, pcs, s) <=> f.pc \in pcs /\ f.cell = s
           /\ AddsOne(<<f>>, pcs, s)
<1>1. DOMAIN <<f>> = {1} /\ <<f>>[1] = f
  OBVIOUS
<1> QED BY <1>1 DEF Adds, AddsOne

\* A push of two calls adds just those.
LEMMA AddsPair ==
    ASSUME NEW f \in Frame, NEW g \in Frame, NEW pcs, NEW s \in Cells
    PROVE  /\ Adds(<<f, g>>, pcs, s) <=>
                \/ f.pc \in pcs /\ f.cell = s
                \/ g.pc \in pcs /\ g.cell = s
           /\ f.pc \notin pcs \/ g.pc \notin pcs => AddsOne(<<f, g>>, pcs, s)
<1>1. DOMAIN <<f, g>> = {1, 2} /\ <<f, g>>[1] = f /\ <<f, g>>[2] = g
  OBVIOUS
<1> QED BY <1>1 DEF Adds, AddsOne

\* Resolve, DropPromise, AtLast and RunJob enter one call.
LEMMA CallOne ==
    ASSUME TypeOK, NEW t \in Threads, NEW f \in Frame, Call(t, <<f>>)
    PROVE  /\ stack' \in [Threads -> Seq(Frame)]
           /\ \A pcs : \A s \in Cells :
                /\ Somewhere(pcs, s)' <=> Somewhere(pcs, s) \/ (f.pc \in pcs /\ f.cell = s)
                /\ Once(pcs, s) /\ ~(f.pc \in pcs /\ f.cell = s /\ Somewhere(pcs, s)) => Once(pcs, s)'
<1>1. <<f>> \in Seq(Frame)
  OBVIOUS
<1> QED BY <1>1, CallStack, AddsSingle

\* Then enters two calls of different kinds.
LEMMA CallTwo ==
    ASSUME TypeOK, NEW t \in Threads, NEW f \in Frame, NEW g \in Frame,
           Call(t, <<f, g>>), f.pc # g.pc
    PROVE  /\ stack' \in [Threads -> Seq(Frame)]
           /\ \A pcs : \A s \in Cells :
                Somewhere(pcs, s)' <=> \/ Somewhere(pcs, s)
                                       \/ f.pc \in pcs /\ f.cell = s
                                       \/ g.pc \in pcs /\ g.cell = s
           /\ \A pcs : \A s \in Cells :
                /\ Once(pcs, s) /\ f.pc \notin pcs /\ g.pc \notin pcs => Once(pcs, s)'
                /\ /\ Once(pcs, s) /\ (f.pc \notin pcs \/ g.pc \notin pcs)
                   /\ f.cell = s \/ g.cell = s => ~Somewhere(pcs, s)
                   => Once(pcs, s)'
<1>1. <<f, g>> \in Seq(Frame)
  OBVIOUS
<1>2. stack' \in [Threads -> Seq(Frame)]
  BY <1>1, CallStack
<1>3. \A pcs : \A s \in Cells :
        Adds(<<f, g>>, pcs, s) <=> \/ f.pc \in pcs /\ f.cell = s
                                   \/ g.pc \in pcs /\ g.cell = s
  BY AddsPair
<1>4. \A pcs : \A s \in Cells :
        f.pc \notin pcs \/ g.pc \notin pcs => AddsOne(<<f, g>>, pcs, s)
  BY AddsPair
<1>5. ASSUME NEW pcs, NEW s \in Cells
      PROVE  /\ Somewhere(pcs, s)' <=> Somewhere(pcs, s) \/ Adds(<<f, g>>, pcs, s)
             /\ Once(pcs, s) /\ ~Adds(<<f, g>>, pcs, s) => Once(pcs, s)'
             /\ ~Somewhere(pcs, s) /\ AddsOne(<<f, g>>, pcs, s) => Once(pcs, s)'
  BY <1>1, CallStack
<1> QED BY <1>2, <1>3, <1>4, <1>5

\* A library call returns.
LEMMA Pop ==
    ASSUME TypeOK, NEW t \in Threads, stack[t] # << >>, Become(t, << >>)
    PROVE  /\ stack' \in [Threads -> Seq(Frame)]
           /\ \A pcs : \A s \in Cells :
                /\ Somewhere(pcs, s)' => Somewhere(pcs, s)
                /\ Somewhere(pcs, s) => Somewhere(pcs, s)' \/ TopIs(t, pcs, s)
                /\ TopIs(t, pcs, s) => Somewhere(pcs, s)
                /\ Once(pcs, s) => Once(pcs, s)'
                /\ Once(pcs, s) /\ TopIs(t, pcs, s) => ~Somewhere(pcs, s)'
<1>1. << >> \in Seq(Frame)
  OBVIOUS
<1> QED BY <1>1, BecomeStack, AddsNothing

\* A library call goes on to its next position.
LEMMA BecomeOne ==
    ASSUME TypeOK, NEW t \in Threads, NEW f \in Frame,
           stack[t] # << >>, Become(t, <<f>>)
    PROVE  /\ stack' \in [Threads -> Seq(Frame)]
           /\ \A pcs : \A s \in Cells :
                /\ Somewhere(pcs, s)' => Somewhere(pcs, s) \/ (f.pc \in pcs /\ f.cell = s)
                /\ f.pc \in pcs /\ f.cell = s => Somewhere(pcs, s)'
                /\ Somewhere(pcs, s) => Somewhere(pcs, s)' \/ TopIs(t, pcs, s)
                /\ TopIs(t, pcs, s) => Somewhere(pcs, s)
                /\ Once(pcs, s) /\ ~(f.pc \in pcs /\ f.cell = s) => Once(pcs, s)'
                /\ Once(pcs, s) /\ (TopIs(t, pcs, s) \/ ~Somewhere(pcs, s)) => Once(pcs, s)'
                /\ Once(pcs, s) /\ TopIs(t, pcs, s) /\ ~(f.pc \in pcs /\ f.cell = s)
                   => ~Somewhere(pcs, s)'
<1>1. <<f>> \in Seq(Frame)
  OBVIOUS
<1> QED BY <1>1, BecomeStack, AddsSingle

\* setResult with a returned future leaves two drivers behind.
LEMMA BecomeTwo ==
    ASSUME TypeOK, NEW t \in Threads, NEW f \in Frame, NEW g \in Frame,
           stack[t] # << >>, Become(t, <<f, g>>), f.pc = "drive", g.pc = "drive"
    PROVE  /\ stack' \in [Threads -> Seq(Frame)]
           /\ \A pcs : \A s \in Cells :
                /\ Somewhere(pcs, s)' =>
                    Somewhere(pcs, s) \/ ("drive" \in pcs /\ (f.cell = s \/ g.cell = s))
                /\ "drive" \in pcs /\ (f.cell = s \/ g.cell = s) => Somewhere(pcs, s)'
                /\ Somewhere(pcs, s) => Somewhere(pcs, s)' \/ TopIs(t, pcs, s)
                /\ TopIs(t, pcs, s) => Somewhere(pcs, s)
                /\ Once(pcs, s) /\ "drive" \notin pcs => Once(pcs, s)'
<1>1. <<f, g>> \in Seq(Frame)
  OBVIOUS
<1>2. \A pcs : \A s \in Cells :
        Adds(<<f, g>>, pcs, s) <=> "drive" \in pcs /\ (f.cell = s \/ g.cell = s)
  BY AddsPair
<1> QED BY <1>1, <1>2, BecomeStack

-----------------------------------------------------------------------------
\* Small facts the action lemmas share.

\* The call on top of a stack is a call.
LEMMA TopFrame ==
    ASSUME TypeOK, NEW t \in Threads, stack[t] # << >>
    PROVE  /\ Top(t) \in Frame /\ Top(t).cell \in Cells
           /\ Top(t).pc \in Pcs /\ (Top(t).pc \in CarryPcs => Top(t).notif \in Kinds)
<1>1. stack[t] \in Seq(Frame) /\ Len(stack[t]) \in 1 .. Len(stack[t])
  BY DEF TypeOK
<1>2. Top(t) \in Frame
  BY <1>1 DEF Top
<1> QED BY <1>2 DEF Frame, Pcs, CarryPcs, PlainPcs

\* A call that carries nothing is a call.
LEMMA PlainFrame ==
    ASSUME NEW pc \in PlainPcs, NEW s \in Cells
    PROVE  /\ Plain(pc, s) \in Frame
           /\ Plain(pc, s).pc = pc /\ Plain(pc, s).cell = s
BY DEF Plain, Frame

\* continueChain at its head is a call.
LEMMA DriveFrame ==
    ASSUME NEW s \in Cells
    PROVE  Drive(s) \in Frame /\ Drive(s).pc = "drive" /\ Drive(s).cell = s
BY PlainFrame DEF Drive, PlainPcs

\* Fulfilling keeps results in their type and changes a pending one only.
LEMMA FulfilResult ==
    ASSUME TypeOK, NEW s, NEW r \in Results, Fulfil(s, r)
    PROVE  /\ result' \in [Cells -> Results]
           /\ \A q \in Cells :
                \/ result'[q] = result[q]
                \/ q = s /\ result[q] = "pending" /\ result'[q] = r
           /\ s \in Cells /\ r # "pending" => result'[s] # "pending"
BY DEF TypeOK, Fulfil

\* What the types say of one cell.
LEMMA CellTypes ==
    ASSUME TypeOK, NEW q \in Cells
    PROVE  /\ attached[q] \in Nat /\ delivered[q] \in Nat /\ dropped[q] \in Nat
           /\ promises[q] \in Nat /\ handle[q] \in BOOLEAN /\ taken[q] \in BOOLEAN
           /\ chain[q] \in Cells \cup {Null}
           /\ life[q] \in {"fresh", "promised", "chained", "dead"}
BY DEF TypeOK

-----------------------------------------------------------------------------
\* Every action preserves the inductive invariant.

\* Before any promise is made no cell has a continuation, a call or a job.
LEMMA InitIInv == Init => IInv
<1> SUFFICES ASSUME Init PROVE IInv
  OBVIOUS
<1>1. \A pcs : \A s \in Cells : ~Somewhere(pcs, s) /\ Once(pcs, s)
  BY DEF Init, Somewhere, Once
<1>2. TypeOK
  <2>1. << >> \in Seq(Frame)
    OBVIOUS
  <2> HIDE DEF Frame
  <2> QED BY <2>1 DEF Init, TypeOK, Results, Kinds, UserKinds
<1>3. \A s \in Cells : ~Queued(s)
  BY DEF Init, Queued
<1>4. ASSUME NEW s \in Cells PROVE CellInv(s)
  BY <1>1, <1>3 DEF Init, CellInv, WakeAt, PublishedAt, ClaimedAt, HandleAt, LifeAt, ChainAt, HistoryAt
<1> QED BY <1>2, <1>4 DEF Init, IInv, JobsInv

\* Promise(): the new cell has one promise and nothing attached.
LEMMA NewPromiseIInv ==
    ASSUME IInv, NEW t \in Threads, NEW s \in Cells, NewPromise(t, s)
    PROVE  IInv'
<1>1. \A pcs : \A q \in Cells :
        (Somewhere(pcs, q)' <=> Somewhere(pcs, q)) /\ (Once(pcs, q) => Once(pcs, q)')
  BY SameStack DEF NewPromise
<1>2. \A q \in Cells : Queued(q)' <=> Queued(q)
  BY SameJobs DEF NewPromise, history
<1>g. life[s] = "fresh"
  BY DEF IInv, TypeOK, NewPromise, history
<1>3. TypeOK' /\ JobsInv'
  <2>1. TypeOK'
    BY <1>1 DEF IInv, TypeOK, NewPromise, history
  <2>2. JobsInv'
    BY DEF IInv, JobsInv, NewPromise, history
  <2> QED BY <2>1, <2>2
<1>4. SUFFICES ASSUME NEW q \in Cells PROVE CellInv(q)'
  BY <1>3 DEF IInv
<1>4a. \A x \in Cells : life'[x] = IF x = s THEN "promised" ELSE life[x]
  BY DEF IInv, TypeOK, NewPromise
<1>5. CellInv(q) /\ CellInv(s)
  BY DEF IInv
<1>6. /\ promises'[q] = IF q = s THEN 1 ELSE promises[q]
      /\ life'[q] = IF q = s THEN "promised" ELSE life[q]
      /\ result' = result /\ notify' = notify /\ chain' = chain /\ exec' = exec /\ taken' = taken /\ handle' = handle
      /\ attached' = attached /\ delivered' = delivered /\ dropped' = dropped
  BY DEF IInv, TypeOK, NewPromise, history
<1>7. \A pcs : (Somewhere(pcs, q)' <=> Somewhere(pcs, q)) /\ (Once(pcs, q) => Once(pcs, q)')
  BY <1>1
<1>8. WakeAt(q)'
  BY <1>2, <1>5, <1>6, <1>7, CellTypes, <1>g DEF IInv, CellInv, WakeAt
<1>9. PublishedAt(q)'
  BY <1>2, <1>5, <1>6, <1>7, CellTypes, <1>g DEF IInv, CellInv, PublishedAt, ClaimedAt, HandleAt
<1>10. ClaimedAt(q)'
  BY <1>2, <1>5, <1>6, <1>7, CellTypes, <1>g DEF IInv, CellInv, ClaimedAt, PublishedAt, HistoryAt
<1>11. HandleAt(q)'
  BY <1>2, <1>5, <1>6, <1>7, CellTypes, <1>g, WiderPcs DEF IInv, CellInv, HandleAt, LifeAt
<1>12. LifeAt(q)'
  BY <1>2, <1>5, <1>6, <1>7, CellTypes, <1>g, WiderPcs DEF IInv, CellInv, LifeAt, HandleAt
<1>13. ChainAt(q)'
  BY <1>2, <1>5, <1>6, <1>7, CellTypes, <1>g, NullAssumption, <1>4a DEF IInv, CellInv, ChainAt, LifeAt
<1>14. HistoryAt(q)'
  BY <1>2, <1>5, <1>6, <1>7, CellTypes, <1>g DEF IInv, CellInv, HistoryAt, PublishedAt, ClaimedAt, LifeAt
<1> QED BY <1>8, <1>9, <1>10, <1>11, <1>12, <1>13, <1>14 DEF CellInv

\* SharedPromise's copy touches the count of promises only.
LEMMA CopyPromiseIInv ==
    ASSUME IInv, NEW t \in Threads, NEW s \in Cells, CopyPromise(t, s)
    PROVE  IInv'
<1>1. \A pcs : \A q \in Cells :
        (Somewhere(pcs, q)' <=> Somewhere(pcs, q)) /\ (Once(pcs, q) => Once(pcs, q)')
  BY SameStack DEF CopyPromise
<1>2. \A q \in Cells : Queued(q)' <=> Queued(q)
  BY SameJobs DEF CopyPromise, history
<1>g. promises[s] > 0
  BY DEF IInv, TypeOK, CopyPromise, history
<1>3. TypeOK' /\ JobsInv'
  <2>1. TypeOK'
    BY <1>1 DEF IInv, TypeOK, CopyPromise, history
  <2>2. JobsInv'
    BY DEF IInv, JobsInv, CopyPromise, history
  <2> QED BY <2>1, <2>2
<1>4. SUFFICES ASSUME NEW q \in Cells PROVE CellInv(q)'
  BY <1>3 DEF IInv
<1>5. CellInv(q) /\ CellInv(s)
  BY DEF IInv
<1>6. /\ promises'[q] = IF q = s THEN promises[s] + 1 ELSE promises[q]
      /\ result' = result /\ notify' = notify /\ chain' = chain /\ exec' = exec /\ taken' = taken /\ handle' = handle
      /\ life' = life /\ attached' = attached /\ delivered' = delivered /\ dropped' = dropped
  BY DEF IInv, TypeOK, CopyPromise, history
<1>7. \A pcs : (Somewhere(pcs, q)' <=> Somewhere(pcs, q)) /\ (Once(pcs, q) => Once(pcs, q)')
  BY <1>1
<1>8. WakeAt(q)'
  BY <1>2, <1>5, <1>6, <1>7, CellTypes, <1>g DEF IInv, CellInv, WakeAt
<1>9. PublishedAt(q)'
  BY <1>2, <1>5, <1>6, <1>7, CellTypes, <1>g DEF IInv, CellInv, PublishedAt, ClaimedAt, HandleAt
<1>10. ClaimedAt(q)'
  BY <1>2, <1>5, <1>6, <1>7, CellTypes, <1>g DEF IInv, CellInv, ClaimedAt, PublishedAt, HistoryAt
<1>11. HandleAt(q)'
  BY <1>2, <1>5, <1>6, <1>7, CellTypes, <1>g DEF IInv, CellInv, HandleAt, LifeAt
<1>12. LifeAt(q)'
  BY <1>2, <1>5, <1>6, <1>7, CellTypes, <1>g DEF IInv, CellInv, LifeAt, HandleAt
<1>13. ChainAt(q)'
  BY <1>2, <1>5, <1>6, <1>7, CellTypes, <1>g DEF IInv, CellInv, ChainAt, LifeAt
<1>14. HistoryAt(q)'
  BY <1>2, <1>5, <1>6, <1>7, CellTypes, <1>g DEF IInv, CellInv, HistoryAt, PublishedAt, ClaimedAt, LifeAt
<1> QED BY <1>8, <1>9, <1>10, <1>11, <1>12, <1>13, <1>14 DEF CellInv

\* GetFuture: future_taken makes the right to attach unique.
LEMMA GetFutureIInv ==
    ASSUME IInv, NEW t \in Threads, NEW s \in Cells, GetFuture(t, s)
    PROVE  IInv'
<1>1. \A pcs : \A q \in Cells :
        (Somewhere(pcs, q)' <=> Somewhere(pcs, q)) /\ (Once(pcs, q) => Once(pcs, q)')
  BY SameStack DEF GetFuture
<1>2. \A q \in Cells : Queued(q)' <=> Queued(q)
  BY SameJobs DEF GetFuture, history
<1>g. promises[s] > 0 /\ ~taken[s]
  BY DEF IInv, TypeOK, GetFuture, history
<1>3. TypeOK' /\ JobsInv'
  <2>1. TypeOK'
    BY <1>1 DEF IInv, TypeOK, GetFuture, history
  <2>2. JobsInv'
    BY DEF IInv, JobsInv, GetFuture, history
  <2> QED BY <2>1, <2>2
<1>4. SUFFICES ASSUME NEW q \in Cells PROVE CellInv(q)'
  BY <1>3 DEF IInv
<1>5. CellInv(q) /\ CellInv(s)
  BY DEF IInv
<1>6. /\ taken'[q] = IF q = s THEN TRUE ELSE taken[q]
      /\ handle'[q] = IF q = s THEN TRUE ELSE handle[q]
      /\ result' = result /\ notify' = notify /\ chain' = chain /\ exec' = exec /\ promises' = promises /\ life' = life
      /\ attached' = attached /\ delivered' = delivered /\ dropped' = dropped
  BY DEF IInv, TypeOK, GetFuture, history
<1>7. \A pcs : (Somewhere(pcs, q)' <=> Somewhere(pcs, q)) /\ (Once(pcs, q) => Once(pcs, q)')
  BY <1>1
<1>8. WakeAt(q)'
  BY <1>2, <1>5, <1>6, <1>7, CellTypes, <1>g DEF IInv, CellInv, WakeAt
<1>9. PublishedAt(q)'
  BY <1>2, <1>5, <1>6, <1>7, CellTypes, <1>g DEF IInv, CellInv, PublishedAt, ClaimedAt, HandleAt
<1>10. ClaimedAt(q)'
  BY <1>2, <1>5, <1>6, <1>7, CellTypes, <1>g DEF IInv, CellInv, ClaimedAt, PublishedAt, HistoryAt
<1>11. HandleAt(q)'
  BY <1>2, <1>5, <1>6, <1>7, CellTypes, <1>g DEF IInv, CellInv, HandleAt, LifeAt
<1>12. LifeAt(q)'
  BY <1>2, <1>5, <1>6, <1>7, CellTypes, <1>g DEF IInv, CellInv, LifeAt, HandleAt
<1>13. ChainAt(q)'
  BY <1>2, <1>5, <1>6, <1>7, CellTypes, <1>g DEF IInv, CellInv, ChainAt, LifeAt
<1>14. HistoryAt(q)'
  BY <1>2, <1>5, <1>6, <1>7, CellTypes, <1>g DEF IInv, CellInv, HistoryAt, PublishedAt, ClaimedAt, LifeAt
<1> QED BY <1>8, <1>9, <1>10, <1>11, <1>12, <1>13, <1>14 DEF CellInv

\* ~Future gives the right to attach up.
LEMMA DropFutureIInv ==
    ASSUME IInv, NEW t \in Threads, NEW s \in Cells, DropFuture(t, s)
    PROVE  IInv'
<1>1. \A pcs : \A q \in Cells :
        (Somewhere(pcs, q)' <=> Somewhere(pcs, q)) /\ (Once(pcs, q) => Once(pcs, q)')
  BY SameStack DEF DropFuture
<1>2. \A q \in Cells : Queued(q)' <=> Queued(q)
  BY SameJobs DEF DropFuture, history
<1>3. TypeOK' /\ JobsInv'
  <2>1. TypeOK'
    BY <1>1 DEF IInv, TypeOK, DropFuture, history
  <2>2. JobsInv'
    BY DEF IInv, JobsInv, DropFuture, history
  <2> QED BY <2>1, <2>2
<1>4. SUFFICES ASSUME NEW q \in Cells PROVE CellInv(q)'
  BY <1>3 DEF IInv
<1>5. CellInv(q) /\ CellInv(s)
  BY DEF IInv
<1>6. /\ handle'[q] = IF q = s THEN FALSE ELSE handle[q]
      /\ result' = result /\ notify' = notify /\ chain' = chain /\ exec' = exec /\ promises' = promises /\ taken' = taken
      /\ life' = life /\ attached' = attached /\ delivered' = delivered /\ dropped' = dropped
  BY DEF IInv, TypeOK, DropFuture, history
<1>7. \A pcs : (Somewhere(pcs, q)' <=> Somewhere(pcs, q)) /\ (Once(pcs, q) => Once(pcs, q)')
  BY <1>1
<1>8. WakeAt(q)'
  BY <1>2, <1>5, <1>6, <1>7, CellTypes DEF IInv, CellInv, WakeAt
<1>9. PublishedAt(q)'
  BY <1>2, <1>5, <1>6, <1>7, CellTypes DEF IInv, CellInv, PublishedAt, ClaimedAt, HandleAt
<1>10. ClaimedAt(q)'
  BY <1>2, <1>5, <1>6, <1>7, CellTypes DEF IInv, CellInv, ClaimedAt, PublishedAt, HistoryAt
<1>11. HandleAt(q)'
  BY <1>2, <1>5, <1>6, <1>7, CellTypes DEF IInv, CellInv, HandleAt, LifeAt
<1>12. LifeAt(q)'
  BY <1>2, <1>5, <1>6, <1>7, CellTypes DEF IInv, CellInv, LifeAt, HandleAt
<1>13. ChainAt(q)'
  BY <1>2, <1>5, <1>6, <1>7, CellTypes DEF IInv, CellInv, ChainAt, LifeAt
<1>14. HistoryAt(q)'
  BY <1>2, <1>5, <1>6, <1>7, CellTypes DEF IInv, CellInv, HistoryAt, PublishedAt, ClaimedAt, LifeAt
<1> QED BY <1>8, <1>9, <1>10, <1>11, <1>12, <1>13, <1>14 DEF CellInv

\* StoppableExecutor::Stop touches dead only.
LEMMA StopIInv ==
    ASSUME IInv, NEW t \in Threads, Stop(t)
    PROVE  IInv'
<1>1. \A pcs : \A q \in Cells :
        (Somewhere(pcs, q)' <=> Somewhere(pcs, q)) /\ (Once(pcs, q) => Once(pcs, q)')
  BY SameStack DEF Stop
<1>2. \A q \in Cells : Queued(q)' <=> Queued(q)
  BY SameJobs DEF Stop, cellVars, history
<1>3. TypeOK' /\ JobsInv'
  <2>1. TypeOK'
    BY <1>1 DEF IInv, TypeOK, Stop, cellVars, history
  <2>2. JobsInv'
    BY DEF IInv, JobsInv, Stop, cellVars, history
  <2> QED BY <2>1, <2>2
<1>4. SUFFICES ASSUME NEW q \in Cells PROVE CellInv(q)'
  BY <1>3 DEF IInv
<1>5. CellInv(q)
  BY DEF IInv
<1>6. /\ result' = result /\ notify' = notify /\ chain' = chain /\ exec' = exec /\ promises' = promises /\ taken' = taken
      /\ handle' = handle /\ life' = life /\ attached' = attached /\ delivered' = delivered /\ dropped' = dropped
  BY DEF IInv, TypeOK, Stop, cellVars, history
<1>7. \A pcs : (Somewhere(pcs, q)' <=> Somewhere(pcs, q)) /\ (Once(pcs, q) => Once(pcs, q)')
  BY <1>1
<1>8. WakeAt(q)'
  BY <1>2, <1>5, <1>6, <1>7, CellTypes DEF IInv, CellInv, WakeAt
<1>9. PublishedAt(q)'
  BY <1>2, <1>5, <1>6, <1>7, CellTypes DEF IInv, CellInv, PublishedAt, ClaimedAt, HandleAt
<1>10. ClaimedAt(q)'
  BY <1>2, <1>5, <1>6, <1>7, CellTypes DEF IInv, CellInv, ClaimedAt, PublishedAt, HistoryAt
<1>11. HandleAt(q)'
  BY <1>2, <1>5, <1>6, <1>7, CellTypes DEF IInv, CellInv, HandleAt, LifeAt
<1>12. LifeAt(q)'
  BY <1>2, <1>5, <1>6, <1>7, CellTypes DEF IInv, CellInv, LifeAt, HandleAt
<1>13. ChainAt(q)'
  BY <1>2, <1>5, <1>6, <1>7, CellTypes DEF IInv, CellInv, ChainAt, LifeAt
<1>14. HistoryAt(q)'
  BY <1>2, <1>5, <1>6, <1>7, CellTypes DEF IInv, CellInv, HistoryAt, PublishedAt, ClaimedAt, LifeAt
<1> QED BY <1>8, <1>9, <1>10, <1>11, <1>12, <1>13, <1>14 DEF CellInv

\* ~NotifyCtx of a dropped job: the claimed continuation is discarded.
LEMMA DropJobIInv ==
    ASSUME IInv, NEW j \in jobs, DropJob(j)
    PROVE  IInv'
<1>0. PICK s \in Cells : s = j.cell /\ Queued(s)
  BY DEF IInv, TypeOK, Queued
<1>1. \A pcs : \A q \in Cells :
        (Somewhere(pcs, q)' <=> Somewhere(pcs, q)) /\ (Once(pcs, q) => Once(pcs, q)')
  BY SameStack DEF DropJob
<1>2. \A q \in Cells : Queued(q)' <=> Queued(q) /\ q # s
  BY <1>0 DEF IInv, JobsInv, DropJob, Queued
<1>g. Queued(s)
  BY <1>0 DEF IInv, TypeOK, DropJob, cellVars, history
<1>3. TypeOK' /\ JobsInv'
  <2>1. TypeOK'
    BY <1>0 DEF IInv, TypeOK, DropJob, cellVars, history
  <2>2. JobsInv'
    BY DEF IInv, JobsInv, DropJob, cellVars, history
  <2> QED BY <2>1, <2>2
<1>4. SUFFICES ASSUME NEW q \in Cells PROVE CellInv(q)'
  BY <1>3 DEF IInv
<1>5. CellInv(q) /\ CellInv(s)
  BY <1>0 DEF IInv
<1>6. /\ dropped'[q] = IF q = s THEN dropped[s] + 1 ELSE dropped[q]
      /\ result' = result /\ notify' = notify /\ chain' = chain /\ exec' = exec /\ promises' = promises /\ taken' = taken
      /\ handle' = handle /\ life' = life /\ attached' = attached /\ delivered' = delivered
  BY <1>0 DEF IInv, TypeOK, DropJob, cellVars, history
<1>7. \A pcs : (Somewhere(pcs, q)' <=> Somewhere(pcs, q)) /\ (Once(pcs, q) => Once(pcs, q)')
  BY <1>1
<1>8. WakeAt(q)'
  BY <1>2, <1>5, <1>6, <1>7, CellTypes, <1>g DEF IInv, CellInv, WakeAt
<1>9. PublishedAt(q)'
  BY <1>2, <1>5, <1>6, <1>7, CellTypes, <1>g DEF IInv, CellInv, PublishedAt, ClaimedAt, HandleAt
<1>10. ClaimedAt(q)'
  BY <1>2, <1>5, <1>6, <1>7, CellTypes, <1>g DEF IInv, CellInv, ClaimedAt, PublishedAt, HistoryAt
<1>11. HandleAt(q)'
  BY <1>2, <1>5, <1>6, <1>7, CellTypes, <1>g DEF IInv, CellInv, HandleAt, LifeAt
<1>12. LifeAt(q)'
  BY <1>2, <1>5, <1>6, <1>7, CellTypes, <1>g DEF IInv, CellInv, LifeAt, HandleAt
<1>13. ChainAt(q)'
  BY <1>2, <1>5, <1>6, <1>7, CellTypes, <1>g DEF IInv, CellInv, ChainAt, LifeAt
<1>14. HistoryAt(q)'
  BY <1>2, <1>5, <1>6, <1>7, CellTypes, <1>g DEF IInv, CellInv, HistoryAt, PublishedAt, ClaimedAt, LifeAt
<1> QED BY <1>8, <1>9, <1>10, <1>11, <1>12, <1>13, <1>14 DEF CellInv

\* ~Base: nobody refers to the cell, so a published continuation was never
\* due.
LEMMA DestroyIInv ==
    ASSUME IInv, NEW s \in Cells, Destroy(s)
    PROVE  IInv'
<1>1. \A pcs : \A q \in Cells :
        (Somewhere(pcs, q)' <=> Somewhere(pcs, q)) /\ (Once(pcs, q) => Once(pcs, q)')
  BY SameStack DEF Destroy
<1>2. \A q \in Cells : Queued(q)' <=> Queued(q)
  BY SameJobs DEF Destroy
<1>g. /\ ~handle[s] /\ promises[s] = 0 /\ ~Somewhere(Pcs, s) /\ ~Queued(s)
      /\ life[s] \in {"promised", "chained"}
      /\ \A x \in Cells : life[x] # "dead" => chain[x] # s
      /\ \A x \in Cells : life'[x] = IF x = s THEN "dead" ELSE life[x]
  BY DEF IInv, TypeOK, Destroy, Referenced, Somewhere, Working, Queued
<1>3. TypeOK' /\ JobsInv'
  <2>1. TypeOK'
    BY <1>1 DEF IInv, TypeOK, Destroy, Kinds, UserKinds
  <2>2. JobsInv'
    BY DEF IInv, JobsInv, Destroy
  <2> QED BY <2>1, <2>2
<1>4. SUFFICES ASSUME NEW q \in Cells PROVE CellInv(q)'
  BY <1>3 DEF IInv
<1>5. CellInv(q) /\ CellInv(s)
  BY DEF IInv
<1>6. /\ notify'[q] = IF q = s THEN "null" ELSE notify[q]
      /\ life'[q] = IF q = s THEN "dead" ELSE life[q]
      /\ dropped'[q] = IF q = s /\ notify[s] # "null" THEN dropped[s] + 1 ELSE dropped[q]
      /\ result' = result /\ chain' = chain /\ exec' = exec /\ promises' = promises /\ taken' = taken /\ handle' = handle
      /\ attached' = attached /\ delivered' = delivered
  BY DEF IInv, TypeOK, Destroy
<1>7. \A pcs : (Somewhere(pcs, q)' <=> Somewhere(pcs, q)) /\ (Once(pcs, q) => Once(pcs, q)')
  BY <1>1
<1>8. WakeAt(q)'
  BY <1>2, <1>5, <1>6, <1>7, CellTypes, <1>g DEF IInv, CellInv, WakeAt
<1>9. PublishedAt(q)'
  BY <1>2, <1>5, <1>6, <1>7, CellTypes, <1>g DEF IInv, CellInv, PublishedAt, ClaimedAt, HandleAt
<1>10. ClaimedAt(q)'
  BY <1>2, <1>5, <1>6, <1>7, CellTypes, <1>g, WiderPcs DEF IInv, CellInv, ClaimedAt, PublishedAt, HistoryAt
<1>11. HandleAt(q)'
  BY <1>2, <1>5, <1>6, <1>7, CellTypes, <1>g, WiderPcs DEF IInv, CellInv, HandleAt, LifeAt
<1>12. LifeAt(q)'
  BY <1>2, <1>5, <1>6, <1>7, CellTypes, <1>g, WiderPcs DEF IInv, CellInv, LifeAt, HandleAt
<1>13. ChainAt(q)'
  BY <1>2, <1>5, <1>6, <1>7, CellTypes, <1>g, NullAssumption DEF IInv, CellInv, ChainAt, LifeAt
<1>14. HistoryAt(q)'
  BY <1>2, <1>5, <1>6, <1>7, CellTypes, <1>g, WiderPcs DEF IInv, CellInv, HistoryAt, PublishedAt, WakeAt
<1> QED BY <1>8, <1>9, <1>10, <1>11, <1>12, <1>13, <1>14 DEF CellInv

\* operator(): the driver it enters pays for the wakeup it owes.
LEMMA ResolveIInv ==
    ASSUME IInv, NEW t \in Threads, NEW s \in Cells, NEW r \in {"val", "exc"}, Resolve(t, s, r)
    PROVE  IInv'
<1>1. /\ stack' \in [Threads -> Seq(Frame)]
      /\ \A pcs : \A q \in Cells :
            /\ Somewhere(pcs, q)' <=> Somewhere(pcs, q) \/ ("drive" \in pcs /\ q = s)
            /\ Once(pcs, q) /\ "drive" \notin pcs => Once(pcs, q)'
  <2>1. Call(t, <<Drive(s)>>)
    BY DEF Resolve
  <2> QED BY <2>1, DriveFrame, CallOne DEF IInv
<1>2. \A q \in Cells : Queued(q)' <=> Queued(q)
  BY SameJobs DEF Resolve, history
<1>g. promises[s] > 0 /\ result' \in [Cells -> Results] /\ r # "broken" /\ r # "pending"
  BY FulfilResult DEF IInv, TypeOK, Resolve, history, Results
<1>3. TypeOK' /\ JobsInv'
  <2>1. TypeOK'
    BY <1>1, <1>g DEF IInv, TypeOK, Resolve, history
  <2>2. JobsInv'
    BY DEF IInv, JobsInv, Resolve, history
  <2> QED BY <2>1, <2>2
<1>4. SUFFICES ASSUME NEW q \in Cells PROVE CellInv(q)'
  BY <1>3 DEF IInv
<1>5. CellInv(q) /\ CellInv(s)
  BY DEF IInv
<1>6. /\ result'[q] = result[q] \/ (q = s /\ result[q] = "pending" /\ result'[q] = r)
      /\ notify' = notify /\ chain' = chain /\ exec' = exec /\ promises' = promises /\ taken' = taken /\ handle' = handle
      /\ life' = life /\ attached' = attached /\ delivered' = delivered /\ dropped' = dropped
  <2>1. TypeOK /\ r \in Results /\ Fulfil(s, r)
    BY DEF IInv, Results, Resolve
  <2>2. result'[q] = result[q] \/ (q = s /\ result[q] = "pending" /\ result'[q] = r)
    BY <2>1, FulfilResult
  <2> QED BY <2>2 DEF Resolve, history
<1>7. /\ Somewhere({"drive"}, q)' <=> Somewhere({"drive"}, q) \/ q = s
      /\ Somewhere(ClaimPcs, q)' <=> Somewhere(ClaimPcs, q)
      /\ Somewhere({"exec"}, q)' <=> Somewhere({"exec"}, q)
      /\ Somewhere({"give"}, q)' <=> Somewhere({"give"}, q)
      /\ Somewhere(Pcs, q)' <=> Somewhere(Pcs, q) \/ q = s
      /\ Somewhere(BreakPcs, q)' <=> Somewhere(BreakPcs, q)
      /\ Once(ClaimPcs, q) => Once(ClaimPcs, q)'
      /\ Once({"give"}, q) => Once({"give"}, q)'
  BY <1>1, PcMembers
<1>8. WakeAt(q)'
  BY <1>2, <1>5, <1>6, <1>7, CellTypes, <1>g DEF IInv, CellInv, WakeAt
<1>9. PublishedAt(q)'
  BY <1>2, <1>5, <1>6, <1>7, CellTypes, <1>g DEF IInv, CellInv, PublishedAt, ClaimedAt, HandleAt
<1>10. ClaimedAt(q)'
  BY <1>2, <1>5, <1>6, <1>7, CellTypes, <1>g DEF IInv, CellInv, ClaimedAt, PublishedAt, HistoryAt
<1>11. HandleAt(q)'
  BY <1>2, <1>5, <1>6, <1>7, CellTypes, <1>g DEF IInv, CellInv, HandleAt, LifeAt
<1>12. LifeAt(q)'
  BY <1>2, <1>5, <1>6, <1>7, CellTypes, <1>g DEF IInv, CellInv, LifeAt, HandleAt
<1>13. ChainAt(q)'
  BY <1>2, <1>5, <1>6, <1>7, CellTypes, <1>g DEF IInv, CellInv, ChainAt, LifeAt
<1>14. HistoryAt(q)'
  BY <1>2, <1>5, <1>6, <1>7, CellTypes, <1>g DEF IInv, CellInv, HistoryAt, PublishedAt, ClaimedAt, LifeAt
<1> QED BY <1>8, <1>9, <1>10, <1>11, <1>12, <1>13, <1>14 DEF CellInv

\* deref: only the promise that takes the count to zero goes on to break the
\* cell.
LEMMA DropPromiseIInv ==
    ASSUME IInv, NEW t \in Threads, NEW s \in Cells, DropPromise(t, s)
    PROVE  IInv'
<1>1. /\ stack' \in [Threads -> Seq(Frame)]
      /\ \A pcs : \A q \in Cells :
            /\ Somewhere(pcs, q)' => Somewhere(pcs, q) \/ ("broken" \in pcs /\ q = s /\ promises[s] = 1)
            /\ Somewhere(pcs, q) => Somewhere(pcs, q)'
            /\ Once(pcs, q) /\ "broken" \notin pcs => Once(pcs, q)'
  <2>1. CASE promises[s] = 1
    <3>1. /\ Plain("broken", s) \in Frame
          /\ Plain("broken", s).pc = "broken" /\ Plain("broken", s).cell = s
          /\ Call(t, <<Plain("broken", s)>>)
      BY <2>1, PlainFrame DEF PlainPcs, DropPromise
    <3> QED BY <2>1, <3>1, CallOne DEF IInv
  <2>2. CASE promises[s] # 1
    <3>1. << >> \in Seq(Frame) /\ Call(t, << >>)
      BY <2>2 DEF DropPromise
    <3> QED BY <3>1, CallStack, AddsNothing DEF IInv
  <2> QED BY <2>1, <2>2
<1>2. \A q \in Cells : Queued(q)' <=> Queued(q)
  BY SameJobs DEF DropPromise, history
<1>g. promises[s] > 0
  BY DEF IInv, TypeOK, DropPromise, history
<1>3. TypeOK' /\ JobsInv'
  <2>1. TypeOK'
    <3>1. promises' = [promises EXCEPT ![s] = @ - 1] /\ promises \in [Cells -> Nat]
      BY DEF IInv, TypeOK, DropPromise
    <3>2. promises' \in [Cells -> Nat]
      BY <3>1, <1>g
    <3> QED BY <1>1, <3>2 DEF IInv, TypeOK, DropPromise, history
  <2>2. JobsInv'
    BY DEF IInv, JobsInv, DropPromise, history
  <2> QED BY <2>1, <2>2
<1>4. SUFFICES ASSUME NEW q \in Cells PROVE CellInv(q)'
  BY <1>3 DEF IInv
<1>5. CellInv(q) /\ CellInv(s)
  BY DEF IInv
<1>6. /\ promises'[q] = IF q = s THEN promises[s] - 1 ELSE promises[q]
      /\ result' = result /\ notify' = notify /\ chain' = chain /\ exec' = exec /\ taken' = taken /\ handle' = handle
      /\ life' = life /\ attached' = attached /\ delivered' = delivered /\ dropped' = dropped
  BY DEF IInv, TypeOK, DropPromise, history
<1>7. /\ Somewhere({"drive"}, q)' <=> Somewhere({"drive"}, q)
      /\ Somewhere(ClaimPcs, q)' <=> Somewhere(ClaimPcs, q)
      /\ Somewhere({"exec"}, q)' <=> Somewhere({"exec"}, q)
      /\ Somewhere({"give"}, q)' <=> Somewhere({"give"}, q)
      /\ Somewhere(Pcs, q)' => Somewhere(Pcs, q) \/ q = s
      /\ Somewhere(BreakPcs, q)' => Somewhere(BreakPcs, q) \/ (q = s /\ promises[s] = 1)
      /\ Once(ClaimPcs, q) => Once(ClaimPcs, q)'
      /\ Once({"give"}, q) => Once({"give"}, q)'
  BY <1>1, PcMembers
<1>8. WakeAt(q)'
  BY <1>2, <1>5, <1>6, <1>7, CellTypes, <1>g DEF IInv, CellInv, WakeAt
<1>9. PublishedAt(q)'
  BY <1>2, <1>5, <1>6, <1>7, CellTypes, <1>g DEF IInv, CellInv, PublishedAt, ClaimedAt, HandleAt
<1>10. ClaimedAt(q)'
  BY <1>2, <1>5, <1>6, <1>7, CellTypes, <1>g DEF IInv, CellInv, ClaimedAt, PublishedAt, HistoryAt
<1>11. HandleAt(q)'
  BY <1>2, <1>5, <1>6, <1>7, CellTypes, <1>g DEF IInv, CellInv, HandleAt, LifeAt
<1>12. LifeAt(q)'
  BY <1>2, <1>5, <1>6, <1>7, CellTypes, <1>g DEF IInv, CellInv, LifeAt, HandleAt
<1>13. ChainAt(q)'
  BY <1>2, <1>5, <1>6, <1>7, CellTypes, <1>g DEF IInv, CellInv, ChainAt, LifeAt
<1>14. HistoryAt(q)'
  BY <1>2, <1>5, <1>6, <1>7, CellTypes, <1>g DEF IInv, CellInv, HistoryAt, PublishedAt, ClaimedAt, LifeAt
<1> QED BY <1>8, <1>9, <1>10, <1>11, <1>12, <1>13, <1>14 DEF CellInv

\* deref's look at the fulfilled flag.
LEMMA CheckBrokenIInv ==
    ASSUME IInv, NEW t \in Threads, CheckBroken(t)
    PROVE  IInv'
<1>0. PICK s \in Cells : s = Top(t).cell /\ stack[t] # << >> /\ Top(t).pc = "broken"
  BY TopFrame DEF IInv, CheckBroken, At
<1>1. /\ stack' \in [Threads -> Seq(Frame)]
      /\ \A pcs : \A q \in Cells :
            /\ Somewhere(pcs, q)' => Somewhere(pcs, q) \/ ("break" \in pcs /\ q = s)
            /\ Somewhere(pcs, q) /\ "broken" \notin pcs => Somewhere(pcs, q)'
            /\ "broken" \in pcs => Somewhere(pcs, s)
            /\ Once(pcs, q) /\ "break" \notin pcs => Once(pcs, q)'
  <2>1. CASE result[s] = "pending"
    <3>1. /\ Plain("break", s) \in Frame
          /\ Plain("break", s).pc = "break" /\ Plain("break", s).cell = s
          /\ Become(t, <<Plain("break", s)>>)
      BY <1>0, <2>1, PlainFrame DEF PlainPcs, CheckBroken
    <3> QED BY <1>0, <3>1, BecomeOne DEF IInv, TopIs
  <2>2. CASE result[s] # "pending"
    <3>1. Become(t, << >>)
      BY <1>0, <2>2 DEF CheckBroken
    <3> QED BY <1>0, <3>1, Pop DEF IInv, TopIs
  <2> QED BY <2>1, <2>2
<1>2. \A q \in Cells : Queued(q)' <=> Queued(q)
  BY SameJobs DEF CheckBroken, cellVars, history
<1>3. TypeOK' /\ JobsInv'
  <2>1. TypeOK'
    BY <1>1 DEF IInv, TypeOK, CheckBroken, cellVars, history
  <2>2. JobsInv'
    BY DEF IInv, JobsInv, CheckBroken, cellVars, history
  <2> QED BY <2>1, <2>2
<1>4. SUFFICES ASSUME NEW q \in Cells PROVE CellInv(q)'
  BY <1>3 DEF IInv
<1>5. CellInv(q) /\ CellInv(s)
  BY <1>0 DEF IInv
<1>6. /\ result' = result /\ notify' = notify /\ chain' = chain /\ exec' = exec /\ promises' = promises /\ taken' = taken
      /\ handle' = handle /\ life' = life /\ attached' = attached /\ delivered' = delivered /\ dropped' = dropped
  BY DEF IInv, TypeOK, CheckBroken, cellVars, history
<1>7. /\ Somewhere({"drive"}, q)' <=> Somewhere({"drive"}, q)
      /\ Somewhere(ClaimPcs, q)' <=> Somewhere(ClaimPcs, q)
      /\ Somewhere({"exec"}, q)' <=> Somewhere({"exec"}, q)
      /\ Somewhere({"give"}, q)' <=> Somewhere({"give"}, q)
      /\ Somewhere(Pcs, q)' => Somewhere(Pcs, q) \/ q = s
      /\ Somewhere(BreakPcs, q)' => Somewhere(BreakPcs, q) \/ q = s
      /\ Somewhere(Pcs, s) /\ Somewhere(BreakPcs, s)
      /\ Once(ClaimPcs, q) => Once(ClaimPcs, q)'
      /\ Once({"give"}, q) => Once({"give"}, q)'
  BY <1>1, PcMembers
<1>8. WakeAt(q)'
  BY <1>2, <1>5, <1>6, <1>7, CellTypes DEF IInv, CellInv, WakeAt
<1>9. PublishedAt(q)'
  BY <1>2, <1>5, <1>6, <1>7, CellTypes DEF IInv, CellInv, PublishedAt, ClaimedAt, HandleAt
<1>10. ClaimedAt(q)'
  BY <1>2, <1>5, <1>6, <1>7, CellTypes DEF IInv, CellInv, ClaimedAt, PublishedAt, HistoryAt
<1>11. HandleAt(q)'
  BY <1>2, <1>5, <1>6, <1>7, CellTypes DEF IInv, CellInv, HandleAt, LifeAt
<1>12. LifeAt(q)'
  BY <1>2, <1>5, <1>6, <1>7, CellTypes DEF IInv, CellInv, LifeAt, HandleAt
<1>13. ChainAt(q)'
  BY <1>2, <1>5, <1>6, <1>7, CellTypes DEF IInv, CellInv, ChainAt, LifeAt
<1>14. HistoryAt(q)'
  BY <1>2, <1>5, <1>6, <1>7, CellTypes DEF IInv, CellInv, HistoryAt, PublishedAt, ClaimedAt, LifeAt
<1> QED BY <1>8, <1>9, <1>10, <1>11, <1>12, <1>13, <1>14 DEF CellInv

\* deref's Broken Promise, with the driver that follows.
LEMMA BreakPromiseIInv ==
    ASSUME IInv, NEW t \in Threads, BreakPromise(t)
    PROVE  IInv'
<1>0. PICK s \in Cells : s = Top(t).cell /\ stack[t] # << >> /\ Top(t).pc = "break"
  BY TopFrame DEF IInv, BreakPromise, At
<1>1. /\ stack' \in [Threads -> Seq(Frame)]
      /\ \A pcs : \A q \in Cells :
            /\ Somewhere(pcs, q)' => Somewhere(pcs, q) \/ ("drive" \in pcs /\ q = s)
            /\ "drive" \in pcs => Somewhere(pcs, s)'
            /\ Somewhere(pcs, q) /\ "break" \notin pcs => Somewhere(pcs, q)'
            /\ "break" \in pcs => Somewhere(pcs, s)
            /\ Once(pcs, q) /\ "drive" \notin pcs => Once(pcs, q)'
  <2>1. Become(t, <<Drive(s)>>)
    BY <1>0 DEF BreakPromise
  <2> QED BY <1>0, <2>1, DriveFrame, BecomeOne DEF IInv, TopIs
<1>2. \A q \in Cells : Queued(q)' <=> Queued(q)
  BY SameJobs DEF BreakPromise, history
<1>g. result' \in [Cells -> Results]
  BY <1>0, FulfilResult DEF IInv, TypeOK, BreakPromise, history, Results
<1>3. TypeOK' /\ JobsInv'
  <2>1. TypeOK'
    BY <1>1, <1>g DEF IInv, TypeOK, BreakPromise, history
  <2>2. JobsInv'
    BY DEF IInv, JobsInv, BreakPromise, history
  <2> QED BY <2>1, <2>2
<1>4. SUFFICES ASSUME NEW q \in Cells PROVE CellInv(q)'
  BY <1>3 DEF IInv
<1>5. CellInv(q) /\ CellInv(s)
  BY <1>0 DEF IInv
<1>6. /\ result'[q] = result[q] \/ (q = s /\ result[q] = "pending" /\ result'[q] = "broken")
      /\ notify' = notify /\ chain' = chain /\ exec' = exec /\ promises' = promises /\ taken' = taken /\ handle' = handle
      /\ life' = life /\ attached' = attached /\ delivered' = delivered /\ dropped' = dropped
  <2>1. TypeOK /\ "broken" \in Results /\ Fulfil(s, "broken")
    BY <1>0 DEF IInv, Results, BreakPromise
  <2>2. result'[q] = result[q] \/ (q = s /\ result[q] = "pending" /\ result'[q] = "broken")
    BY <2>1, FulfilResult
  <2> QED BY <2>2 DEF BreakPromise, history
<1>7. /\ Somewhere({"drive"}, q)' <=> Somewhere({"drive"}, q) \/ q = s
      /\ Somewhere(ClaimPcs, q)' <=> Somewhere(ClaimPcs, q)
      /\ Somewhere({"exec"}, q)' <=> Somewhere({"exec"}, q)
      /\ Somewhere({"give"}, q)' <=> Somewhere({"give"}, q)
      /\ Somewhere(Pcs, q)' => Somewhere(Pcs, q) \/ q = s
      /\ Somewhere(BreakPcs, q)' => Somewhere(BreakPcs, q)
      /\ Somewhere(Pcs, s) /\ Somewhere(BreakPcs, s)
      /\ Once(ClaimPcs, q) => Once(ClaimPcs, q)'
      /\ Once({"give"}, q) => Once({"give"}, q)'
  BY <1>1, PcMembers
<1>8. WakeAt(q)'
  BY <1>2, <1>5, <1>6, <1>7, CellTypes, <1>g DEF IInv, CellInv, WakeAt
<1>9. PublishedAt(q)'
  BY <1>2, <1>5, <1>6, <1>7, CellTypes, <1>g DEF IInv, CellInv, PublishedAt, ClaimedAt, HandleAt
<1>10. ClaimedAt(q)'
  BY <1>2, <1>5, <1>6, <1>7, CellTypes, <1>g DEF IInv, CellInv, ClaimedAt, PublishedAt, HistoryAt
<1>11. HandleAt(q)'
  BY <1>2, <1>5, <1>6, <1>7, CellTypes, <1>g DEF IInv, CellInv, HandleAt, LifeAt
<1>12. LifeAt(q)'
  BY <1>2, <1>5, <1>6, <1>7, CellTypes, <1>g DEF IInv, CellInv, LifeAt, HandleAt
<1>13. ChainAt(q)'
  BY <1>2, <1>5, <1>6, <1>7, CellTypes, <1>g DEF IInv, CellInv, ChainAt, LifeAt
<1>14. HistoryAt(q)'
  BY <1>2, <1>5, <1>6, <1>7, CellTypes, <1>g DEF IInv, CellInv, HistoryAt, PublishedAt, ClaimedAt, LifeAt
<1> QED BY <1>8, <1>9, <1>10, <1>11, <1>12, <1>13, <1>14 DEF CellInv

\* Then and Try: the right to attach becomes a published continuation with a
\* driver, and a new right on the chain.
LEMMA ThenIInv ==
    ASSUME IInv, NEW t \in Threads, NEW s \in Cells, NEW k \in {"then", "try"}, NEW e \in Executors,
           NEW c \in Cells, Then(t, s, k, e, c)
    PROVE  IInv'
<1>1. /\ stack' \in [Threads -> Seq(Frame)]
      /\ \A pcs : \A q \in Cells :
            /\ Somewhere(pcs, q)' <=>
                Somewhere(pcs, q) \/ ("give" \in pcs /\ q = c) \/ ("drive" \in pcs /\ q = s)
            /\ Once(pcs, q) /\ "give" \notin pcs /\ "drive" \notin pcs => Once(pcs, q)'
            /\ Once(pcs, q) /\ "drive" \notin pcs /\ (q = c \/ q = s => ~Somewhere(pcs, q))
               => Once(pcs, q)'
  <2>1. PICK f \in Frame : f = Plain("give", c) /\ f.pc = "give" /\ f.cell = c
    BY PlainFrame DEF PlainPcs
  <2>2. PICK g \in Frame : g = Drive(s) /\ g.pc = "drive" /\ g.cell = s
    BY DriveFrame
  <2>3. TypeOK /\ Call(t, <<f, g>>) /\ f.pc # g.pc
    BY <2>1, <2>2 DEF IInv, Then
  <2>4. stack' \in [Threads -> Seq(Frame)]
    BY <2>1, <2>2, <2>3, CallTwo
  <2>5. ASSUME NEW pcs, NEW q \in Cells
        PROVE  Somewhere(pcs, q)' <=>
                 Somewhere(pcs, q) \/ ("give" \in pcs /\ q = c) \/ ("drive" \in pcs /\ q = s)
    BY <2>1, <2>2, <2>3, CallTwo
  <2>6. ASSUME NEW pcs, NEW q \in Cells, Once(pcs, q), "drive" \notin pcs,
               "give" \notin pcs \/ (q = c \/ q = s => ~Somewhere(pcs, q))
        PROVE  Once(pcs, q)'
    BY <2>1, <2>2, <2>3, <2>6, CallTwo
  <2> QED BY <2>4, <2>5, <2>6
<1>2. \A q \in Cells : Queued(q)' <=> Queued(q)
  BY SameJobs DEF Then, Publish
<1>g. /\ handle[s] /\ life[c] = "fresh" /\ k # "null" /\ k \in Kinds
      /\ \A x \in Cells : life'[x] = IF x = c THEN "chained" ELSE life[x]
  BY DEF IInv, TypeOK, Then, Publish, Kinds, UserKinds
<1>3. TypeOK' /\ JobsInv'
  <2>1. TypeOK'
    <3>1. /\ handle' \in [Cells -> BOOLEAN] /\ chain' \in [Cells -> Cells \cup {Null}]
          /\ attached' \in [Cells -> Nat]
      BY DEF IInv, TypeOK, Then, Publish
    <3>2. /\ notify' \in [Cells -> Kinds \cup {"null"}]
          /\ exec' \in [Cells -> Executors \cup {"null"}]
      BY <1>g DEF IInv, TypeOK, Then, Publish
    <3>3. life' \in [Cells -> {"fresh", "promised", "chained", "dead"}]
      BY DEF IInv, TypeOK, Then
    <3> QED BY <1>1, <3>1, <3>2, <3>3 DEF IInv, TypeOK, Then
  <2>2. JobsInv'
    BY DEF IInv, JobsInv, Then, Publish
  <2> QED BY <2>1, <2>2
<1>4. SUFFICES ASSUME NEW q \in Cells PROVE CellInv(q)'
  BY <1>3 DEF IInv
<1>5. CellInv(q) /\ CellInv(s) /\ CellInv(c)
  BY DEF IInv
<1>6. /\ notify'[q] = IF q = s THEN k ELSE notify[q]
      /\ chain'[q] = IF q = s THEN c ELSE chain[q]
      /\ exec'[q] = IF q = s THEN e ELSE exec[q]
      /\ handle'[q] = IF q = s THEN FALSE ELSE handle[q]
      /\ life'[q] = IF q = c THEN "chained" ELSE life[q]
      /\ attached'[q] = IF q = s THEN attached[s] + 1 ELSE attached[q]
      /\ result' = result /\ promises' = promises /\ taken' = taken /\ delivered' = delivered /\ dropped' = dropped
  BY DEF IInv, TypeOK, Then, Publish
<1>7. /\ Somewhere({"drive"}, q)' <=> Somewhere({"drive"}, q) \/ q = s
      /\ Somewhere(ClaimPcs, q)' <=> Somewhere(ClaimPcs, q)
      /\ Somewhere({"exec"}, q)' <=> Somewhere({"exec"}, q)
      /\ Somewhere({"give"}, q)' <=> Somewhere({"give"}, q) \/ q = c
      /\ Somewhere(Pcs, q)' <=> Somewhere(Pcs, q) \/ q = c \/ q = s
      /\ Somewhere(BreakPcs, q)' <=> Somewhere(BreakPcs, q)
      /\ Once(ClaimPcs, q) => Once(ClaimPcs, q)'
      /\ Once({"give"}, q) /\ (q = c \/ q = s => ~Somewhere({"give"}, q)) => Once({"give"}, q)'
  BY <1>1, PcMembers
<1>8. WakeAt(q)'
  BY <1>2, <1>5, <1>6, <1>7, CellTypes, <1>g DEF IInv, CellInv, WakeAt
<1>9. PublishedAt(q)'
  BY <1>2, <1>5, <1>6, <1>7, CellTypes, <1>g DEF IInv, CellInv, PublishedAt, ClaimedAt, HandleAt, HistoryAt
<1>10. ClaimedAt(q)'
  BY <1>2, <1>5, <1>6, <1>7, CellTypes, <1>g, WiderPcs DEF IInv, CellInv, ClaimedAt, PublishedAt, HandleAt
<1>11. HandleAt(q)'
  BY <1>2, <1>5, <1>6, <1>7, CellTypes, <1>g, WiderPcs DEF IInv, CellInv, HandleAt, LifeAt
<1>12. LifeAt(q)'
  BY <1>2, <1>5, <1>6, <1>7, CellTypes, <1>g, WiderPcs DEF IInv, CellInv, LifeAt, HandleAt
<1>13. ChainAt(q)'
  BY <1>2, <1>5, <1>6, <1>7, CellTypes, <1>g, NullAssumption DEF IInv, CellInv, ChainAt, LifeAt, HandleAt
<1>14. HistoryAt(q)'
  BY <1>2, <1>5, <1>6, <1>7, CellTypes, <1>g DEF IInv, CellInv, HistoryAt, HandleAt
<1> QED BY <1>8, <1>9, <1>10, <1>11, <1>12, <1>13, <1>14 DEF CellInv

\* AtLast and Catch: the right to attach becomes a published continuation with
\* a driver.
LEMMA AtLastIInv ==
    ASSUME IInv, NEW t \in Threads, NEW s \in Cells, NEW e \in Executors, AtLast(t, s, e)
    PROVE  IInv'
<1>1. /\ stack' \in [Threads -> Seq(Frame)]
      /\ \A pcs : \A q \in Cells :
            /\ Somewhere(pcs, q)' <=> Somewhere(pcs, q) \/ ("drive" \in pcs /\ q = s)
            /\ Once(pcs, q) /\ "drive" \notin pcs => Once(pcs, q)'
  <2>1. Call(t, <<Drive(s)>>)
    BY DEF AtLast
  <2> QED BY <2>1, DriveFrame, CallOne DEF IInv
<1>2. \A q \in Cells : Queued(q)' <=> Queued(q)
  BY SameJobs DEF AtLast, Publish
<1>g. handle[s] /\ "last" \in Kinds
  BY DEF IInv, TypeOK, AtLast, Publish, Kinds, UserKinds
<1>3. TypeOK' /\ JobsInv'
  <2>1. TypeOK'
    BY <1>1, <1>g DEF IInv, TypeOK, AtLast, Publish
  <2>2. JobsInv'
    BY DEF IInv, JobsInv, AtLast, Publish
  <2> QED BY <2>1, <2>2
<1>4. SUFFICES ASSUME NEW q \in Cells PROVE CellInv(q)'
  BY <1>3 DEF IInv
<1>5. CellInv(q) /\ CellInv(s)
  BY DEF IInv
<1>6. /\ notify'[q] = IF q = s THEN "last" ELSE notify[q]
      /\ chain'[q] = IF q = s THEN Null ELSE chain[q]
      /\ exec'[q] = IF q = s THEN e ELSE exec[q]
      /\ handle'[q] = IF q = s THEN FALSE ELSE handle[q]
      /\ attached'[q] = IF q = s THEN attached[s] + 1 ELSE attached[q]
      /\ result' = result /\ promises' = promises /\ taken' = taken /\ life' = life /\ delivered' = delivered /\ dropped' = dropped
  BY DEF IInv, TypeOK, AtLast, Publish
<1>7. /\ Somewhere({"drive"}, q)' <=> Somewhere({"drive"}, q) \/ q = s
      /\ Somewhere(ClaimPcs, q)' <=> Somewhere(ClaimPcs, q)
      /\ Somewhere({"exec"}, q)' <=> Somewhere({"exec"}, q)
      /\ Somewhere({"give"}, q)' <=> Somewhere({"give"}, q)
      /\ Somewhere(Pcs, q)' <=> Somewhere(Pcs, q) \/ q = s
      /\ Somewhere(BreakPcs, q)' <=> Somewhere(BreakPcs, q)
      /\ Once(ClaimPcs, q) => Once(ClaimPcs, q)'
      /\ Once({"give"}, q) => Once({"give"}, q)'
  BY <1>1, PcMembers
<1>8. WakeAt(q)'
  BY <1>2, <1>5, <1>6, <1>7, CellTypes, <1>g DEF IInv, CellInv, WakeAt
<1>9. PublishedAt(q)'
  BY <1>2, <1>5, <1>6, <1>7, CellTypes, <1>g DEF IInv, CellInv, PublishedAt, ClaimedAt, HandleAt, HistoryAt
<1>10. ClaimedAt(q)'
  BY <1>2, <1>5, <1>6, <1>7, CellTypes, <1>g, WiderPcs DEF IInv, CellInv, ClaimedAt, PublishedAt, HandleAt
<1>11. HandleAt(q)'
  BY <1>2, <1>5, <1>6, <1>7, CellTypes, <1>g DEF IInv, CellInv, HandleAt, LifeAt
<1>12. LifeAt(q)'
  BY <1>2, <1>5, <1>6, <1>7, CellTypes, <1>g DEF IInv, CellInv, LifeAt, HandleAt
<1>13. ChainAt(q)'
  BY <1>2, <1>5, <1>6, <1>7, CellTypes, <1>g, NullAssumption DEF IInv, CellInv, ChainAt, LifeAt
<1>14. HistoryAt(q)'
  BY <1>2, <1>5, <1>6, <1>7, CellTypes, <1>g DEF IInv, CellInv, HistoryAt, HandleAt
<1> QED BY <1>8, <1>9, <1>10, <1>11, <1>12, <1>13, <1>14 DEF CellInv

\* Then returns the future of the chain.
LEMMA GiveFutureIInv ==
    ASSUME IInv, NEW t \in Threads, GiveFuture(t)
    PROVE  IInv'
<1>0. PICK s \in Cells : s = Top(t).cell /\ stack[t] # << >> /\ Top(t).pc = "give"
  BY TopFrame DEF IInv, GiveFuture, At
<1>1. /\ stack' \in [Threads -> Seq(Frame)]
      /\ \A pcs : \A q \in Cells :
            /\ Somewhere(pcs, q)' => Somewhere(pcs, q)
            /\ Somewhere(pcs, q) /\ ("give" \notin pcs \/ q # s) => Somewhere(pcs, q)'
            /\ "give" \in pcs => Somewhere(pcs, s)
            /\ Once(pcs, q) => Once(pcs, q)'
            /\ Once(pcs, s) /\ "give" \in pcs => ~Somewhere(pcs, s)'
  <2>1. Become(t, << >>)
    BY <1>0 DEF GiveFuture
  <2> QED BY <1>0, <2>1, Pop DEF IInv, TopIs
<1>2. \A q \in Cells : Queued(q)' <=> Queued(q)
  BY SameJobs DEF GiveFuture, history
<1>3. TypeOK' /\ JobsInv'
  <2>1. TypeOK'
    BY <1>0, <1>1 DEF IInv, TypeOK, GiveFuture, history
  <2>2. JobsInv'
    BY DEF IInv, JobsInv, GiveFuture, history
  <2> QED BY <2>1, <2>2
<1>4. SUFFICES ASSUME NEW q \in Cells PROVE CellInv(q)'
  BY <1>3 DEF IInv
<1>5. CellInv(q) /\ CellInv(s)
  BY <1>0 DEF IInv
<1>6. /\ handle'[q] = IF q = s THEN TRUE ELSE handle[q]
      /\ result' = result /\ notify' = notify /\ chain' = chain /\ exec' = exec /\ promises' = promises /\ taken' = taken
      /\ life' = life /\ attached' = attached /\ delivered' = delivered /\ dropped' = dropped
  BY <1>0 DEF IInv, TypeOK, GiveFuture, history
<1>7. /\ Somewhere({"drive"}, q)' <=> Somewhere({"drive"}, q)
      /\ Somewhere(ClaimPcs, q)' <=> Somewhere(ClaimPcs, q)
      /\ Somewhere({"exec"}, q)' <=> Somewhere({"exec"}, q)
      /\ Somewhere({"give"}, q)' => Somewhere({"give"}, q)
      /\ Somewhere({"give"}, s)
      /\ Once({"give"}, s) => ~Somewhere({"give"}, s)'
      /\ q # s /\ Somewhere({"give"}, q) => Somewhere({"give"}, q)'
      /\ Somewhere(Pcs, q)' => Somewhere(Pcs, q)
      /\ Somewhere(Pcs, s)
      /\ Somewhere(BreakPcs, q)' <=> Somewhere(BreakPcs, q)
      /\ Once(ClaimPcs, q) => Once(ClaimPcs, q)'
      /\ Once({"give"}, q) => Once({"give"}, q)'
  BY <1>1, PcMembers
<1>8. WakeAt(q)'
  BY <1>2, <1>5, <1>6, <1>7, CellTypes DEF IInv, CellInv, WakeAt
<1>9. PublishedAt(q)'
  BY <1>2, <1>5, <1>6, <1>7, CellTypes DEF IInv, CellInv, PublishedAt, ClaimedAt, HandleAt
<1>10. ClaimedAt(q)'
  BY <1>2, <1>5, <1>6, <1>7, CellTypes DEF IInv, CellInv, ClaimedAt, PublishedAt, HistoryAt
<1>11. HandleAt(q)'
  BY <1>2, <1>5, <1>6, <1>7, CellTypes DEF IInv, CellInv, HandleAt, LifeAt
<1>12. LifeAt(q)'
  BY <1>2, <1>5, <1>6, <1>7, CellTypes, WiderPcs DEF IInv, CellInv, LifeAt, HandleAt
<1>13. ChainAt(q)'
  BY <1>2, <1>5, <1>6, <1>7, CellTypes DEF IInv, CellInv, ChainAt, LifeAt
<1>14. HistoryAt(q)'
  BY <1>2, <1>5, <1>6, <1>7, CellTypes DEF IInv, CellInv, HistoryAt, PublishedAt, ClaimedAt, LifeAt
<1> QED BY <1>8, <1>9, <1>10, <1>11, <1>12, <1>13, <1>14 DEF CellInv

\* continueChain finds nothing to do: no wakeup was owed.
LEMMA ClaimReturnsIInv ==
    ASSUME IInv, NEW t \in Threads, Claim(t),
           result[Top(t).cell] = "pending" \/ notify[Top(t).cell] = "null"
    PROVE  IInv'
<1>0. PICK s \in Cells : s = Top(t).cell /\ stack[t] # << >> /\ Top(t).pc = "drive"
  BY TopFrame DEF IInv, Claim, At
<1>1. /\ stack' \in [Threads -> Seq(Frame)]
      /\ \A pcs : \A q \in Cells :
            /\ Somewhere(pcs, q)' => Somewhere(pcs, q)
            /\ Somewhere(pcs, q) /\ ("drive" \notin pcs \/ q # s) => Somewhere(pcs, q)'
            /\ "drive" \in pcs => Somewhere(pcs, s)
            /\ Once(pcs, q) => Once(pcs, q)'
            /\ Once(pcs, s) /\ "drive" \in pcs => ~Somewhere(pcs, s)'
  <2>1. Become(t, << >>)
    BY <1>0 DEF Claim
  <2> QED BY <1>0, <2>1, Pop DEF IInv, TopIs
<1>2. \A q \in Cells : Queued(q)' <=> Queued(q)
  BY SameJobs DEF Claim, history
<1>g. (result[s] = "pending" \/ notify[s] = "null") /\ notify' = notify
  BY <1>0 DEF IInv, TypeOK, Claim, history
<1>3. TypeOK' /\ JobsInv'
  <2>1. TypeOK'
    BY <1>0, <1>1, <1>g DEF IInv, TypeOK, Claim, history
  <2>2. JobsInv'
    BY DEF IInv, JobsInv, Claim, history
  <2> QED BY <2>1, <2>2
<1>4. SUFFICES ASSUME NEW q \in Cells PROVE CellInv(q)'
  BY <1>3 DEF IInv
<1>5. CellInv(q) /\ CellInv(s)
  BY <1>0 DEF IInv
<1>6. /\ result' = result /\ notify' = notify /\ chain' = chain /\ exec' = exec /\ promises' = promises /\ taken' = taken
      /\ handle' = handle /\ life' = life /\ attached' = attached /\ delivered' = delivered /\ dropped' = dropped
  BY <1>g DEF IInv, TypeOK, Claim, history
<1>7. /\ Somewhere({"drive"}, q)' => Somewhere({"drive"}, q)
      /\ Somewhere({"drive"}, s)
      /\ q # s /\ Somewhere({"drive"}, q) => Somewhere({"drive"}, q)'
      /\ Somewhere(ClaimPcs, q)' <=> Somewhere(ClaimPcs, q)
      /\ Somewhere({"exec"}, q)' <=> Somewhere({"exec"}, q)
      /\ Somewhere({"give"}, q)' <=> Somewhere({"give"}, q)
      /\ Somewhere(Pcs, q)' => Somewhere(Pcs, q)
      /\ Somewhere(Pcs, s)
      /\ Somewhere(BreakPcs, q)' <=> Somewhere(BreakPcs, q)
      /\ Once(ClaimPcs, q) => Once(ClaimPcs, q)'
      /\ Once({"give"}, q) => Once({"give"}, q)'
  BY <1>1, PcMembers
<1>8. WakeAt(q)'
  BY <1>2, <1>5, <1>6, <1>7, CellTypes, <1>g DEF IInv, CellInv, WakeAt
<1>9. PublishedAt(q)'
  BY <1>2, <1>5, <1>6, <1>7, CellTypes, <1>g DEF IInv, CellInv, PublishedAt, ClaimedAt, HandleAt
<1>10. ClaimedAt(q)'
  BY <1>2, <1>5, <1>6, <1>7, CellTypes, <1>g DEF IInv, CellInv, ClaimedAt, PublishedAt, HistoryAt
<1>11. HandleAt(q)'
  BY <1>2, <1>5, <1>6, <1>7, CellTypes, <1>g DEF IInv, CellInv, HandleAt, LifeAt
<1>12. LifeAt(q)'
  BY <1>2, <1>5, <1>6, <1>7, CellTypes, <1>g DEF IInv, CellInv, LifeAt, HandleAt
<1>13. ChainAt(q)'
  BY <1>2, <1>5, <1>6, <1>7, CellTypes, <1>g DEF IInv, CellInv, ChainAt, LifeAt
<1>14. HistoryAt(q)'
  BY <1>2, <1>5, <1>6, <1>7, CellTypes, <1>g DEF IInv, CellInv, HistoryAt, PublishedAt, ClaimedAt, LifeAt
<1> QED BY <1>8, <1>9, <1>10, <1>11, <1>12, <1>13, <1>14 DEF CellInv

\* continueChain claims the continuation: from published to carried.
LEMMA ClaimTakesIInv ==
    ASSUME IInv, NEW t \in Threads, Claim(t),
           result[Top(t).cell] # "pending", notify[Top(t).cell] # "null"
    PROVE  IInv'
<1>0. PICK s \in Cells : s = Top(t).cell /\ stack[t] # << >> /\ Top(t).pc = "drive"
  BY TopFrame DEF IInv, Claim, At
<1>1. /\ stack' \in [Threads -> Seq(Frame)]
      /\ \A pcs : \A q \in Cells :
            /\ Somewhere(pcs, q)' => Somewhere(pcs, q) \/ (q = s /\ ("run" \in pcs \/ ("exec" \in pcs /\ exec[s] # "null")))
            /\ Somewhere(pcs, q) /\ (q # s \/ "drive" \notin pcs) => Somewhere(pcs, q)'
            /\ "drive" \in pcs => Somewhere(pcs, s)
            /\ Once(pcs, q) /\ (q # s \/ ~Somewhere(pcs, q) \/ ("run" \notin pcs /\ "exec" \notin pcs)) => Once(pcs, q)'
  <2>1. PICK f \in Frame : /\ Become(t, <<f>>) /\ f.cell = s
                          /\ f.pc = IF exec[s] = "null" THEN "run" ELSE "exec"
    <3>1. notify[s] \in Kinds
      BY <1>0 DEF IInv, TypeOK
    <3>2. [pc |-> IF exec[s] = "null" THEN "run" ELSE "exec", cell |-> s, notif |-> notify[s]] \in Frame
      BY <3>1 DEF Frame, CarryPcs
    <3> QED BY <1>0, <3>2 DEF Claim
  <2> QED BY <1>0, <2>1, BecomeOne DEF IInv, TopIs
<1>2. \A q \in Cells : Queued(q)' <=> Queued(q)
  BY SameJobs DEF Claim, history
<1>g. result[s] # "pending" /\ notify[s] # "null"
  BY <1>0 DEF IInv, TypeOK, Claim, history
<1>3. TypeOK' /\ JobsInv'
  <2>1. TypeOK'
    BY <1>0, <1>1 DEF IInv, TypeOK, Claim, history
  <2>2. JobsInv'
    BY DEF IInv, JobsInv, Claim, history
  <2> QED BY <2>1, <2>2
<1>4. SUFFICES ASSUME NEW q \in Cells PROVE CellInv(q)'
  BY <1>3 DEF IInv
<1>5. CellInv(q) /\ CellInv(s)
  BY <1>0 DEF IInv
<1>6. /\ notify'[q] = IF q = s THEN "null" ELSE notify[q]
      /\ result' = result /\ chain' = chain /\ exec' = exec /\ promises' = promises /\ taken' = taken /\ handle' = handle
      /\ life' = life /\ attached' = attached /\ delivered' = delivered /\ dropped' = dropped
  BY <1>0 DEF IInv, TypeOK, Claim, history
<1>7. /\ q # s /\ Somewhere({"drive"}, q) => Somewhere({"drive"}, q)'
      /\ Somewhere(ClaimPcs, q)' => Somewhere(ClaimPcs, q) \/ q = s
      /\ Somewhere({"exec"}, q)' => Somewhere({"exec"}, q) \/ (q = s /\ exec[s] # "null")
      /\ Somewhere({"give"}, q)' => Somewhere({"give"}, q)
      /\ Somewhere(Pcs, q)' => Somewhere(Pcs, q) \/ q = s
      /\ Somewhere(Pcs, s)
      /\ Somewhere(BreakPcs, q)' => Somewhere(BreakPcs, q)
      /\ Once(ClaimPcs, q) /\ (q # s \/ ~Somewhere(ClaimPcs, q)) => Once(ClaimPcs, q)'
      /\ Once({"give"}, q) => Once({"give"}, q)'
  BY <1>1, PcMembers
<1>8. WakeAt(q)'
  BY <1>2, <1>5, <1>6, <1>7, CellTypes, <1>g DEF IInv, CellInv, WakeAt
<1>9. PublishedAt(q)'
  BY <1>2, <1>5, <1>6, <1>7, CellTypes, <1>g DEF IInv, CellInv, PublishedAt, ClaimedAt, HandleAt
<1>10. ClaimedAt(q)'
  BY <1>2, <1>5, <1>6, <1>7, CellTypes, <1>g DEF IInv, CellInv, ClaimedAt, PublishedAt
<1>11. HandleAt(q)'
  BY <1>2, <1>5, <1>6, <1>7, CellTypes, <1>g DEF IInv, CellInv, HandleAt, LifeAt
<1>12. LifeAt(q)'
  BY <1>2, <1>5, <1>6, <1>7, CellTypes, <1>g DEF IInv, CellInv, LifeAt, HandleAt
<1>13. ChainAt(q)'
  BY <1>2, <1>5, <1>6, <1>7, CellTypes, <1>g DEF IInv, CellInv, ChainAt, LifeAt
<1>14. HistoryAt(q)'
  BY <1>2, <1>5, <1>6, <1>7, CellTypes, <1>g DEF IInv, CellInv, HistoryAt, PublishedAt, ClaimedAt, LifeAt
<1> QED BY <1>8, <1>9, <1>10, <1>11, <1>12, <1>13, <1>14 DEF CellInv

\* An executor defers: from a call to a queued job.
LEMMA DeferIInv ==
    ASSUME IInv, NEW t \in Threads, Defer(t)
    PROVE  IInv'
<1>0. PICK s \in Cells : s = Top(t).cell /\ stack[t] # << >> /\ Top(t).pc = "exec"
  BY TopFrame DEF IInv, Defer, At
<1>1. /\ stack' \in [Threads -> Seq(Frame)]
      /\ \A pcs : \A q \in Cells :
            /\ Somewhere(pcs, q)' => Somewhere(pcs, q)
            /\ Somewhere(pcs, q) /\ ("exec" \notin pcs \/ q # s) => Somewhere(pcs, q)'
            /\ "exec" \in pcs => Somewhere(pcs, s)
            /\ Once(pcs, q) => Once(pcs, q)'
            /\ Once(pcs, s) /\ "exec" \in pcs => ~Somewhere(pcs, s)'
  <2>1. Become(t, << >>)
    BY <1>0 DEF Defer
  <2> QED BY <1>0, <2>1, Pop DEF IInv, TopIs
<1>g. /\ jobs' = jobs \cup {[cell |-> s, notif |-> Top(t).notif]} /\ Top(t).notif \in Kinds
      /\ exec[s] # "null" /\ Somewhere(ClaimPcs, s) /\ CellInv(s)
  BY <1>0, <1>1, TopFrame, PcMembers DEF IInv, TypeOK, Defer, cellVars, history, CarryPcs
<1>2. \A q \in Cells : Queued(q)' <=> Queued(q) \/ q = s
  <2>1. PICK j : j.cell = s /\ jobs' = jobs \cup {j}
    BY <1>g
  <2> QED BY <2>1 DEF Queued
<1>3. TypeOK' /\ JobsInv'
  <2>1. TypeOK'
    BY <1>1, <1>g DEF IInv, TypeOK, Defer, cellVars, history
  <2>2. JobsInv'
    BY <1>g DEF IInv, JobsInv, CellInv, ClaimedAt, Queued
  <2> QED BY <2>1, <2>2
<1>4. SUFFICES ASSUME NEW q \in Cells PROVE CellInv(q)'
  BY <1>3 DEF IInv
<1>5. CellInv(q) /\ CellInv(s)
  BY <1>0 DEF IInv
<1>6. /\ result' = result /\ notify' = notify /\ chain' = chain /\ exec' = exec /\ promises' = promises /\ taken' = taken
      /\ handle' = handle /\ life' = life /\ attached' = attached /\ delivered' = delivered /\ dropped' = dropped
  BY DEF IInv, TypeOK, Defer, cellVars, history
<1>7. /\ Somewhere({"drive"}, q)' <=> Somewhere({"drive"}, q)
      /\ Somewhere(ClaimPcs, q)' => Somewhere(ClaimPcs, q)
      /\ Somewhere(ClaimPcs, s)
      /\ Once(ClaimPcs, s) => ~Somewhere(ClaimPcs, s)'
      /\ q # s /\ Somewhere(ClaimPcs, q) => Somewhere(ClaimPcs, q)'
      /\ Somewhere({"exec"}, q)' => Somewhere({"exec"}, q)
      /\ Somewhere({"exec"}, s)
      /\ Somewhere({"give"}, q)' <=> Somewhere({"give"}, q)
      /\ Somewhere(Pcs, q)' => Somewhere(Pcs, q)
      /\ Somewhere(Pcs, s)
      /\ Somewhere(BreakPcs, q)' <=> Somewhere(BreakPcs, q)
      /\ Once(ClaimPcs, q) => Once(ClaimPcs, q)'
      /\ Once({"give"}, q) => Once({"give"}, q)'
  BY <1>1, PcMembers
<1>8. WakeAt(q)'
  BY <1>2, <1>5, <1>6, <1>7, CellTypes, <1>g DEF IInv, CellInv, WakeAt
<1>9. PublishedAt(q)'
  BY <1>2, <1>5, <1>6, <1>7, CellTypes, <1>g DEF IInv, CellInv, PublishedAt, ClaimedAt, HandleAt
<1>10. ClaimedAt(q)'
  BY <1>2, <1>5, <1>6, <1>7, CellTypes, <1>g DEF IInv, CellInv, ClaimedAt, PublishedAt, HistoryAt
<1>11. HandleAt(q)'
  BY <1>2, <1>5, <1>6, <1>7, CellTypes, <1>g DEF IInv, CellInv, HandleAt, LifeAt
<1>12. LifeAt(q)'
  BY <1>2, <1>5, <1>6, <1>7, CellTypes, <1>g DEF IInv, CellInv, LifeAt
<1>13. ChainAt(q)'
  BY <1>2, <1>5, <1>6, <1>7, CellTypes, <1>g DEF IInv, CellInv, ChainAt, LifeAt
<1>14. HistoryAt(q)'
  BY <1>2, <1>5, <1>6, <1>7, CellTypes, <1>g DEF IInv, CellInv, HistoryAt, PublishedAt, ClaimedAt, LifeAt
<1> QED BY <1>8, <1>9, <1>10, <1>11, <1>12, <1>13, <1>14 DEF CellInv

\* A stopped executor cancels: the continuation is discarded.
LEMMA ExecuteCancelsIInv ==
    ASSUME IInv, NEW t \in Threads, ExecuteStoppable(t), dead
    PROVE  IInv'
<1>0. PICK s \in Cells : s = Top(t).cell /\ stack[t] # << >> /\ Top(t).pc = "exec"
  BY TopFrame DEF IInv, ExecuteStoppable, At
<1>1. /\ stack' \in [Threads -> Seq(Frame)]
      /\ \A pcs : \A q \in Cells :
            /\ Somewhere(pcs, q)' => Somewhere(pcs, q)
            /\ Somewhere(pcs, q) /\ ("exec" \notin pcs \/ q # s) => Somewhere(pcs, q)'
            /\ "exec" \in pcs => Somewhere(pcs, s)
            /\ Once(pcs, q) => Once(pcs, q)'
            /\ Once(pcs, s) /\ "exec" \in pcs => ~Somewhere(pcs, s)'
  <2>1. Become(t, << >>)
    BY <1>0 DEF ExecuteStoppable
  <2> QED BY <1>0, <2>1, Pop DEF IInv, TopIs
<1>2. \A q \in Cells : Queued(q)' <=> Queued(q)
  BY SameJobs DEF ExecuteStoppable, cellVars, history
<1>g. exec[s] # "null" /\ Somewhere(ClaimPcs, s)
  BY <1>0, <1>1, PcMembers DEF IInv, TypeOK, ExecuteStoppable, cellVars, history
<1>3. TypeOK' /\ JobsInv'
  <2>1. TypeOK'
    <3>1. dropped' = [dropped EXCEPT ![s] = @ + 1] /\ dropped \in [Cells -> Nat]
      BY <1>0 DEF IInv, TypeOK, ExecuteStoppable
    <3>2. dropped' \in [Cells -> Nat]
      BY <3>1
    <3> QED BY <1>1, <3>2 DEF IInv, TypeOK, ExecuteStoppable, cellVars, history
  <2>2. JobsInv'
    BY DEF IInv, JobsInv, ExecuteStoppable, cellVars, history
  <2> QED BY <2>1, <2>2
<1>4. SUFFICES ASSUME NEW q \in Cells PROVE CellInv(q)'
  BY <1>3 DEF IInv
<1>5. CellInv(q) /\ CellInv(s)
  BY <1>0 DEF IInv
<1>6. /\ dropped'[q] = IF q = s THEN dropped[s] + 1 ELSE dropped[q]
      /\ result' = result /\ notify' = notify /\ chain' = chain /\ exec' = exec /\ promises' = promises /\ taken' = taken
      /\ handle' = handle /\ life' = life /\ attached' = attached /\ delivered' = delivered
  BY <1>0 DEF IInv, TypeOK, ExecuteStoppable, cellVars, history
<1>7. /\ Somewhere({"drive"}, q)' <=> Somewhere({"drive"}, q)
      /\ Somewhere(ClaimPcs, q)' => Somewhere(ClaimPcs, q)
      /\ Somewhere(ClaimPcs, s)
      /\ Once(ClaimPcs, s) => ~Somewhere(ClaimPcs, s)'
      /\ q # s /\ Somewhere(ClaimPcs, q) => Somewhere(ClaimPcs, q)'
      /\ Somewhere({"exec"}, q)' => Somewhere({"exec"}, q)
      /\ Somewhere({"exec"}, s)
      /\ Somewhere({"give"}, q)' <=> Somewhere({"give"}, q)
      /\ Somewhere(Pcs, q)' => Somewhere(Pcs, q)
      /\ Somewhere(Pcs, s)
      /\ Somewhere(BreakPcs, q)' <=> Somewhere(BreakPcs, q)
      /\ Once(ClaimPcs, q) => Once(ClaimPcs, q)'
      /\ Once({"give"}, q) => Once({"give"}, q)'
  BY <1>1, PcMembers
<1>8. WakeAt(q)'
  BY <1>2, <1>5, <1>6, <1>7, CellTypes, <1>g DEF IInv, CellInv, WakeAt
<1>9. PublishedAt(q)'
  BY <1>2, <1>5, <1>6, <1>7, CellTypes, <1>g DEF IInv, CellInv, PublishedAt, ClaimedAt, HandleAt
<1>10. ClaimedAt(q)'
  BY <1>2, <1>5, <1>6, <1>7, CellTypes, <1>g DEF IInv, CellInv, ClaimedAt, PublishedAt, HistoryAt
<1>11. HandleAt(q)'
  BY <1>2, <1>5, <1>6, <1>7, CellTypes, <1>g DEF IInv, CellInv, HandleAt, LifeAt
<1>12. LifeAt(q)'
  BY <1>2, <1>5, <1>6, <1>7, CellTypes, <1>g DEF IInv, CellInv, LifeAt, HandleAt
<1>13. ChainAt(q)'
  BY <1>2, <1>5, <1>6, <1>7, CellTypes, <1>g DEF IInv, CellInv, ChainAt, LifeAt
<1>14. HistoryAt(q)'
  BY <1>2, <1>5, <1>6, <1>7, CellTypes, <1>g DEF IInv, CellInv, HistoryAt, PublishedAt, ClaimedAt, LifeAt
<1> QED BY <1>8, <1>9, <1>10, <1>11, <1>12, <1>13, <1>14 DEF CellInv

\* A live StoppableExecutor calls the job.
LEMMA ExecuteRunsIInv ==
    ASSUME IInv, NEW t \in Threads, ExecuteStoppable(t), ~dead
    PROVE  IInv'
<1>0. PICK s \in Cells : s = Top(t).cell /\ stack[t] # << >> /\ Top(t).pc = "exec"
  BY TopFrame DEF IInv, ExecuteStoppable, At
<1>1. /\ stack' \in [Threads -> Seq(Frame)]
      /\ \A pcs : \A q \in Cells :
            /\ Somewhere(pcs, q)' => Somewhere(pcs, q) \/ (q = s /\ ("run" \in pcs))
            /\ Somewhere(pcs, q) /\ (q # s \/ "exec" \notin pcs) => Somewhere(pcs, q)'
            /\ "exec" \in pcs => Somewhere(pcs, s)
            /\ Once(pcs, q) /\ (q # s \/ "exec" \in pcs \/ ("run" \notin pcs)) => Once(pcs, q)'
            /\ Once(pcs, s) /\ "exec" \in pcs /\ "run" \notin pcs => ~Somewhere(pcs, s)'
  <2>1. PICK f \in Frame : Become(t, <<f>>) /\ f.cell = s /\ (f.pc = "run")
    <3>1. Top(t).notif \in Kinds
      BY <1>0, TopFrame DEF IInv, CarryPcs
    <3>2. \A x \in CarryPcs : [Top(t) EXCEPT !.pc = x] \in Frame
               /\ [Top(t) EXCEPT !.pc = x].pc = x /\ [Top(t) EXCEPT !.pc = x].cell = s
      BY <1>0, <3>1, TopFrame DEF IInv, Frame, CarryPcs, PlainPcs
    <3> QED BY <1>0, <3>2 DEF ExecuteStoppable, CarryPcs
  <2> QED BY <1>0, <2>1, BecomeOne DEF IInv, TopIs
<1>2. \A q \in Cells : Queued(q)' <=> Queued(q)
  BY SameJobs DEF ExecuteStoppable, cellVars, history
<1>3. TypeOK' /\ JobsInv'
  <2>1. TypeOK'
    BY <1>0, <1>1 DEF IInv, TypeOK, ExecuteStoppable, cellVars, history
  <2>2. JobsInv'
    BY DEF IInv, JobsInv, ExecuteStoppable, cellVars, history
  <2> QED BY <2>1, <2>2
<1>4. SUFFICES ASSUME NEW q \in Cells PROVE CellInv(q)'
  BY <1>3 DEF IInv
<1>5. CellInv(q) /\ CellInv(s)
  BY <1>0 DEF IInv
<1>6. /\ result' = result /\ notify' = notify /\ chain' = chain /\ exec' = exec /\ promises' = promises /\ taken' = taken
      /\ handle' = handle /\ life' = life /\ attached' = attached /\ delivered' = delivered /\ dropped' = dropped
  BY DEF IInv, TypeOK, ExecuteStoppable, cellVars, history
<1>7. /\ Somewhere({"drive"}, q)' <=> Somewhere({"drive"}, q)
      /\ Somewhere(ClaimPcs, q)' => Somewhere(ClaimPcs, q) \/ q = s
      /\ Somewhere(ClaimPcs, s) /\ Somewhere(Pcs, s)
      /\ Somewhere({"exec"}, q)' => Somewhere({"exec"}, q)
      /\ Somewhere({"give"}, q)' <=> Somewhere({"give"}, q)
      /\ Somewhere(Pcs, q)' => Somewhere(Pcs, q) \/ q = s
      /\ Somewhere(BreakPcs, q)' <=> Somewhere(BreakPcs, q)
      /\ Once(ClaimPcs, q) => Once(ClaimPcs, q)'
      /\ Once({"give"}, q) => Once({"give"}, q)'
  BY <1>1, PcMembers
<1>8. WakeAt(q)'
  BY <1>2, <1>5, <1>6, <1>7, CellTypes DEF IInv, CellInv, WakeAt
<1>9. PublishedAt(q)'
  BY <1>2, <1>5, <1>6, <1>7, CellTypes DEF IInv, CellInv, PublishedAt, ClaimedAt, HandleAt
<1>10. ClaimedAt(q)'
  BY <1>2, <1>5, <1>6, <1>7, CellTypes DEF IInv, CellInv, ClaimedAt, PublishedAt, HistoryAt
<1>11. HandleAt(q)'
  BY <1>2, <1>5, <1>6, <1>7, CellTypes DEF IInv, CellInv, HandleAt, LifeAt
<1>12. LifeAt(q)'
  BY <1>2, <1>5, <1>6, <1>7, CellTypes DEF IInv, CellInv, LifeAt, HandleAt
<1>13. ChainAt(q)'
  BY <1>2, <1>5, <1>6, <1>7, CellTypes DEF IInv, CellInv, ChainAt, LifeAt
<1>14. HistoryAt(q)'
  BY <1>2, <1>5, <1>6, <1>7, CellTypes DEF IInv, CellInv, HistoryAt, PublishedAt, ClaimedAt, LifeAt
<1> QED BY <1>8, <1>9, <1>10, <1>11, <1>12, <1>13, <1>14 DEF CellInv

\* notify(self, true): the continuation is delivered.
LEMMA InvokeIInv ==
    ASSUME IInv, NEW t \in Threads, Invoke(t)
    PROVE  IInv'
<1>0. PICK s \in Cells : s = Top(t).cell /\ stack[t] # << >> /\ Top(t).pc = "run"
  BY TopFrame DEF IInv, Invoke, At
<1>1. /\ stack' \in [Threads -> Seq(Frame)]
      /\ \A pcs : \A q \in Cells :
            /\ Somewhere(pcs, q)' => Somewhere(pcs, q) \/ (q = s /\ ("fn" \in pcs \/ "pass" \in pcs))
            /\ Somewhere(pcs, q) /\ (q # s \/ "run" \notin pcs) => Somewhere(pcs, q)'
            /\ "run" \in pcs => Somewhere(pcs, s)
            /\ Once(pcs, q) /\ (q # s \/ "run" \in pcs \/ ("fn" \notin pcs /\ "pass" \notin pcs)) => Once(pcs, q)'
            /\ Once(pcs, s) /\ "run" \in pcs /\ "fn" \notin pcs /\ "pass" \notin pcs => ~Somewhere(pcs, s)'
  <2>1. PICK f \in Frame : Become(t, <<f>>) /\ f.cell = s /\ (f.pc = "fn" \/ f.pc = "pass")
    <3>1. Top(t).notif \in Kinds
      BY <1>0, TopFrame DEF IInv, CarryPcs
    <3>2. \A x \in CarryPcs : [Top(t) EXCEPT !.pc = x] \in Frame
               /\ [Top(t) EXCEPT !.pc = x].pc = x /\ [Top(t) EXCEPT !.pc = x].cell = s
      BY <1>0, <3>1, TopFrame DEF IInv, Frame, CarryPcs, PlainPcs
    <3> QED BY <1>0, <3>2 DEF Invoke, CarryPcs
  <2> QED BY <1>0, <2>1, BecomeOne DEF IInv, TopIs
<1>2. \A q \in Cells : Queued(q)' <=> Queued(q)
  BY SameJobs DEF Invoke, cellVars, history
<1>3. TypeOK' /\ JobsInv'
  <2>1. TypeOK'
    <3>1. delivered' = [delivered EXCEPT ![s] = @ + 1] /\ delivered \in [Cells -> Nat]
      BY <1>0 DEF IInv, TypeOK, Invoke
    <3>2. delivered' \in [Cells -> Nat]
      BY <3>1
    <3> QED BY <1>1, <3>2 DEF IInv, TypeOK, Invoke, cellVars, history
  <2>2. JobsInv'
    BY DEF IInv, JobsInv, Invoke, cellVars, history
  <2> QED BY <2>1, <2>2
<1>4. SUFFICES ASSUME NEW q \in Cells PROVE CellInv(q)'
  BY <1>3 DEF IInv
<1>5. CellInv(q) /\ CellInv(s)
  BY <1>0 DEF IInv
<1>6. /\ delivered'[q] = IF q = s THEN delivered[s] + 1 ELSE delivered[q]
      /\ result' = result /\ notify' = notify /\ chain' = chain /\ exec' = exec /\ promises' = promises /\ taken' = taken
      /\ handle' = handle /\ life' = life /\ attached' = attached /\ dropped' = dropped
  BY <1>0 DEF IInv, TypeOK, Invoke, cellVars, history
<1>7. /\ Somewhere({"drive"}, q)' <=> Somewhere({"drive"}, q)
      /\ Somewhere(ClaimPcs, q)' => Somewhere(ClaimPcs, q)
      /\ Somewhere(ClaimPcs, s) /\ Somewhere(Pcs, s)
      /\ Once(ClaimPcs, s) => ~Somewhere(ClaimPcs, s)'
      /\ Somewhere({"exec"}, q)' => Somewhere({"exec"}, q)
      /\ Somewhere({"give"}, q)' <=> Somewhere({"give"}, q)
      /\ Somewhere(Pcs, q)' => Somewhere(Pcs, q) \/ q = s
      /\ Somewhere(BreakPcs, q)' <=> Somewhere(BreakPcs, q)
      /\ Once(ClaimPcs, q) => Once(ClaimPcs, q)'
      /\ Once({"give"}, q) => Once({"give"}, q)'
  BY <1>1, PcMembers
<1>8. WakeAt(q)'
  BY <1>2, <1>5, <1>6, <1>7, CellTypes DEF IInv, CellInv, WakeAt
<1>9. PublishedAt(q)'
  BY <1>2, <1>5, <1>6, <1>7, CellTypes DEF IInv, CellInv, PublishedAt, ClaimedAt, HandleAt
<1>10. ClaimedAt(q)'
  BY <1>2, <1>5, <1>6, <1>7, CellTypes DEF IInv, CellInv, ClaimedAt, PublishedAt, HistoryAt
<1>11. HandleAt(q)'
  BY <1>2, <1>5, <1>6, <1>7, CellTypes DEF IInv, CellInv, HandleAt, LifeAt
<1>12. LifeAt(q)'
  BY <1>2, <1>5, <1>6, <1>7, CellTypes DEF IInv, CellInv, LifeAt, HandleAt
<1>13. ChainAt(q)'
  BY <1>2, <1>5, <1>6, <1>7, CellTypes DEF IInv, CellInv, ChainAt, LifeAt
<1>14. HistoryAt(q)'
  BY <1>2, <1>5, <1>6, <1>7, CellTypes DEF IInv, CellInv, HistoryAt, PublishedAt, ClaimedAt, LifeAt
<1> QED BY <1>8, <1>9, <1>10, <1>11, <1>12, <1>13, <1>14 DEF CellInv

\* notifyLastImpl returns.
LEMMA ReturnLastIInv ==
    ASSUME IInv, NEW t \in Threads, ReturnLast(t)
    PROVE  IInv'
<1>0. PICK s \in Cells : s = Top(t).cell /\ stack[t] # << >> /\ Top(t).pc = "fn"
  BY TopFrame DEF IInv, ReturnLast, At
<1>1. /\ stack' \in [Threads -> Seq(Frame)]
      /\ \A pcs : \A q \in Cells :
            /\ Somewhere(pcs, q)' => Somewhere(pcs, q)
            /\ Somewhere(pcs, q) /\ ("fn" \notin pcs \/ q # s) => Somewhere(pcs, q)'
            /\ "fn" \in pcs => Somewhere(pcs, s)
            /\ Once(pcs, q) => Once(pcs, q)'
            /\ Once(pcs, s) /\ "fn" \in pcs => ~Somewhere(pcs, s)'
  <2>1. Become(t, << >>)
    BY <1>0 DEF ReturnLast
  <2> QED BY <1>0, <2>1, Pop DEF IInv, TopIs
<1>2. \A q \in Cells : Queued(q)' <=> Queued(q)
  BY SameJobs DEF ReturnLast, cellVars, history
<1>3. TypeOK' /\ JobsInv'
  <2>1. TypeOK'
    BY <1>0, <1>1 DEF IInv, TypeOK, ReturnLast, cellVars, history
  <2>2. JobsInv'
    BY DEF IInv, JobsInv, ReturnLast, cellVars, history
  <2> QED BY <2>1, <2>2
<1>4. SUFFICES ASSUME NEW q \in Cells PROVE CellInv(q)'
  BY <1>3 DEF IInv
<1>5. CellInv(q)
  BY DEF IInv
<1>6. /\ result' = result /\ notify' = notify /\ chain' = chain /\ exec' = exec /\ promises' = promises /\ taken' = taken
      /\ handle' = handle /\ life' = life /\ attached' = attached /\ delivered' = delivered /\ dropped' = dropped
  BY DEF IInv, TypeOK, ReturnLast, cellVars, history
<1>7. /\ Somewhere({"drive"}, q)' <=> Somewhere({"drive"}, q)
      /\ Somewhere(ClaimPcs, q)' <=> Somewhere(ClaimPcs, q)
      /\ Somewhere({"exec"}, q)' <=> Somewhere({"exec"}, q)
      /\ Somewhere({"give"}, q)' <=> Somewhere({"give"}, q)
      /\ Somewhere(Pcs, q)' => Somewhere(Pcs, q)
      /\ Somewhere(Pcs, s)
      /\ Somewhere(BreakPcs, q)' <=> Somewhere(BreakPcs, q)
      /\ Once(ClaimPcs, q) => Once(ClaimPcs, q)'
      /\ Once({"give"}, q) => Once({"give"}, q)'
  BY <1>1, PcMembers
<1>8. WakeAt(q)'
  BY <1>2, <1>5, <1>6, <1>7, CellTypes DEF IInv, CellInv, WakeAt
<1>9. PublishedAt(q)'
  BY <1>2, <1>5, <1>6, <1>7, CellTypes DEF IInv, CellInv, PublishedAt, ClaimedAt, HandleAt
<1>10. ClaimedAt(q)'
  BY <1>2, <1>5, <1>6, <1>7, CellTypes DEF IInv, CellInv, ClaimedAt, PublishedAt, HistoryAt
<1>11. HandleAt(q)'
  BY <1>2, <1>5, <1>6, <1>7, CellTypes DEF IInv, CellInv, HandleAt, LifeAt
<1>12. LifeAt(q)'
  BY <1>2, <1>5, <1>6, <1>7, CellTypes DEF IInv, CellInv, LifeAt, HandleAt
<1>13. ChainAt(q)'
  BY <1>2, <1>5, <1>6, <1>7, CellTypes DEF IInv, CellInv, ChainAt, LifeAt
<1>14. HistoryAt(q)'
  BY <1>2, <1>5, <1>6, <1>7, CellTypes DEF IInv, CellInv, HistoryAt, PublishedAt, ClaimedAt, LifeAt
<1> QED BY <1>8, <1>9, <1>10, <1>11, <1>12, <1>13, <1>14 DEF CellInv

\* A deferred job is called: from a queued job to a call.
LEMMA RunJobIInv ==
    ASSUME IInv, NEW t \in Threads, NEW j \in jobs, RunJob(t, j)
    PROVE  IInv'
<1>0. PICK s \in Cells : s = j.cell /\ Queued(s)
  BY DEF IInv, TypeOK, Queued
<1>1. /\ stack' \in [Threads -> Seq(Frame)]
      /\ \A pcs : \A q \in Cells :
            /\ Somewhere(pcs, q)' <=> Somewhere(pcs, q) \/ ("run" \in pcs /\ q = s)
            /\ Once(pcs, q) /\ (q # s \/ ~Somewhere(pcs, q) \/ "run" \notin pcs) => Once(pcs, q)'
  <2>1. PICK f \in Frame : Call(t, <<f>>) /\ f.cell = s /\ f.pc = "run"
    <3>1. [pc |-> "run", cell |-> j.cell, notif |-> j.notif] \in Frame
      BY DEF IInv, TypeOK, Frame, CarryPcs
    <3> QED BY <1>0, <3>1 DEF RunJob
  <2> QED BY <2>1, CallOne DEF IInv
<1>2. \A q \in Cells : Queued(q)' <=> Queued(q) /\ q # s
  BY <1>0 DEF IInv, JobsInv, RunJob, Queued
<1>g. Queued(s)
  BY <1>0 DEF IInv, TypeOK, RunJob, cellVars, history
<1>3. TypeOK' /\ JobsInv'
  <2>1. TypeOK'
    BY <1>1 DEF IInv, TypeOK, RunJob, cellVars, history
  <2>2. JobsInv'
    BY DEF IInv, JobsInv, RunJob, cellVars, history
  <2> QED BY <2>1, <2>2
<1>4. SUFFICES ASSUME NEW q \in Cells PROVE CellInv(q)'
  BY <1>3 DEF IInv
<1>5. CellInv(q) /\ CellInv(s)
  BY <1>0 DEF IInv
<1>6. /\ result' = result /\ notify' = notify /\ chain' = chain /\ exec' = exec /\ promises' = promises /\ taken' = taken
      /\ handle' = handle /\ life' = life /\ attached' = attached /\ delivered' = delivered /\ dropped' = dropped
  BY DEF IInv, TypeOK, RunJob, cellVars, history
<1>7. /\ Somewhere({"drive"}, q)' <=> Somewhere({"drive"}, q)
      /\ Somewhere(ClaimPcs, q)' <=> Somewhere(ClaimPcs, q) \/ q = s
      /\ Somewhere({"exec"}, q)' <=> Somewhere({"exec"}, q)
      /\ Somewhere({"give"}, q)' <=> Somewhere({"give"}, q)
      /\ Somewhere(Pcs, q)' <=> Somewhere(Pcs, q) \/ q = s
      /\ Somewhere(BreakPcs, q)' <=> Somewhere(BreakPcs, q)
      /\ Once(ClaimPcs, q) /\ (q # s \/ ~Somewhere(ClaimPcs, q)) => Once(ClaimPcs, q)'
      /\ Once({"give"}, q) => Once({"give"}, q)'
  BY <1>1, PcMembers
<1>8. WakeAt(q)'
  BY <1>2, <1>5, <1>6, <1>7, CellTypes, <1>g DEF IInv, CellInv, WakeAt
<1>9. PublishedAt(q)'
  BY <1>2, <1>5, <1>6, <1>7, CellTypes, <1>g DEF IInv, CellInv, PublishedAt, ClaimedAt, HandleAt
<1>10. ClaimedAt(q)'
  BY <1>2, <1>5, <1>6, <1>7, CellTypes, <1>g DEF IInv, CellInv, ClaimedAt, PublishedAt, HistoryAt
<1>11. HandleAt(q)'
  BY <1>2, <1>5, <1>6, <1>7, CellTypes, <1>g DEF IInv, CellInv, HandleAt, LifeAt
<1>12. LifeAt(q)'
  BY <1>2, <1>5, <1>6, <1>7, CellTypes, <1>g DEF IInv, CellInv, LifeAt, HandleAt
<1>13. ChainAt(q)'
  BY <1>2, <1>5, <1>6, <1>7, CellTypes, <1>g DEF IInv, CellInv, ChainAt, LifeAt
<1>14. HistoryAt(q)'
  BY <1>2, <1>5, <1>6, <1>7, CellTypes, <1>g DEF IInv, CellInv, HistoryAt, PublishedAt, ClaimedAt, LifeAt
<1> QED BY <1>8, <1>9, <1>10, <1>11, <1>12, <1>13, <1>14 DEF CellInv

\* Pass and Return: the chain of the cell on top is fulfilled and taken up.
LEMMA SettleIInv ==
    ASSUME IInv, NEW t \in Threads, NEW s \in Cells, NEW r \in Results,
           stack[t] # << >>, Top(t).cell = s, Top(t).pc \in {"fn", "pass"},
           Fulfil(chain[s], r), Become(t, DriveChain(s)),
           UNCHANGED <<notify, chain, exec, promises, taken, handle, life, jobs, dead, history>>
    PROVE  IInv'
<1>0. Top(t).pc = "fn" \/ Top(t).pc = "pass"
  OBVIOUS
<1>1. /\ stack' \in [Threads -> Seq(Frame)]
      /\ \A pcs : \A q \in Cells :
            /\ Somewhere(pcs, q)' => Somewhere(pcs, q) \/ ("drive" \in pcs /\ q = chain[s])
            /\ "drive" \in pcs /\ q = chain[s] => Somewhere(pcs, q)'
            /\ Somewhere(pcs, q) /\ "fn" \notin pcs /\ "pass" \notin pcs => Somewhere(pcs, q)'
            /\ "fn" \in pcs /\ "pass" \in pcs => Somewhere(pcs, s)
            /\ Once(pcs, q) /\ "drive" \notin pcs => Once(pcs, q)'
  <2>1. CASE chain[s] = Null
    <3>1. Become(t, << >>)
      BY <2>1 DEF DriveChain
    <3> QED BY <1>0, <2>1, <3>1, Pop, NullAssumption DEF IInv, TopIs
  <2>2. CASE chain[s] # Null
    <3>1. chain[s] \in Cells /\ Become(t, <<Drive(chain[s])>>)
      BY <2>2, CellTypes DEF DriveChain, IInv
    <3>2. PICK f \in Frame : Become(t, <<f>>) /\ f.pc = "drive" /\ f.cell = chain[s]
      BY <3>1, DriveFrame
    <3> QED BY <1>0, <3>2, BecomeOne DEF IInv, TopIs
  <2> QED BY <2>1, <2>2
<1>2. \A q \in Cells : Queued(q)' <=> Queued(q)
  BY SameJobs
<1>g. /\ result' \in [Cells -> Results]
      /\ \A q \in Cells : \/ result'[q] = result[q]
                          \/ q = chain[s] /\ result[q] = "pending" /\ result'[q] = r
  BY FulfilResult DEF IInv
<1>3. TypeOK' /\ JobsInv'
  <2>1. TypeOK'
    BY <1>1, <1>g DEF IInv, TypeOK, history
  <2>2. JobsInv'
    BY DEF IInv, JobsInv
  <2> QED BY <2>1, <2>2
<1>4. SUFFICES ASSUME NEW q \in Cells PROVE CellInv(q)'
  BY <1>3 DEF IInv
<1>5. CellInv(q) /\ CellInv(s)
  BY DEF IInv
<1>6. /\ result'[q] = result[q] \/ (q = chain[s] /\ result[q] = "pending" /\ result'[q] = r)
      /\ notify' = notify /\ chain' = chain /\ exec' = exec /\ promises' = promises /\ taken' = taken
      /\ handle' = handle /\ life' = life /\ attached' = attached /\ delivered' = delivered /\ dropped' = dropped
  BY <1>g DEF history
<1>7. /\ Somewhere({"drive"}, q)' <=> Somewhere({"drive"}, q) \/ q = chain[s]
      /\ Somewhere(ClaimPcs, q)' <=> Somewhere(ClaimPcs, q)
      /\ Somewhere({"exec"}, q)' <=> Somewhere({"exec"}, q)
      /\ Somewhere({"give"}, q)' <=> Somewhere({"give"}, q)
      /\ Somewhere(Pcs, q)' => Somewhere(Pcs, q) \/ q = chain[s]
      /\ Somewhere(BreakPcs, q)' <=> Somewhere(BreakPcs, q)
      /\ Somewhere(Pcs, s)
      /\ Once(ClaimPcs, q) => Once(ClaimPcs, q)'
      /\ Once({"give"}, q) => Once({"give"}, q)'
  BY <1>1, PcMembers
<1>7a. q = chain[s] => life[q] = "chained" /\ promises[q] = 0
  <2>1. life[s] # "dead"
    BY <1>5, <1>7 DEF CellInv, LifeAt
  <2>2. q = chain[s] => life[q] = "chained"
    BY <1>5, <2>1, NullAssumption DEF CellInv, ChainAt
  <2> QED BY <1>5, <2>2 DEF CellInv, LifeAt
<1>8. WakeAt(q)'
  BY <1>2, <1>5, <1>6, <1>7, CellTypes DEF IInv, CellInv, WakeAt
<1>9. PublishedAt(q)'
  BY <1>2, <1>5, <1>6, <1>7, CellTypes DEF IInv, CellInv, PublishedAt, ClaimedAt, HandleAt
<1>10. ClaimedAt(q)'
  BY <1>2, <1>5, <1>6, <1>7, CellTypes DEF IInv, CellInv, ClaimedAt, PublishedAt, HistoryAt
<1>11. HandleAt(q)'
  BY <1>2, <1>5, <1>6, <1>7, CellTypes DEF IInv, CellInv, HandleAt, LifeAt
<1>12. LifeAt(q)'
  BY <1>2, <1>5, <1>6, <1>7, <1>7a, CellTypes DEF IInv, CellInv, LifeAt, HandleAt
<1>13. ChainAt(q)'
  BY <1>2, <1>5, <1>6, <1>7, CellTypes DEF IInv, CellInv, ChainAt, LifeAt
<1>14. HistoryAt(q)'
  BY <1>2, <1>5, <1>6, <1>7, <1>7a, CellTypes DEF IInv, CellInv, HistoryAt, PublishedAt, ClaimedAt, LifeAt
<1> QED BY <1>8, <1>9, <1>10, <1>11, <1>12, <1>13, <1>14 DEF CellInv

\* notifyForward hands the result to the chain.
LEMMA PassIInv ==
    ASSUME IInv, NEW t \in Threads, Pass(t)
    PROVE  IInv'
<1>0. PICK s \in Cells : s = Top(t).cell /\ stack[t] # << >> /\ Top(t).pc = "pass"
  BY TopFrame DEF IInv, Pass, At
<1>1. result[s] \in Results
  BY DEF IInv, TypeOK
<1>2. Fulfil(chain[s], result[s]) /\ Become(t, DriveChain(s))
  BY <1>0 DEF Pass
<1>3. UNCHANGED <<notify, chain, exec, promises, taken, handle, life, jobs, dead, history>>
  BY DEF Pass
<1> QED BY <1>0, <1>1, <1>2, <1>3, SettleIInv

\* setResult stores what the functor returned or threw in the chain.
LEMMA ReturnIInv ==
    ASSUME IInv, NEW t \in Threads, NEW r \in {"val", "exc"}, Return(t, r)
    PROVE  IInv'
<1>0. PICK s \in Cells : s = Top(t).cell /\ stack[t] # << >> /\ Top(t).pc = "fn"
  BY TopFrame DEF IInv, Return, At
<1>1. r \in Results
  BY DEF Results
<1>2. Fulfil(chain[s], r) /\ Become(t, DriveChain(s))
  BY <1>0 DEF Return
<1>3. UNCHANGED <<notify, chain, exec, promises, taken, handle, life, jobs, dead, history>>
  BY DEF Return
<1> QED BY <1>0, <1>1, <1>2, <1>3, SettleIInv

\* setResult splices a returned future onto the chain with notifyForward.
LEMMA ReturnFutureIInv ==
    ASSUME IInv, NEW t \in Threads, NEW p \in Cells, ReturnFuture(t, p)
    PROVE  IInv'
<1>0. PICK s \in Cells : s = Top(t).cell /\ stack[t] # << >> /\ Top(t).pc = "fn"
  BY TopFrame DEF IInv, ReturnFuture, At
<1>1. /\ stack' \in [Threads -> Seq(Frame)]
      /\ \A pcs : \A q \in Cells :
            /\ Somewhere(pcs, q)' =>
                Somewhere(pcs, q) \/ ("drive" \in pcs /\ (q = chain[s] \/ q = p))
            /\ "drive" \in pcs /\ (q = chain[s] \/ q = p) => Somewhere(pcs, q)'
            /\ Somewhere(pcs, q) /\ "fn" \notin pcs => Somewhere(pcs, q)'
            /\ "fn" \in pcs => Somewhere(pcs, s)
            /\ Once(pcs, q) /\ "drive" \notin pcs => Once(pcs, q)'
  <2>1. CASE chain[s] = Null
    <3>1. Become(t, <<Drive(p)>>)
      BY <1>0, <2>1 DEF ReturnFuture, DriveChain
    <3>2. PICK f \in Frame : Become(t, <<f>>) /\ f.pc = "drive" /\ f.cell = p
      BY <3>1, DriveFrame
    <3> QED BY <1>0, <2>1, <3>2, BecomeOne, NullAssumption DEF IInv, TopIs
  <2>2. CASE chain[s] # Null
    <3>0. chain[s] \in Cells /\ Become(t, <<Drive(chain[s])>> \o <<Drive(p)>>)
      BY <1>0, <2>2, CellTypes DEF ReturnFuture, DriveChain, IInv
    <3>1. Become(t, <<Drive(chain[s]), Drive(p)>>)
      <4>1. <<Drive(chain[s])>> \o <<Drive(p)>> = <<Drive(chain[s]), Drive(p)>>
        BY <3>0, DriveFrame, PairStack
      <4> QED BY <3>0, <4>1
    <3>2. PICK f \in Frame, g \in Frame :
            /\ Become(t, <<f, g>>) /\ f.pc = "drive" /\ g.pc = "drive"
            /\ f.cell = chain[s] /\ g.cell = p
      BY <3>0, <3>1, DriveFrame
    <3> QED BY <1>0, <3>2, BecomeTwo DEF IInv, TopIs
  <2> QED BY <2>1, <2>2
<1>2. \A q \in Cells : Queued(q)' <=> Queued(q)
  BY SameJobs DEF ReturnFuture
<1>g. handle[p] /\ chain[s] \in Cells \cup {Null}
  BY CellTypes DEF IInv, ReturnFuture
<1>3. TypeOK' /\ JobsInv'
  <2>1. TypeOK'
    <3>0. /\ handle' = [handle EXCEPT ![p] = FALSE] /\ chain' = [chain EXCEPT ![p] = chain[s]]
          /\ attached' = [attached EXCEPT ![p] = @ + 1]
          /\ attached \in [Cells -> Nat] /\ handle \in [Cells -> BOOLEAN]
          /\ chain \in [Cells -> Cells \cup {Null}]
      BY <1>0 DEF IInv, TypeOK, ReturnFuture
    <3>1. /\ handle' \in [Cells -> BOOLEAN] /\ chain' \in [Cells -> Cells \cup {Null}]
          /\ attached' \in [Cells -> Nat]
      BY <3>0, <1>g
    <3>2. notify' \in [Cells -> Kinds \cup {"null"}]
      BY DEF IInv, TypeOK, ReturnFuture, Kinds
    <3> QED BY <1>1, <3>1, <3>2 DEF IInv, TypeOK, ReturnFuture
  <2>2. JobsInv'
    BY DEF IInv, JobsInv, ReturnFuture
  <2> QED BY <2>1, <2>2
<1>4. SUFFICES ASSUME NEW q \in Cells PROVE CellInv(q)'
  BY <1>3 DEF IInv
<1>5. CellInv(q) /\ CellInv(s) /\ CellInv(p)
  BY DEF IInv
<1>6. /\ handle'[q] = IF q = p THEN FALSE ELSE handle[q]
      /\ chain'[q] = IF q = p THEN chain[s] ELSE chain[q]
      /\ notify'[q] = IF q = p THEN "forward" ELSE notify[q]
      /\ attached'[q] = IF q = p THEN attached[p] + 1 ELSE attached[q]
      /\ result' = result /\ exec' = exec /\ promises' = promises /\ taken' = taken
      /\ life' = life /\ delivered' = delivered /\ dropped' = dropped
  BY <1>0 DEF IInv, TypeOK, ReturnFuture
<1>7. /\ Somewhere({"drive"}, q)' <=> Somewhere({"drive"}, q) \/ q = chain[s] \/ q = p
      /\ Somewhere(ClaimPcs, q)' <=> Somewhere(ClaimPcs, q)
      /\ Somewhere({"exec"}, q)' <=> Somewhere({"exec"}, q)
      /\ Somewhere({"give"}, q)' <=> Somewhere({"give"}, q)
      /\ Somewhere(Pcs, q)' => Somewhere(Pcs, q) \/ q = chain[s] \/ q = p
      /\ Somewhere(BreakPcs, q)' <=> Somewhere(BreakPcs, q)
      /\ Somewhere(Pcs, s)
      /\ Once(ClaimPcs, q) => Once(ClaimPcs, q)'
      /\ Once({"give"}, q) => Once({"give"}, q)'
  BY <1>1, PcMembers
<1>7a. \A c \in Cells : c = chain[s] => life[c] = "chained" /\ promises[c] = 0
  <2>1. life[s] # "dead"
    BY <1>5, <1>7 DEF CellInv, LifeAt
  <2>2. \A c \in Cells : c = chain[s] => life[c] = "chained"
    BY <1>5, <2>1, NullAssumption DEF CellInv, ChainAt
  <2> QED BY <2>2 DEF IInv, CellInv, LifeAt
<1>7b. /\ attached[p] = 0 /\ delivered[p] = 0 /\ dropped[p] = 0
       /\ ~Somewhere(ClaimPcs, p) /\ ~Queued(p) /\ ~Somewhere({"give"}, p)
       /\ life[p] = "chained" \/ (life[p] = "promised" /\ taken[p])
  BY <1>5, <1>g, CellTypes DEF IInv, CellInv, HandleAt, ClaimedAt, HistoryAt
<1>8. WakeAt(q)'
  BY <1>2, <1>5, <1>6, <1>7, <1>7b, CellTypes DEF IInv, CellInv, WakeAt
<1>9. PublishedAt(q)'
  BY <1>2, <1>5, <1>6, <1>7, <1>7b, CellTypes DEF IInv, CellInv, PublishedAt
<1>10. ClaimedAt(q)'
  BY <1>2, <1>5, <1>6, <1>7, <1>7b, CellTypes DEF IInv, CellInv, ClaimedAt
<1>11. HandleAt(q)'
  BY <1>2, <1>5, <1>6, <1>7, <1>7b, CellTypes DEF IInv, CellInv, HandleAt
<1>12. LifeAt(q)'
  BY <1>2, <1>5, <1>6, <1>7, <1>7a, <1>7b, CellTypes DEF IInv, CellInv, LifeAt
<1>13. ChainAt(q)'
  BY <1>2, <1>5, <1>6, <1>7, <1>7a, <1>7b, <1>g, CellTypes DEF IInv, CellInv, ChainAt
<1>14. HistoryAt(q)'
  BY <1>2, <1>5, <1>6, <1>7, <1>7b, CellTypes DEF IInv, CellInv, HistoryAt
<1> QED BY <1>8, <1>9, <1>10, <1>11, <1>12, <1>13, <1>14 DEF CellInv

-----------------------------------------------------------------------------
\* IInv is inductive.

\* Steps that change nothing of the library.
LEMMA StutterIInv ==
    ASSUME IInv, UNCHANGED vars
    PROVE  IInv'
<1>1. /\ result' = result /\ notify' = notify /\ chain' = chain /\ exec' = exec
      /\ promises' = promises /\ taken' = taken /\ handle' = handle /\ life' = life
      /\ stack' = stack /\ jobs' = jobs /\ dead' = dead
      /\ attached' = attached /\ delivered' = delivered /\ dropped' = dropped
  BY DEF vars, cellVars, history
<1>2. TypeOK' /\ JobsInv'
  BY <1>1 DEF IInv, TypeOK, JobsInv
<1>3. ASSUME NEW s \in Cells PROVE CellInv(s)'
  <2>1. CellInv(s)
    BY DEF IInv
  <2>2. \A pcs : (Somewhere(pcs, s)' <=> Somewhere(pcs, s)) /\ (Once(pcs, s) => Once(pcs, s)')
    BY <1>1, SameStack
  <2>3. Queued(s)' <=> Queued(s)
    BY <1>1, SameJobs
  <2> QED BY <1>1, <2>1, <2>2, <2>3
          DEF CellInv, WakeAt, PublishedAt, ClaimedAt, HandleAt, LifeAt, ChainAt, HistoryAt
<1> QED BY <1>2, <1>3 DEF IInv

\* Whatever user code calls preserves the invariant.
LEMMA UserStepIInv ==
    ASSUME IInv, NEW t \in Threads, UserStep(t)
    PROVE  IInv'
<1>1. CASE Stop(t)
  BY <1>1, StopIInv
<1>2. CASE \E s \in Cells : NewPromise(t, s) \/ CopyPromise(t, s) \/ GetFuture(t, s)
  BY <1>2, NewPromiseIInv, CopyPromiseIInv, GetFutureIInv
<1>3. CASE \E s \in Cells : \E r \in {"val", "exc"} : Resolve(t, s, r)
  BY <1>3, ResolveIInv
<1>4. CASE \E s \in Cells : DropPromise(t, s) \/ DropFuture(t, s)
  BY <1>4, DropPromiseIInv, DropFutureIInv
<1>5. CASE \E s \in Cells : \E k \in {"then", "try"}, e \in Executors, c \in Cells :
             Then(t, s, k, e, c)
  BY <1>5, ThenIInv
<1>6. CASE \E s \in Cells : \E e \in Executors : AtLast(t, s, e)
  BY <1>6, AtLastIInv
<1> QED BY <1>1, <1>2, <1>3, <1>4, <1>5, <1>6 DEF UserStep

\* Whatever the library does inside of a call preserves it.
LEMMA LibraryStepIInv ==
    ASSUME IInv, NEW t \in Threads, LibraryStep(t) \/ ReturnStep(t)
    PROVE  IInv'
<1>1. CASE CheckBroken(t) \/ BreakPromise(t) \/ GiveFuture(t)
  BY <1>1, CheckBrokenIInv, BreakPromiseIInv, GiveFutureIInv
<1>2. CASE Claim(t)
  BY <1>2, ClaimReturnsIInv, ClaimTakesIInv
<1>3. CASE Defer(t)
  BY <1>3, DeferIInv
<1>4. CASE ExecuteStoppable(t)
  BY <1>4, ExecuteCancelsIInv, ExecuteRunsIInv
<1>5. CASE Invoke(t) \/ Pass(t)
  BY <1>5, InvokeIInv, PassIInv
<1>6. CASE ReturnStep(t)
  BY <1>6, ReturnIInv, ReturnFutureIInv, ReturnLastIInv DEF ReturnStep
<1> QED BY <1>1, <1>2, <1>3, <1>4, <1>5, <1>6 DEF LibraryStep

\* Every step of the specification preserves it.
LEMMA NextIInv == IInv /\ [Next]_vars => IInv'
<1> SUFFICES ASSUME IInv, [Next]_vars PROVE IInv'
  OBVIOUS
<1>1. ASSUME NEW t \in Threads, UserStep(t) \/ LibraryStep(t) \/ ReturnStep(t) PROVE IInv'
  BY <1>1, UserStepIInv, LibraryStepIInv
<1>2. CASE ExecutorStep
  BY <1>2, DropJobIInv, RunJobIInv DEF ExecutorStep
<1>3. ASSUME NEW s \in Cells, Destroy(s) PROVE IInv'
  BY <1>3, DestroyIInv
<1>4. CASE UNCHANGED vars
  BY <1>4, StutterIInv
<1> QED BY <1>1, <1>2, <1>3, <1>4 DEF Next

-----------------------------------------------------------------------------
\* What is owed to a chain (ChainAccounted).  The duty to settle the chain of a
\* cell moves with the continuation, and setResult can pass it on just once: to
\* the future the functor returned, whose continuation is notifyForward, which
\* calls no functor.

Running == {"fn", "pass"}

\* f is one of the calls that threads are inside of.
OnStack(f) == \E t \in Threads : \E i \in DOMAIN stack[t] : stack[t][i] = f

\* The continuation of s that is published, claimed or running is a k.
Held(k, s) ==
    \/ notify[s] = k
    \/ \E f \in Frame : OnStack(f) /\ f.cell = s /\ f.notif = k
    \/ [cell |-> s, notif |-> k] \in jobs

\* Settling the chain of s is up to p now, which forwards.
HandedTo(p, s) ==
    /\ p # s /\ chain[p] = chain[s] /\ attached[p] = 1
    /\ \A k \in Kinds : Held(k, p) => k = "forward"
    /\ delivered[p] = 0 \/ Somewhere({"pass"}, p)

\* ChainAccounted for one cell, and what it takes to keep it.
DutyAt(s) ==
    /\ Somewhere(Running, s) => delivered[s] > 0
    /\ delivered[s] > 0 => result[s] # "pending"
    /\ chain[s] # Null => ~Held("last", s)
    /\ delivered[s] > 0 /\ chain[s] # Null =>
        \/ result[chain[s]] # "pending"
        \/ Somewhere(Running, s)
        \/ \E p \in Cells : HandedTo(p, s)

DutyInv == \A s \in Cells : DutyAt(s)

\* No library call is on a stack that was not there or has been pushed.
LEMMA CallCalls ==
    ASSUME TypeOK, NEW t \in Threads, NEW fs \in Seq(Frame),
           Call(t, fs) \/ (stack[t] # << >> /\ Become(t, fs))
    PROVE  \A f : OnStack(f)' => OnStack(f) \/ \E k \in DOMAIN fs : fs[k] = f
<1> DEFINE n == Len(stack[t])
           low == SubSeq(stack[t], 1, n - 1)
<1>1. /\ stack \in [Threads -> Seq(Frame)] /\ stack[t] \in Seq(Frame) /\ n \in Nat
      /\ DOMAIN stack[t] = 1 .. n /\ DOMAIN fs = 1 .. Len(fs) /\ Len(fs) \in Nat
  BY DEF TypeOK
<1>2. \E x \in Seq(Frame) :
        /\ stack' = [stack EXCEPT ![t] = x \o fs]
        /\ \A i \in DOMAIN x : i \in DOMAIN stack[t] /\ x[i] = stack[t][i]
  <2>1. CASE Call(t, fs)
    BY <1>1, <2>1 DEF Call
  <2>2. CASE stack[t] # << >> /\ Become(t, fs)
    <3>1. low \in Seq(Frame) /\ Len(low) = n - 1 /\ \A i \in 1 .. n - 1 : low[i] = stack[t][i]
      BY <1>1, <2>2
    <3>2. stack' = [stack EXCEPT ![t] = low \o fs]
      BY <2>2 DEF Become, Below
    <3>3. \A i \in DOMAIN low : i \in DOMAIN stack[t] /\ low[i] = stack[t][i]
      BY <1>1, <2>2, <3>1
    <3> QED BY <3>1, <3>2, <3>3
  <2> QED BY <2>1, <2>2
<1>3. PICK x \in Seq(Frame) :
        /\ stack' = [stack EXCEPT ![t] = x \o fs]
        /\ \A i \in DOMAIN x : i \in DOMAIN stack[t] /\ x[i] = stack[t][i]
  BY <1>2
<1>4. stack'[t] = x \o fs /\ \A u \in Threads : u # t => stack'[u] = stack[u]
  BY <1>1, <1>3
<1>5. Len(x) \in Nat /\ DOMAIN x = 1 .. Len(x)
  OBVIOUS
<1>6. DOMAIN stack'[t] = 1 .. Len(x) + Len(fs)
  BY <1>4, ConcatStack
<1>7. \A i \in 1 .. Len(x) + Len(fs) : stack'[t][i] = IF i <= Len(x) THEN x[i] ELSE fs[i - Len(x)]
  BY <1>4, ConcatStack
<1>8. \A i \in DOMAIN stack'[t] :
        \/ i \in DOMAIN x /\ stack'[t][i] = x[i]
        \/ i - Len(x) \in DOMAIN fs /\ stack'[t][i] = fs[i - Len(x)]
  BY <1>1, <1>5, <1>6, <1>7
<1> QED BY <1>3, <1>4, <1>8 DEF OnStack

\* A step that leaves the stacks alone leaves the calls alone.
LEMMA SameCalls ==
    ASSUME stack' = stack
    PROVE  \A f : OnStack(f)' <=> OnStack(f)
BY DEF OnStack

\* Entering calls that do not run a continuation, from one that does not either.
LEMMA StillRunning ==
    ASSUME TypeOK, NEW t \in Threads, NEW fs \in Seq(Frame),
           \/ Call(t, fs)
           \/ stack[t] # << >> /\ Top(t).pc \notin Running /\ Become(t, fs),
           \A k \in DOMAIN fs : fs[k].pc \notin Running
    PROVE  \A s \in Cells : /\ Somewhere(Running, s)' <=> Somewhere(Running, s)
                            /\ Somewhere({"pass"}, s)' <=> Somewhere({"pass"}, s)
<1>1. ASSUME NEW pcs, pcs = Running \/ pcs = {"pass"}, NEW s \in Cells
      PROVE  Somewhere(pcs, s)' <=> Somewhere(pcs, s)
  <2>1. ~Adds(fs, pcs, s)
    BY <1>1 DEF Adds, Running
  <2>2. CASE Call(t, fs)
    BY <2>1, <2>2, CallStack
  <2>3. CASE stack[t] # << >> /\ Top(t).pc \notin Running /\ Become(t, fs)
    <3>1. ~TopIs(t, pcs, s)
      BY <1>1, <2>3 DEF TopIs, Running
    <3> QED BY <2>1, <2>3, <3>1, BecomeStack
  <2> QED BY <2>2, <2>3
<1> QED BY <1>1

\* A step keeps what is held where it is held: continuations are moved, not made.
Keeps == \A s \in Cells, k \in Kinds : Held(k, s)' => Held(k, s)

\* What is published, queued and carried after a step was held before it.
LEMMA KeepsIf ==
    ASSUME TypeOK, TypeOK',
           \A s \in Cells : notify'[s] = notify[s] \/ notify'[s] = "null",
           \A j \in jobs' : j \in jobs \/ Held(j.notif, j.cell),
           \A f \in Frame : OnStack(f)' => OnStack(f) \/ f.notif = "null" \/ Held(f.notif, f.cell)
    PROVE  Keeps
<1> SUFFICES ASSUME NEW s \in Cells, NEW k \in Kinds, Held(k, s)' PROVE Held(k, s)
  BY DEF Keeps
<1>1. k # "null"
  BY DEF Kinds, UserKinds
<1>2. CASE notify'[s] = k
  BY <1>1, <1>2 DEF Held
<1>3. CASE \E f \in Frame : OnStack(f)' /\ f.cell = s /\ f.notif = k
  BY <1>1, <1>3 DEF Held
<1>4. CASE [cell |-> s, notif |-> k] \in jobs'
  <2>1. PICK j \in jobs' : j = [cell |-> s, notif |-> k]
    BY <1>4
  <2>2. j.cell = s /\ j.notif = k
    BY <2>1
  <2> QED BY <2>1, <2>2 DEF Held
<1> QED BY <1>2, <1>3, <1>4 DEF Held

\* The steps that neither attach nor run a continuation.
Quiet ==
    /\ \A s \in Cells : result[s] # "pending" => result'[s] # "pending"
    /\ chain' = chain /\ attached' = attached /\ delivered' = delivered
    /\ \A s \in Cells : /\ Somewhere(Running, s)' <=> Somewhere(Running, s)
                        /\ Somewhere({"pass"}, s)' <=> Somewhere({"pass"}, s)
    /\ Keeps

\* They keep the duty.
LEMMA QuietDuty ==
    ASSUME IInv, DutyInv, Quiet
    PROVE  DutyInv'
<1> SUFFICES ASSUME NEW s \in Cells PROVE DutyAt(s)'
  BY DEF DutyInv
<1>1. DutyAt(s)
  BY DEF DutyInv
<1>2. chain[s] # Null => chain[s] \in Cells
  BY CellTypes DEF IInv
<1>3. \A p \in Cells : HandedTo(p, s) => HandedTo(p, s)'
  BY DEF HandedTo, Quiet, Keeps
<1>4. "last" \in Kinds
  BY DEF Kinds, UserKinds
<1> QED BY <1>1, <1>2, <1>3, <1>4 DEF DutyAt, Quiet, Keeps

-----------------------------------------------------------------------------
\* Every action keeps the duty.

\* At first nothing was delivered.
LEMMA InitDuty == Init => DutyInv
BY DEF Init, DutyInv, DutyAt, Held, OnStack, Somewhere

\* Fulfilling settles, it never unsettles.
LEMMA FulfilKeeps ==
    ASSUME TypeOK, NEW s, NEW r, Fulfil(s, r), r # "pending"
    PROVE  \A q \in Cells : result[q] # "pending" => result'[q] # "pending"
BY DEF TypeOK, Fulfil

\* A step that calls nothing and takes no job up is quiet if it attaches nothing.
LEMMA NoCallDuty ==
    ASSUME IInv, DutyInv, IInv', stack' = stack, jobs' \subseteq jobs,
           \A s \in Cells : notify'[s] = notify[s] \/ notify'[s] = "null",
           UNCHANGED <<result, chain, attached, delivered>>
    PROVE  DutyInv'
<1>1. Keeps
  BY SameCalls, KeepsIf DEF IInv
<1>2. Quiet
  BY <1>1, SameStack DEF Quiet
<1> QED BY <1>2, QuietDuty

\* A step that enters or returns to a call that carries nothing is quiet as well.
LEMMA PlainDuty ==
    ASSUME IInv, DutyInv, IInv', NEW t \in Threads, NEW fs \in Seq(Frame),
           \/ Call(t, fs)
           \/ stack[t] # << >> /\ Top(t).pc \notin Running /\ Become(t, fs),
           \A k \in DOMAIN fs : fs[k].pc \in PlainPcs,
           \A q \in Cells : result[q] # "pending" => result'[q] # "pending",
           UNCHANGED <<notify, jobs, chain, attached, delivered>>
    PROVE  DutyInv'
<1>1. \A k \in DOMAIN fs : fs[k].pc \notin Running /\ fs[k].notif = "null"
  <2>1. \A f \in Frame : f.pc \in PlainPcs => f.pc \notin Running /\ f.notif = "null"
    BY DEF Frame, PlainPcs, CarryPcs, Running
  <2> QED BY <2>1
<1>2. \A f \in Frame : OnStack(f)' => OnStack(f) \/ f.notif = "null"
  BY <1>1, CallCalls DEF IInv
<1>3. Keeps
  BY <1>2, KeepsIf DEF IInv
<1>4. Quiet
  BY <1>1, <1>3, StillRunning DEF Quiet, IInv
<1> QED BY <1>4, QuietDuty

\* A continuation that is held is passed on to a call.
LEMMA CarryDuty ==
    ASSUME IInv, DutyInv, IInv', NEW t \in Threads, NEW c \in Frame, NEW fs \in Seq(Frame),
           \/ Call(t, fs)
           \/ stack[t] # << >> /\ Top(t).pc \notin Running /\ Become(t, fs),
           \A k \in DOMAIN fs : fs[k] = c,
           c.pc \notin Running, Held(c.notif, c.cell), jobs' \subseteq jobs,
           \A s \in Cells : notify'[s] = notify[s] \/ notify'[s] = "null",
           UNCHANGED <<result, chain, attached, delivered>>
    PROVE  DutyInv'
<1>1. \A g \in Frame : OnStack(g)' => OnStack(g) \/ g = c
  BY CallCalls DEF IInv
<1>2. Keeps
  BY <1>1, KeepsIf DEF IInv
<1>3. \A s \in Cells : /\ Somewhere(Running, s)' <=> Somewhere(Running, s)
                       /\ Somewhere({"pass"}, s)' <=> Somewhere({"pass"}, s)
  <2>1. \A k \in DOMAIN fs : fs[k].pc \notin Running
    OBVIOUS
  <2> QED BY <2>1, StillRunning DEF IInv
<1>4. Quiet
  BY <1>2, <1>3 DEF Quiet
<1> QED BY <1>4, QuietDuty

\* The call on top is one of the calls.
LEMMA TopOnStack ==
    ASSUME TypeOK, NEW t \in Threads, stack[t] # << >>
    PROVE  OnStack(Top(t)) /\ (Top(t).pc \in CarryPcs => Held(Top(t).notif, Top(t).cell))
<1>1. stack[t] \in Seq(Frame) /\ Len(stack[t]) \in DOMAIN stack[t]
  BY DEF TypeOK
<1> QED BY <1>1, TopFrame DEF OnStack, Top, Held

\* What user code does without attaching anything, and what executors and ~Base drop.
LEMMA UserQuietDuty ==
    ASSUME IInv, DutyInv, IInv',
           \/ \E t \in Threads : Stop(t)
           \/ \E t \in Threads, s \in Cells :
                 NewPromise(t, s) \/ CopyPromise(t, s) \/ GetFuture(t, s) \/ DropFuture(t, s)
           \/ \E s \in Cells : Destroy(s)
           \/ \E j \in jobs : DropJob(j)
           \/ UNCHANGED vars
    PROVE  DutyInv'
<1>1. stack' = stack /\ jobs' \subseteq jobs /\ UNCHANGED <<result, chain, attached, delivered>>
  BY DEF NewPromise, CopyPromise, GetFuture, DropFuture, Stop, Destroy, DropJob, vars, cellVars, history
<1>2. notify' = notify \/ \E s \in Cells : notify' = [notify EXCEPT ![s] = "null"]
  BY DEF NewPromise, CopyPromise, GetFuture, DropFuture, Stop, Destroy, DropJob, vars, cellVars
<1>3. \A q \in Cells : notify'[q] = notify[q] \/ notify'[q] = "null"
  BY <1>2 DEF IInv, TypeOK
<1> QED BY <1>1, <1>3, NoCallDuty

\* A call of a few that carry nothing.
LEMMA PlainSeq ==
    ASSUME NEW s \in Cells, NEW pc \in PlainPcs, NEW fs, fs = << >> \/ fs = <<Plain(pc, s)>>
    PROVE  fs \in Seq(Frame) /\ \A k \in DOMAIN fs : fs[k].pc \in PlainPcs
<1>1. Plain(pc, s) \in Frame /\ Plain(pc, s).pc = pc
  BY PlainFrame
<1>2. CASE fs = << >>
  BY <1>2
<1>3. CASE fs = <<Plain(pc, s)>>
  BY <1>1, <1>3
<1> QED BY <1>2, <1>3

\* Resolving and dropping promises.
LEMMA PromiseDuty ==
    ASSUME IInv, DutyInv, IInv', NEW t \in Threads,
           NEW s \in Cells, (\E r \in {"val", "exc"} : Resolve(t, s, r)) \/ DropPromise(t, s)
    PROVE  DutyInv'
<1>1. UNCHANGED <<notify, jobs, chain, attached, delivered>>
  BY DEF Resolve, DropPromise, history
<1>2. \A q \in Cells : result[q] # "pending" => result'[q] # "pending"
  BY FulfilKeeps DEF Resolve, DropPromise, IInv
<1>3. PICK pc, fs : pc \in PlainPcs /\ (fs = << >> \/ fs = <<Plain(pc, s)>>) /\ Call(t, fs)
  BY DEF Resolve, DropPromise, Drive, PlainPcs
<1>4. fs \in Seq(Frame) /\ \A k \in DOMAIN fs : fs[k].pc \in PlainPcs
  BY <1>3, PlainSeq
<1> QED BY <1>1, <1>2, <1>3, <1>4, PlainDuty

\* deref, Then and Try that return, and continueChain with nothing to do.
LEMMA LibraryQuietDuty ==
    ASSUME IInv, DutyInv, IInv', NEW t \in Threads,
           \/ CheckBroken(t) \/ BreakPromise(t) \/ GiveFuture(t)
           \/ Claim(t) /\ (result[Top(t).cell] = "pending" \/ notify[Top(t).cell] = "null")
    PROVE  DutyInv'
<1>1. PICK s \in Cells : s = Top(t).cell /\ stack[t] # << >> /\ Top(t).pc \notin Running
  BY TopFrame DEF IInv, CheckBroken, BreakPromise, GiveFuture, Claim, At, Running
<1>2. UNCHANGED <<notify, jobs, chain, attached, delivered>>
  BY DEF CheckBroken, BreakPromise, GiveFuture, Claim, cellVars, history
<1>3. \A q \in Cells : result[q] # "pending" => result'[q] # "pending"
  BY FulfilKeeps DEF CheckBroken, BreakPromise, GiveFuture, Claim, cellVars, IInv
<1>4. PICK pc, fs : pc \in PlainPcs /\ (fs = << >> \/ fs = <<Plain(pc, s)>>) /\ Become(t, fs)
  BY <1>1 DEF CheckBroken, BreakPromise, GiveFuture, Claim, Drive, PlainPcs
<1>5. fs \in Seq(Frame) /\ \A k \in DOMAIN fs : fs[k].pc \in PlainPcs
  BY <1>4, PlainSeq
<1> QED BY <1>1, <1>2, <1>3, <1>4, <1>5, PlainDuty

\* A call that carries a continuation.
LEMMA CarrySeq ==
    ASSUME NEW s \in Cells, NEW k \in Kinds, NEW pc \in CarryPcs, NEW c, NEW fs,
           c = [pc |-> pc, cell |-> s, notif |-> k], fs = <<c>>
    PROVE  /\ c \in Frame /\ c.pc = pc /\ c.cell = s /\ c.notif = k
           /\ fs \in Seq(Frame) /\ \A i \in DOMAIN fs : fs[i] = c
BY DEF Frame

\* continueChain claims the continuation, an executor runs it or takes it up.
LEMMA CarriedDuty ==
    ASSUME IInv, DutyInv, IInv', NEW t \in Threads,
           \/ Claim(t) /\ result[Top(t).cell] # "pending" /\ notify[Top(t).cell] # "null"
           \/ ExecuteStoppable(t) /\ ~dead
           \/ \E j \in jobs : RunJob(t, j)
    PROVE  DutyInv'
<1>1. CASE Claim(t) /\ result[Top(t).cell] # "pending" /\ notify[Top(t).cell] # "null"
  <2>1. PICK s \in Cells, k \in Kinds :
            s = Top(t).cell /\ stack[t] # << >> /\ Top(t).pc = "drive" /\ k = notify[s]
    BY <1>1, TopFrame DEF IInv, Claim, At, TypeOK
  <2>2. PICK pc, c, fs :
            /\ pc \in {"run", "exec"}
            /\ c = [pc |-> pc, cell |-> s, notif |-> k] /\ fs = <<c>> /\ Become(t, fs)
    BY <1>1, <2>1 DEF Claim
  <2>3. notify' = [notify EXCEPT ![s] = "null"]
    BY <1>1, <2>1 DEF Claim
  <2>4. pc \in CarryPcs /\ pc \notin Running /\ Top(t).pc \notin Running
    BY <2>1, <2>2 DEF CarryPcs, Running
  <2>5. Held(k, s)
    BY <2>1 DEF Held
  <2>6. \A q \in Cells : notify'[q] = notify[q] \/ notify'[q] = "null"
    BY <2>3 DEF IInv, TypeOK
  <2>7. jobs' \subseteq jobs /\ UNCHANGED <<result, chain, attached, delivered>>
    BY <1>1 DEF Claim, history
  <2>8. /\ c \in Frame /\ c.pc = pc /\ c.cell = s /\ c.notif = k
        /\ fs \in Seq(Frame) /\ \A i \in DOMAIN fs : fs[i] = c
    BY <2>2, <2>4, CarrySeq
  <2> QED BY <2>1, <2>2, <2>4, <2>5, <2>6, <2>7, <2>8, CarryDuty
<1>2. CASE ExecuteStoppable(t) /\ ~dead
  <2>1. PICK s \in Cells, k \in Kinds :
            /\ s = Top(t).cell /\ k = Top(t).notif /\ stack[t] # << >>
            /\ Top(t).pc = "exec" /\ Top(t) \in Frame
    BY <1>2, TopFrame DEF IInv, ExecuteStoppable, At, CarryPcs
  <2>2. [Top(t) EXCEPT !.pc = "run"] = [pc |-> "run", cell |-> s, notif |-> k]
    BY <2>1 DEF Frame, CarryPcs, PlainPcs
  <2>3. PICK c, fs : c = [pc |-> "run", cell |-> s, notif |-> k] /\ fs = <<c>> /\ Become(t, fs)
    BY <1>2, <2>2 DEF ExecuteStoppable
  <2>4. "run" \in CarryPcs /\ "run" \notin Running /\ Top(t).pc \notin Running /\ Top(t).pc \in CarryPcs
    BY <2>1 DEF CarryPcs, Running
  <2>5. Held(k, s)
    BY <2>1, <2>4, TopOnStack DEF IInv
  <2>6. jobs' \subseteq jobs /\ UNCHANGED <<notify, result, chain, attached, delivered>>
    BY <1>2 DEF ExecuteStoppable, cellVars
  <2>7. /\ c \in Frame /\ c.pc = "run" /\ c.cell = s /\ c.notif = k
        /\ fs \in Seq(Frame) /\ \A i \in DOMAIN fs : fs[i] = c
    BY <2>3, <2>4, CarrySeq
  <2> QED BY <2>1, <2>3, <2>4, <2>5, <2>6, <2>7, CarryDuty
<1>3. ASSUME NEW j \in jobs, RunJob(t, j) PROVE DutyInv'
  <2>1. PICK s \in Cells, k \in Kinds : s = j.cell /\ k = j.notif /\ j = [cell |-> s, notif |-> k]
    BY DEF IInv, TypeOK
  <2>2. PICK c, fs : c = [pc |-> "run", cell |-> s, notif |-> k] /\ fs = <<c>> /\ Call(t, fs)
    BY <1>3, <2>1 DEF RunJob
  <2>3. "run" \in CarryPcs /\ "run" \notin Running
    BY DEF CarryPcs, Running
  <2>4. Held(k, s)
    BY <2>1 DEF Held
  <2>5. jobs' \subseteq jobs /\ UNCHANGED <<notify, result, chain, attached, delivered>>
    BY <1>3 DEF RunJob, cellVars, history
  <2>6. /\ c \in Frame /\ c.pc = "run" /\ c.cell = s /\ c.notif = k
        /\ fs \in Seq(Frame) /\ \A i \in DOMAIN fs : fs[i] = c
    BY <2>2, <2>3, CarrySeq
  <2> QED BY <2>2, <2>3, <2>4, <2>5, <2>6, CarryDuty
<1> QED BY <1>1, <1>2, <1>3

\* An executor that defers keeps the continuation, one that is stopped drops it.
LEMMA ExecutorDuty ==
    ASSUME IInv, DutyInv, IInv', NEW t \in Threads,
           Defer(t) \/ (ExecuteStoppable(t) /\ dead)
    PROVE  DutyInv'
<1>1. PICK fs \in Seq(Frame) : fs = << >> /\ Become(t, fs) /\ DOMAIN fs = {}
  <2>1. Become(t, << >>)
    BY DEF Defer, ExecuteStoppable
  <2>2. << >> \in Seq(Frame) /\ DOMAIN << >> = {}
    OBVIOUS
  <2> QED BY <2>1, <2>2
<1>2. /\ stack[t] # << >> /\ Top(t).pc = "exec" /\ Top(t).pc \notin Running
      /\ Top(t).pc \in CarryPcs /\ UNCHANGED <<result, notify, chain, attached, delivered>>
  BY DEF Defer, ExecuteStoppable, At, Running, CarryPcs, cellVars, history
<1>3. Held(Top(t).notif, Top(t).cell)
  BY <1>2, TopOnStack DEF IInv
<1>4. \A j \in jobs' : j \in jobs \/ Held(j.notif, j.cell)
  BY <1>3 DEF Defer, ExecuteStoppable
<1>5. \A f \in Frame : OnStack(f)' => OnStack(f)
  BY <1>1, <1>2, CallCalls DEF IInv
<1>6. Keeps
  BY <1>2, <1>4, <1>5, KeepsIf DEF IInv
<1>7. \A k \in DOMAIN fs : fs[k].pc \notin Running
  BY <1>1
<1>8. Quiet
  BY <1>1, <1>2, <1>6, <1>7, StillRunning DEF Quiet, IInv
<1> QED BY <1>8, QuietDuty

\* Whoever holds a Future may attach to a cell that nothing was attached to.
LEMMA NobodyHolds ==
    ASSUME IInv, DutyInv, NEW p \in Cells, handle[p]
    PROVE  /\ attached[p] = 0 /\ delivered[p] = 0 /\ ~Somewhere(Running, p)
           /\ \A k \in Kinds : ~Held(k, p)
<1>1. attached[p] = 0 /\ delivered[p] = 0 /\ CellInv(p) /\ DutyAt(p)
  BY CellTypes DEF IInv, CellInv, HandleAt, HistoryAt, DutyInv
<1>2. ~Somewhere(Running, p) /\ ~Somewhere(ClaimPcs, p) /\ ~Queued(p)
  BY <1>1 DEF DutyAt, CellInv, ClaimedAt
<1>3. notify[p] = "null"
  BY <1>1 DEF IInv, CellInv, PublishedAt, TypeOK
<1>4. ASSUME NEW f \in Frame, OnStack(f), f.cell = p PROVE f.notif = "null"
  <2>1. f.pc \notin CarryPcs
    BY <1>2, <1>4 DEF OnStack, Somewhere, Working, Running, ClaimPcs, CarryPcs
  <2> QED BY <2>1 DEF Frame
<1>5. ASSUME NEW k \in Kinds PROVE ~Held(k, p)
  <2>1. k # "null"
    BY DEF Kinds, UserKinds
  <2>2. [cell |-> p, notif |-> k] \notin jobs
    BY <1>2 DEF Queued
  <2> QED BY <1>3, <1>4, <2>1, <2>2 DEF Held
<1> QED BY <1>1, <1>2, <1>5

\* install and setResult publish k on p, whose result goes to c from now on.
Publishes(p, k, c) ==
    /\ notify' = [notify EXCEPT ![p] = k]
    /\ chain' = [chain EXCEPT ![p] = c]
    /\ attached' = [attached EXCEPT ![p] = @ + 1]
    /\ result' = result /\ delivered' = delivered

\* The cells that are not published on see nothing of it.
LEMMA PublishElsewhere ==
    ASSUME IInv, DutyInv, NEW p \in Cells, handle[p], NEW k \in Kinds, NEW c \in Cells \cup {Null},
           Publishes(p, k, c), jobs' = jobs,
           \A f \in Frame : OnStack(f)' => OnStack(f) \/ f.notif = "null"
    PROVE  /\ \A q \in Cells, l \in Kinds : Held(l, q)' => Held(l, q) \/ (q = p /\ l = k)
           /\ chain'[p] = c /\ attached'[p] = 1 /\ attached[p] = 0 /\ delivered[p] = 0
           /\ \A q \in Cells : q # p => chain'[q] = chain[q] /\ attached'[q] = attached[q]
<1>1. attached[p] = 0 /\ delivered[p] = 0 /\ \A l \in Kinds : ~Held(l, p)
  BY NobodyHolds
<1>2. /\ chain \in [Cells -> Cells \cup {Null}] /\ attached \in [Cells -> Nat]
      /\ notify \in [Cells -> Kinds \cup {"null"}]
  BY DEF IInv, TypeOK
<1>3. chain'[p] = c /\ attached'[p] = 1 /\ notify'[p] = k
  BY <1>1, <1>2 DEF Publishes
<1>4. \A q \in Cells : q # p => chain'[q] = chain[q] /\ attached'[q] = attached[q] /\ notify'[q] = notify[q]
  BY <1>2 DEF Publishes
<1>5. ASSUME NEW q \in Cells, NEW l \in Kinds, Held(l, q)' PROVE Held(l, q) \/ (q = p /\ l = k)
  <2>1. l # "null"
    BY DEF Kinds, UserKinds
  <2>2. CASE notify'[q] = l
    BY <1>3, <1>4, <2>2 DEF Held
  <2>3. CASE \E f \in Frame : OnStack(f)' /\ f.cell = q /\ f.notif = l
    BY <2>1, <2>3 DEF Held
  <2>4. CASE [cell |-> q, notif |-> l] \in jobs'
    BY <2>4 DEF Held
  <2> QED BY <1>5, <2>2, <2>3, <2>4 DEF Held
<1> QED BY <1>1, <1>3, <1>4, <1>5

\* Attaching to a cell nothing was delivered from owes nothing.
LEMMA PublishDuty ==
    ASSUME IInv, DutyInv, NEW p \in Cells, handle[p], NEW k \in Kinds, NEW c \in Cells \cup {Null},
           k = "last" => c = Null,
           Publishes(p, k, c), jobs' = jobs,
           \A f \in Frame : OnStack(f)' => OnStack(f) \/ f.notif = "null",
           \A q \in Cells : (Somewhere(Running, q)' <=> Somewhere(Running, q)),
           \A q \in Cells : (Somewhere({"pass"}, q)' <=> Somewhere({"pass"}, q))
    PROVE  DutyInv'
<1> SUFFICES ASSUME NEW q \in Cells PROVE DutyAt(q)'
  BY DEF DutyInv
<1>1. DutyAt(q)
  BY DEF DutyInv
<1>2. /\ \A w \in Cells, l \in Kinds : Held(l, w)' => Held(l, w) \/ (w = p /\ l = k)
      /\ chain'[p] = c /\ attached'[p] = 1 /\ attached[p] = 0 /\ delivered[p] = 0
      /\ \A w \in Cells : w # p => chain'[w] = chain[w] /\ attached'[w] = attached[w]
      /\ \A l \in Kinds : ~Held(l, p)
  BY PublishElsewhere, NobodyHolds
<1>3. result' = result /\ delivered' = delivered /\ "last" \in Kinds
  BY DEF Publishes, Kinds, UserKinds
<1>4. CASE q = p
  BY <1>1, <1>2, <1>3, <1>4 DEF DutyAt
<1>5. CASE q # p
  <2>1. \A w \in Cells : HandedTo(w, q) => HandedTo(w, q)'
    BY <1>2, <1>3, <1>5 DEF HandedTo
  <2>2. chain'[q] = chain[q]
    BY <1>2, <1>5
  <2>3. Held("last", q)' => Held("last", q)
    BY <1>2, <1>3, <1>5
  <2> QED BY <1>1, <1>3, <2>1, <2>2, <2>3 DEF DutyAt
<1> QED BY <1>4, <1>5

\* Then, Try, AtLast and Catch.
LEMMA AttachDuty ==
    ASSUME IInv, DutyInv, NEW t \in Threads, NEW s \in Cells,
           \/ \E k \in {"then", "try"}, e \in Executors, c \in Cells : Then(t, s, k, e, c)
           \/ \E e \in Executors : AtLast(t, s, e)
    PROVE  DutyInv'
<1>1. PICK k \in Kinds, c \in Cells \cup {Null}, fs \in Seq(Frame) :
        /\ handle[s]
        /\ k = "last" => c = Null
        /\ Publishes(s, k, c) /\ jobs' = jobs
        /\ Call(t, fs) /\ \A i \in DOMAIN fs : fs[i].pc \in PlainPcs
  <2>1. CASE \E k \in {"then", "try"}, e \in Executors, c \in Cells : Then(t, s, k, e, c)
    <3>1. PICK k \in {"then", "try"}, e \in Executors, c \in Cells : Then(t, s, k, e, c)
      BY <2>1
    <3>2. k \in Kinds /\ k # "last"
      BY DEF Kinds, UserKinds
    <3>3. handle[s] /\ Publishes(s, k, c) /\ jobs' = jobs
      BY <3>1 DEF Then, Publish, Publishes
    <3>4. PICK f \in Frame, g \in Frame : f = Plain("give", c) /\ g = Drive(s)
      BY PlainFrame, DriveFrame DEF PlainPcs
    <3>5. f.pc \in PlainPcs /\ g.pc \in PlainPcs
      BY <3>4, PlainFrame, DriveFrame DEF PlainPcs
    <3>6. <<f, g>> \in Seq(Frame) /\ \A i \in DOMAIN <<f, g>> : <<f, g>>[i].pc \in PlainPcs
      BY <3>5
    <3>7. Call(t, <<f, g>>)
      BY <3>1, <3>4 DEF Then
    <3> QED BY <3>2, <3>3, <3>6, <3>7
  <2>2. CASE \E e \in Executors : AtLast(t, s, e)
    <3>1. PICK e \in Executors : AtLast(t, s, e)
      BY <2>2
    <3>2. "last" \in Kinds
      BY DEF Kinds, UserKinds
    <3>3. handle[s] /\ Publishes(s, "last", Null) /\ jobs' = jobs
      BY <3>1 DEF AtLast, Publish, Publishes
    <3>4. PICK f \in Frame : f = Drive(s)
      BY DriveFrame
    <3>5. f.pc \in PlainPcs
      BY <3>4, DriveFrame DEF PlainPcs
    <3>6. <<f>> \in Seq(Frame) /\ \A i \in DOMAIN <<f>> : <<f>>[i].pc \in PlainPcs
      BY <3>5
    <3>7. Call(t, <<f>>)
      BY <3>1, <3>4 DEF AtLast
    <3> QED BY <3>2, <3>3, <3>6, <3>7
  <2> QED BY <2>1, <2>2
<1>2. \A i \in DOMAIN fs : fs[i].pc \notin Running /\ fs[i].notif = "null"
  <2>1. \A f \in Frame : f.pc \in PlainPcs => f.pc \notin Running /\ f.notif = "null"
    BY DEF Frame, PlainPcs, CarryPcs, Running
  <2> QED BY <1>1, <2>1
<1>3. \A f \in Frame : OnStack(f)' => OnStack(f) \/ f.notif = "null"
  BY <1>1, <1>2, CallCalls DEF IInv
<1>4. \A q \in Cells : /\ Somewhere(Running, q)' <=> Somewhere(Running, q)
                       /\ Somewhere({"pass"}, q)' <=> Somewhere({"pass"}, q)
  BY <1>1, <1>2, StillRunning DEF IInv
<1> QED BY <1>1, <1>3, <1>4, PublishDuty

\* notify(self, true) is entered: the result of the cell is consumed.
LEMMA InvokeDuty ==
    ASSUME IInv, DutyInv, IInv', NEW t \in Threads, Invoke(t)
    PROVE  DutyInv'
<1>1. PICK s \in Cells, k \in Kinds :
        /\ s = Top(t).cell /\ k = Top(t).notif /\ stack[t] # << >>
        /\ Top(t).pc = "run" /\ Top(t) \in Frame
  BY TopFrame DEF IInv, Invoke, At, CarryPcs
<1>2. PICK pc \in Running : [Top(t) EXCEPT !.pc = IF Bypasses(Top(t)) THEN "pass" ELSE "fn"]
                                = [pc |-> pc, cell |-> s, notif |-> k]
                            /\ (k = "forward" => pc = "pass")
  BY <1>1 DEF Frame, CarryPcs, PlainPcs, Running, Bypasses
<1>3. PICK c, fs : c = [pc |-> pc, cell |-> s, notif |-> k] /\ fs = <<c>> /\ Become(t, fs)
  BY <1>2 DEF Invoke
<1>4. pc \in CarryPcs /\ Top(t).pc \in CarryPcs /\ Top(t).pc \notin Running /\ Top(t).pc \in ClaimPcs
  BY <1>1 DEF CarryPcs, Running, ClaimPcs
<1>5. /\ c \in Frame /\ c.pc = pc /\ c.cell = s /\ c.notif = k
      /\ fs \in Seq(Frame) /\ \A i \in DOMAIN fs : fs[i] = c
  BY <1>3, <1>4, CarrySeq
<1>6. Held(k, s)
  BY <1>1, <1>4, TopOnStack DEF IInv
<1>7. Keeps
  <2>1. \A f \in Frame : OnStack(f)' => OnStack(f) \/ f = c
    <3>1. TypeOK /\ fs \in Seq(Frame) /\ stack[t] # << >> /\ Become(t, fs)
      BY <1>1, <1>3, <1>5 DEF IInv
    <3>2. \A f : OnStack(f)' => OnStack(f) \/ \E i \in DOMAIN fs : fs[i] = f
      BY <3>1, CallCalls
    <3> QED BY <1>5, <3>2
  <2>2. notify' = notify /\ jobs' = jobs
    BY DEF Invoke, cellVars
  <2> QED BY <1>5, <1>6, <2>1, <2>2, KeepsIf DEF IInv
<1>8. /\ result' = result /\ chain' = chain /\ attached' = attached
      /\ delivered' = [delivered EXCEPT ![s] = @ + 1] /\ delivered \in [Cells -> Nat]
  BY <1>1 DEF Invoke, cellVars, IInv, TypeOK
<1>9. result[s] # "pending" /\ delivered[s] = 0 /\ attached[s] = 1
  <2>1. Somewhere(ClaimPcs, s)
    BY <1>1, <1>4, BecomeStack, <1>3, <1>5 DEF TopIs, IInv
  <2> QED BY <2>1 DEF IInv, CellInv, ClaimedAt
<1>10. Somewhere({pc}, s)' /\ Somewhere(Running, s)'
  <2>1. <<c>> \in Seq(Frame) /\ Adds(fs, {pc}, s) /\ Adds(fs, Running, s)
    <3>1. 1 \in DOMAIN fs
      BY <1>3
    <3> QED BY <1>3, <1>5, <3>1 DEF Adds
  <2> QED BY <1>1, <1>3, <1>5, <2>1, BecomeStack DEF IInv
<1>11. \A q \in Cells : q # s =>
        /\ Somewhere(Running, q)' => Somewhere(Running, q)
        /\ Somewhere(Running, q) => Somewhere(Running, q)'
        /\ Somewhere({"pass"}, q) => Somewhere({"pass"}, q)'
  <2> SUFFICES ASSUME NEW q \in Cells, q # s
               PROVE  /\ Somewhere(Running, q)' => Somewhere(Running, q)
                      /\ Somewhere(Running, q) => Somewhere(Running, q)'
                      /\ Somewhere({"pass"}, q) => Somewhere({"pass"}, q)'
    OBVIOUS
  <2>1. \A pcs : ~Adds(fs, pcs, q) /\ ~TopIs(t, pcs, q)
    BY <1>1, <1>5 DEF Adds, TopIs
  <2> QED BY <1>1, <1>3, <1>5, <2>1, BecomeStack DEF IInv
<1> SUFFICES ASSUME NEW q \in Cells PROVE DutyAt(q)'
  BY DEF DutyInv
<1>12. DutyAt(q) /\ "last" \in Kinds /\ delivered[q] \in Nat
  BY <1>8 DEF DutyInv, Kinds, UserKinds
<1>13. CASE q = s
  BY <1>7, <1>8, <1>9, <1>10, <1>12, <1>13 DEF DutyAt, Keeps
<1>14. CASE q # s
  <2>1. ASSUME NEW w \in Cells, HandedTo(w, q) PROVE HandedTo(w, q)'
    <3>1. w = s => k = "forward"
      BY <1>6, <2>1 DEF HandedTo
    <3>2. w = s => Somewhere({"pass"}, w)'
      BY <1>2, <1>10, <3>1
    <3>3. w # s => delivered'[w] = delivered[w]
      BY <1>8
    <3>4. delivered'[w] = 0 \/ Somewhere({"pass"}, w)'
      BY <1>11, <2>1, <3>2, <3>3 DEF HandedTo
    <3>5. \A l \in Kinds : Held(l, w)' => l = "forward"
      BY <1>7, <2>1 DEF HandedTo, Keeps
    <3> QED BY <1>8, <2>1, <3>4, <3>5 DEF HandedTo
  <2>2. delivered'[q] = delivered[q]
    BY <1>8, <1>14
  <2>3. Held("last", q)' => Held("last", q)
    BY <1>7, <1>12 DEF Keeps
  <2> QED BY <1>8, <1>11, <1>12, <1>14, <2>1, <2>2, <2>3 DEF DutyAt
<1> QED BY <1>13, <1>14

\* What returning from a continuation leaves on the stacks.
LEMMA ReturnStack ==
    ASSUME TypeOK, NEW t \in Threads, NEW s \in Cells, NEW fs \in Seq(Frame),
           stack[t] # << >>, Top(t).cell = s, Top(t).pc \in Running, Become(t, fs),
           \A i \in DOMAIN fs : fs[i].pc \in PlainPcs
    PROVE  /\ Somewhere(Running, s)
           /\ \A q \in Cells : Somewhere(Running, q)' => Somewhere(Running, q)
           /\ \A q \in Cells : q # s => (Somewhere(Running, q) => Somewhere(Running, q)')
           /\ \A q \in Cells : q # s \/ Top(t).pc # "pass" =>
                                  (Somewhere({"pass"}, q) => Somewhere({"pass"}, q)')
           /\ \A f \in Frame : OnStack(f)' => OnStack(f) \/ f.notif = "null"
<1>1. \A f \in Frame : f.pc \in PlainPcs => f.pc \notin Running /\ f.notif = "null"
  BY DEF Frame, PlainPcs, CarryPcs, Running
<1>2. \A i \in DOMAIN fs : fs[i].pc \notin Running /\ fs[i].notif = "null"
  BY <1>1
<1>3. \A q \in Cells : ~Adds(fs, Running, q) /\ ~Adds(fs, {"pass"}, q)
  BY <1>2 DEF Adds, Running
<1>4. \A q \in Cells : /\ TopIs(t, Running, q) <=> q = s
                       /\ TopIs(t, {"pass"}, q) <=> q = s /\ Top(t).pc = "pass"
  BY DEF TopIs
<1>5. \A f \in Frame : OnStack(f)' => OnStack(f) \/ f.notif = "null"
  BY <1>2, CallCalls
<1>6. \A q \in Cells : /\ Somewhere(Running, q)' => Somewhere(Running, q)
                       /\ Somewhere(Running, q) => Somewhere(Running, q)' \/ TopIs(t, Running, q)
                       /\ TopIs(t, Running, q) => Somewhere(Running, q)
                       /\ Somewhere({"pass"}, q) => Somewhere({"pass"}, q)' \/ TopIs(t, {"pass"}, q)
  BY <1>3, BecomeStack
<1> QED BY <1>4, <1>5, <1>6

\* setResult stores a result in the chain, and notifyForward does.
LEMMA SettleDuty ==
    ASSUME IInv, DutyInv, IInv', NEW t \in Threads, NEW s \in Cells, NEW r \in Results,
           r # "pending", stack[t] # << >>, Top(t).cell = s, Top(t).pc \in Running,
           Fulfil(chain[s], r), Become(t, DriveChain(s)),
           UNCHANGED <<notify, chain, jobs, attached, delivered>>
    PROVE  DutyInv'
<1>1. PICK fs \in Seq(Frame) : Become(t, fs) /\ \A i \in DOMAIN fs : fs[i].pc \in PlainPcs
  <2>1. CASE chain[s] = Null
    <3>1. << >> \in Seq(Frame) /\ DriveChain(s) = << >> /\ DOMAIN << >> = {}
      BY <2>1 DEF DriveChain
    <3> QED BY <3>1
  <2>2. CASE chain[s] # Null
    <3>1. chain[s] \in Cells
      BY <2>2, CellTypes DEF IInv
    <3>2. PICK f \in Frame : f = Drive(chain[s]) /\ f.pc \in PlainPcs
      BY <3>1, DriveFrame DEF PlainPcs
    <3>3. <<f>> \in Seq(Frame) /\ DriveChain(s) = <<f>> /\ \A i \in DOMAIN <<f>> : <<f>>[i].pc \in PlainPcs
      BY <2>2, <3>2 DEF DriveChain
    <3> QED BY <3>3
  <2> QED BY <2>1, <2>2
<1>2. /\ \A q \in Cells : Somewhere(Running, q)' => Somewhere(Running, q)
      /\ \A q \in Cells : q # s => (Somewhere(Running, q) => Somewhere(Running, q)')
      /\ \A q \in Cells : q # s => (Somewhere({"pass"}, q) => Somewhere({"pass"}, q)')
      /\ \A f \in Frame : OnStack(f)' => OnStack(f) \/ f.notif = "null"
  BY <1>1, ReturnStack DEF IInv
<1>3. \A q \in Cells : result[q] # "pending" => result'[q] # "pending"
  BY FulfilKeeps DEF IInv
<1>4. chain[s] # Null => chain[s] \in Cells /\ result'[chain[s]] # "pending"
  BY CellTypes, FulfilResult DEF IInv
<1>5. Keeps
  BY <1>2, KeepsIf DEF IInv
<1> SUFFICES ASSUME NEW q \in Cells PROVE DutyAt(q)'
  BY DEF DutyInv
<1>6. DutyAt(q) /\ "last" \in Kinds /\ (chain[q] # Null => chain[q] \in Cells)
  BY CellTypes DEF DutyInv, Kinds, UserKinds, IInv
<1>7. CASE chain[q] = chain[s]
  BY <1>2, <1>3, <1>4, <1>5, <1>6, <1>7 DEF DutyAt, Keeps
<1>8. CASE chain[q] # chain[s]
  <2>1. \A w \in Cells : HandedTo(w, q) => HandedTo(w, q)'
    BY <1>2, <1>5, <1>8 DEF HandedTo, Keeps
  <2> QED BY <1>2, <1>3, <1>5, <1>6, <1>8, <2>1 DEF DutyAt, Keeps
<1> QED BY <1>7, <1>8

\* The functor returned or threw, or was not called: setResult, notifyForward.
LEMMA ReturnDuty ==
    ASSUME IInv, DutyInv, IInv', NEW t \in Threads,
           Pass(t) \/ \E r \in {"val", "exc"} : Return(t, r)
    PROVE  DutyInv'
<1>1. PICK s \in Cells : s = Top(t).cell /\ stack[t] # << >> /\ Top(t).pc \in Running
  BY TopFrame DEF IInv, Pass, Return, At, Running
<1>2. UNCHANGED <<notify, chain, jobs, attached, delivered>>
  BY DEF Pass, Return, history
<1>3. CASE Pass(t)
  <2>1. Somewhere(Running, s)
    <3>1. stack[t] \in Seq(Frame) /\ Len(stack[t]) \in DOMAIN stack[t]
      BY <1>1 DEF IInv, TypeOK
    <3> QED BY <1>1, <3>1 DEF Somewhere, Working, Top
  <2>2. result[s] # "pending" /\ result[s] \in Results
    BY <2>1, CellTypes DEF DutyInv, DutyAt, IInv, TypeOK
  <2>3. Fulfil(chain[s], result[s]) /\ Become(t, DriveChain(s))
    BY <1>1, <1>3 DEF Pass
  <2> QED BY <1>1, <1>2, <2>2, <2>3, SettleDuty
<1>4. ASSUME NEW r \in {"val", "exc"}, Return(t, r) PROVE DutyInv'
  <2>1. r \in Results /\ r # "pending"
    BY DEF Results
  <2>2. Fulfil(chain[s], r) /\ Become(t, DriveChain(s))
    BY <1>1, <1>4 DEF Return
  <2> QED BY <1>1, <1>2, <2>1, <2>2, SettleDuty
<1> QED BY <1>3, <1>4

\* notifyLastImpl: whoever attached with AtLast gave the cell no chain.
LEMMA ReturnLastDuty ==
    ASSUME IInv, DutyInv, IInv', NEW t \in Threads, ReturnLast(t)
    PROVE  DutyInv'
<1>1. PICK s \in Cells : /\ s = Top(t).cell /\ stack[t] # << >> /\ Top(t).pc = "fn"
                         /\ Top(t).notif = "last"
  BY TopFrame DEF IInv, ReturnLast, At
<1>2. "fn" \in Running /\ "fn" \in CarryPcs /\ "last" \in Kinds
  BY DEF Running, CarryPcs, Kinds, UserKinds
<1>3. PICK fs \in Seq(Frame) : Become(t, fs) /\ \A i \in DOMAIN fs : fs[i].pc \in PlainPcs
  <2>1. << >> \in Seq(Frame) /\ DOMAIN << >> = {} /\ Become(t, << >>)
    BY DEF ReturnLast
  <2> QED BY <2>1
<1>4. /\ \A q \in Cells : Somewhere(Running, q)' => Somewhere(Running, q)
      /\ \A q \in Cells : q # s => (Somewhere(Running, q) => Somewhere(Running, q)')
      /\ \A q \in Cells : Somewhere({"pass"}, q) => Somewhere({"pass"}, q)'
      /\ \A f \in Frame : OnStack(f)' => OnStack(f) \/ f.notif = "null"
  BY <1>1, <1>2, <1>3, ReturnStack DEF IInv
<1>5. UNCHANGED <<result, notify, chain, jobs, attached, delivered>>
  BY DEF ReturnLast, cellVars, history
<1>6. Keeps
  BY <1>4, <1>5, KeepsIf DEF IInv
<1>7. chain[s] = Null
  <2>1. Held("last", s)
    BY <1>1, <1>2, TopOnStack DEF IInv
  <2> QED BY <2>1 DEF DutyInv, DutyAt
<1> SUFFICES ASSUME NEW q \in Cells PROVE DutyAt(q)'
  BY DEF DutyInv
<1>8. DutyAt(q)
  BY DEF DutyInv
<1>9. \A w \in Cells : HandedTo(w, q) => HandedTo(w, q)'
  BY <1>4, <1>5, <1>6 DEF HandedTo, Keeps
<1> QED BY <1>2, <1>4, <1>5, <1>6, <1>7, <1>8, <1>9 DEF DutyAt, Keeps

\* setResult hands the duty to the future the functor returned.
LEMMA ReturnFutureDuty ==
    ASSUME IInv, DutyInv, IInv', NEW t \in Threads, NEW p \in Cells, ReturnFuture(t, p)
    PROVE  DutyInv'
<1>1. PICK s \in Cells : s = Top(t).cell /\ stack[t] # << >> /\ Top(t).pc = "fn"
  BY TopFrame DEF IInv, ReturnFuture, At
<1>2. "fn" \in Running /\ "forward" \in Kinds /\ "forward" # "last" /\ "last" \in Kinds
  BY DEF Running, Kinds, UserKinds
<1>3. PICK fs \in Seq(Frame) : Become(t, fs) /\ \A i \in DOMAIN fs : fs[i].pc \in PlainPcs
  <2>1. PICK f \in Frame : f = Drive(p) /\ f.pc \in PlainPcs
    BY DriveFrame DEF PlainPcs
  <2>2. Become(t, DriveChain(s) \o <<f>>)
    BY <1>1, <2>1 DEF ReturnFuture
  <2>3. CASE chain[s] = Null
    <3>1. << >> \o <<f>> = <<f>> /\ <<f>> \in Seq(Frame) /\ \A i \in DOMAIN <<f>> : <<f>>[i].pc \in PlainPcs
      BY <2>1
    <3> QED BY <2>2, <2>3, <3>1 DEF DriveChain
  <2>4. CASE chain[s] # Null
    <3>1. chain[s] \in Cells
      BY <2>4, CellTypes DEF IInv
    <3>2. PICK g \in Frame : g = Drive(chain[s]) /\ g.pc \in PlainPcs
      BY <3>1, DriveFrame DEF PlainPcs
    <3>3. DriveChain(s) \o <<f>> = <<g, f>>
      BY <2>4, <3>2, PairStack DEF DriveChain
    <3>4. <<g, f>> \in Seq(Frame) /\ \A i \in DOMAIN <<g, f>> : <<g, f>>[i].pc \in PlainPcs
      BY <2>1, <3>2
    <3> QED BY <2>2, <3>3, <3>4
  <2> QED BY <2>3, <2>4
<1>4. /\ Somewhere(Running, s)
      /\ \A q \in Cells : Somewhere(Running, q)' => Somewhere(Running, q)
      /\ \A q \in Cells : q # s => (Somewhere(Running, q) => Somewhere(Running, q)')
      /\ \A q \in Cells : Somewhere({"pass"}, q) => Somewhere({"pass"}, q)'
      /\ \A f \in Frame : OnStack(f)' => OnStack(f) \/ f.notif = "null"
  BY <1>1, <1>2, <1>3, ReturnStack DEF IInv
<1>5. handle[p] /\ chain[s] \in Cells \cup {Null} /\ Publishes(p, "forward", chain[s]) /\ jobs' = jobs
  BY <1>1, CellTypes DEF IInv, ReturnFuture, Publishes
<1>6. /\ \A w \in Cells, l \in Kinds : Held(l, w)' => Held(l, w) \/ (w = p /\ l = "forward")
      /\ chain'[p] = chain[s] /\ attached'[p] = 1 /\ attached[p] = 0 /\ delivered[p] = 0
      /\ \A w \in Cells : w # p => chain'[w] = chain[w] /\ attached'[w] = attached[w]
      /\ \A l \in Kinds : ~Held(l, p)
      /\ ~Somewhere(Running, p)
  BY <1>2, <1>4, <1>5, PublishElsewhere, NobodyHolds
<1>7. result' = result /\ delivered' = delivered
  BY <1>5 DEF Publishes
<1>8. p # s
  BY <1>4, <1>6
<1> SUFFICES ASSUME NEW q \in Cells PROVE DutyAt(q)'
  BY DEF DutyInv
<1>9. DutyAt(q)
  BY DEF DutyInv
<1>10. CASE q = p
  BY <1>2, <1>4, <1>6, <1>7, <1>9, <1>10 DEF DutyAt
<1>11. CASE q = s
  <2>1. HandedTo(p, s)'
    BY <1>6, <1>7, <1>8 DEF HandedTo
  <2> QED BY <1>2, <1>4, <1>6, <1>7, <1>8, <1>9, <1>11, <2>1 DEF DutyAt
<1>12. CASE q # p /\ q # s
  <2>1. \A w \in Cells : HandedTo(w, q) => HandedTo(w, q)'
    BY <1>4, <1>6, <1>7, <1>12 DEF HandedTo
  <2> QED BY <1>2, <1>4, <1>6, <1>7, <1>9, <1>12, <2>1 DEF DutyAt
<1> QED BY <1>10, <1>11, <1>12

\* Every step of the specification keeps the duty.
LEMMA NextDuty == IInv /\ DutyInv /\ [Next]_vars => DutyInv'
<1> SUFFICES ASSUME IInv, DutyInv, [Next]_vars PROVE DutyInv'
  OBVIOUS
<1>1. IInv'
  BY NextIInv
<1>2. ASSUME NEW t \in Threads, UserStep(t) PROVE DutyInv'
  <2>1. CASE Stop(t)
    BY <1>1, <2>1, UserQuietDuty
  <2>2. ASSUME NEW s \in Cells, NewPromise(t, s) \/ CopyPromise(t, s) \/ GetFuture(t, s) \/ DropFuture(t, s)
        PROVE  DutyInv'
    BY <1>1, <2>2, UserQuietDuty
  <2>3. ASSUME NEW s \in Cells, (\E r \in {"val", "exc"} : Resolve(t, s, r)) \/ DropPromise(t, s)
        PROVE  DutyInv'
    BY <1>1, <2>3, PromiseDuty
  <2>4. ASSUME NEW s \in Cells,
               \/ \E k \in {"then", "try"}, e \in Executors, c \in Cells : Then(t, s, k, e, c)
               \/ \E e \in Executors : AtLast(t, s, e)
        PROVE  DutyInv'
    BY <2>4, AttachDuty
  <2> QED BY <1>2, <2>1, <2>2, <2>3, <2>4 DEF UserStep
<1>3. ASSUME NEW t \in Threads, LibraryStep(t) PROVE DutyInv'
  <2>1. CASE CheckBroken(t) \/ BreakPromise(t) \/ GiveFuture(t)
    BY <1>1, <2>1, LibraryQuietDuty
  <2>2. CASE Claim(t)
    BY <1>1, <2>2, LibraryQuietDuty, CarriedDuty
  <2>3. CASE Defer(t) \/ ExecuteStoppable(t)
    BY <1>1, <2>3, ExecutorDuty, CarriedDuty
  <2>4. CASE Invoke(t) \/ Pass(t)
    BY <1>1, <2>4, InvokeDuty, ReturnDuty
  <2> QED BY <1>3, <2>1, <2>2, <2>3, <2>4 DEF LibraryStep
<1>4. ASSUME NEW t \in Threads, ReturnStep(t) PROVE DutyInv'
  BY <1>1, <1>4, ReturnDuty, ReturnFutureDuty, ReturnLastDuty DEF ReturnStep
<1>5. ASSUME NEW j \in jobs, DropJob(j) \/ \E t \in Threads : RunJob(t, j) PROVE DutyInv'
  BY <1>1, <1>5, UserQuietDuty, CarriedDuty
<1>6. ASSUME NEW s \in Cells, Destroy(s) PROVE DutyInv'
  BY <1>1, <1>6, UserQuietDuty
<1>7. CASE UNCHANGED vars
  BY <1>1, <1>7, UserQuietDuty
<1> QED BY <1>2, <1>3, <1>4, <1>5, <1>6, <1>7 DEF Next, ExecutorStep

-----------------------------------------------------------------------------
\* The theorems.

\* Every reachable state of the promises, futures and executors satisfies the
\* token argument: the inductive invariant the other theorems rest on.
THEOREM TokenInvariant == Spec => []IInv
BY InitIInv, NextIInv, PTL DEF Spec

\* The fields of the shared states, the call stacks and the executor's queue
\* keep their types, for any number of threads, cells and executors.
THEOREM TypeCorrect == Spec => []TypeOK
<1>1. IInv => TypeOK
  BY DEF IInv
<1> QED BY <1>1, TokenInvariant, PTL

\* The race of SharedPromise::operator() with Future::install loses no wakeup.
THEOREM NeverLosesWakeup == Spec => []NoLostWakeup
<1>1. IInv => NoLostWakeup
  BY DEF IInv, CellInv, WakeAt, NoLostWakeup
<1> QED BY <1>1, TokenInvariant, PTL

\* No continuation is run twice, deleted twice, or run after it was deleted,
\* whichever threads drive continueChain on its cell.
THEOREM RunsAtMostOnce == Spec => []AtMostOnce
<1>1. IInv => AtMostOnce
  BY DEF IInv, CellInv, HistoryAt, AtMostOnce
<1> QED BY <1>1, TokenInvariant, PTL

\* ~Base throws away an inline continuation only if its cell was never
\* fulfilled.
THEOREM DropsOnlyUnresolved == Spec => []DroppedOnlyUnresolved
<1>1. IInv => DroppedOnlyUnresolved
  BY DEF IInv, CellInv, HistoryAt, DroppedOnlyUnresolved
<1> QED BY <1>1, TokenInvariant, PTL

\* deref's unlocked window never breaks a promise somebody still holds.
THEOREM BreaksOnlyAbandoned == Spec => []BrokenOnlyWhenAbandoned
<1>1. ASSUME NEW s \in Cells, Somewhere({"break"}, s) PROVE Somewhere(BreakPcs, s)
  BY <1>1 DEF Somewhere, Working, BreakPcs
<1>2. IInv => BrokenOnlyWhenAbandoned
  BY <1>1 DEF IInv, CellInv, LifeAt, BrokenOnlyWhenAbandoned
<1> QED BY <1>2, TokenInvariant, PTL

\* A Future object is an exclusive right to attach: neither the "Then() Called
\* Twice" exit of install nor an overwrite in setResult is reachable.
THEOREM FutureIsExclusive == Spec => []FutureOwnsCell
<1>1. IInv => FutureOwnsCell
  BY DEF IInv, CellInv, HandleAt, PublishedAt, FutureOwnsCell
<1> QED BY <1>1, TokenInvariant, PTL

\* The duty to settle a chain is never lost, at most handed on once.
THEOREM ChainsAreSettled == Spec => []ChainAccounted
<1>1. Init => IInv /\ DutyInv
  BY InitIInv, InitDuty
<1>2. IInv /\ DutyInv /\ [Next]_vars => IInv' /\ DutyInv'
  BY NextIInv, NextDuty
<1>3. DutyInv => ChainAccounted
  BY DEF DutyInv, DutyAt, HandedTo, Running, ChainAccounted
<1> QED BY <1>1, <1>2, <1>3, PTL DEF Spec

-----------------------------------------------------------------------------
\* The refinement.  The shared states of promises and futures implement the
\* abstract cell of module FutureCell: a write-once result with a one-shot
\* continuation.  The mapping is the identity on result, attached, delivered and
\* dropped; all else of Future is hidden.  Every action changes at most one of
\* these four, at one cell, and the inductive invariant gives the guard the
\* abstract step asks for.

\* The invariant, for the continuation that the call on top carries.
LEMMA CarriedIsWaiting ==
    ASSUME IInv, NEW s \in Cells, Somewhere(ClaimPcs, s) \/ Queued(s)
    PROVE  Abstract!Waiting(s) /\ result[s] # "pending"
BY DEF IInv, CellInv, ClaimedAt, Abstract!Waiting

\* A call on top is somewhere.
LEMMA TopSomewhere ==
    ASSUME TypeOK, NEW t \in Threads, NEW pcs, stack[t] # << >>, Top(t).pc \in pcs
    PROVE  Top(t).cell \in Cells /\ Somewhere(pcs, Top(t).cell)
<1>1. stack[t] \in Seq(Frame) /\ Len(stack[t]) \in DOMAIN stack[t]
  BY DEF TypeOK
<1> QED BY <1>1, TopFrame DEF Somewhere, Working, Top

\* fulfilExc, fulfilVoid and fulfilValue settle a cell or do nothing.
LEMMA FulfilSettles ==
    ASSUME TypeOK, NEW s, NEW r \in Results, Fulfil(s, r), UNCHANGED history
    PROVE  [Abstract!CellNext]_Abstract!cellVars
<1>1. CASE result' = result
  BY <1>1 DEF Abstract!cellVars, history
<1>2. CASE result' # result
  <2>1. s \in Cells /\ result[s] = "pending" /\ result' = [result EXCEPT ![s] = r] /\ r # "pending"
    BY <1>2 DEF Fulfil, TypeOK
  <2>2. r \in Abstract!Settled
    BY <2>1 DEF Results, Abstract!Settled
  <2>3. Abstract!Settle(s)
    BY <2>1, <2>2 DEF Abstract!Settle, history
  <2> QED BY <2>1, <2>3 DEF Abstract!CellNext
<1> QED BY <1>1, <1>2

\* install and setResult's splice attach to a cell that had no continuation.
LEMMA AttachesFirst ==
    ASSUME IInv, NEW s \in Cells, handle[s],
           attached' = [attached EXCEPT ![s] = @ + 1], UNCHANGED <<result, delivered, dropped>>
    PROVE  [Abstract!CellNext]_Abstract!cellVars
<1>1. attached[s] = 0 /\ attached \in [Cells -> Nat]
  BY DEF IInv, CellInv, HandleAt, TypeOK
<1>2. Abstract!Attach(s)
  BY <1>1 DEF Abstract!Attach
<1> QED BY <1>2 DEF Abstract!CellNext

\* Discarding a continuation that was published or claimed.
LEMMA DropsWaiting ==
    ASSUME IInv, NEW s \in Cells, Abstract!Waiting(s),
           dropped' = [dropped EXCEPT ![s] = @ + 1], UNCHANGED <<result, attached, delivered>>
    PROVE  [Abstract!CellNext]_Abstract!cellVars
<1>1. Abstract!Drop(s)
  BY DEF Abstract!Drop, Abstract!Waiting
<1> QED BY <1>1 DEF Abstract!CellNext

\* What user code calls settles, attaches, or is invisible.
LEMMA UserStepRefines ==
    ASSUME IInv, NEW t \in Threads, UserStep(t)
    PROVE  [Abstract!CellNext]_Abstract!cellVars
<1> TypeOK
  BY DEF IInv
<1>1. CASE Stop(t)
  BY <1>1 DEF Stop, cellVars, history, Abstract!cellVars
<1>2. ASSUME NEW s \in Cells,
             \/ NewPromise(t, s) \/ CopyPromise(t, s) \/ GetFuture(t, s)
             \/ DropPromise(t, s) \/ DropFuture(t, s)
      PROVE  [Abstract!CellNext]_Abstract!cellVars
  BY <1>2 DEF NewPromise, CopyPromise, GetFuture, DropPromise, DropFuture, history, Abstract!cellVars
<1>3. ASSUME NEW s \in Cells, NEW r \in {"val", "exc"}, Resolve(t, s, r)
      PROVE  [Abstract!CellNext]_Abstract!cellVars
  <2>1. r \in Results
    BY DEF Results
  <2> QED BY <1>3, <2>1, FulfilSettles DEF Resolve
<1>4. ASSUME NEW s \in Cells, NEW k \in {"then", "try"}, NEW e \in Executors, NEW c \in Cells,
             Then(t, s, k, e, c)
      PROVE  [Abstract!CellNext]_Abstract!cellVars
  BY <1>4, AttachesFirst DEF Then, Publish
<1>5. ASSUME NEW s \in Cells, NEW e \in Executors, AtLast(t, s, e)
      PROVE  [Abstract!CellNext]_Abstract!cellVars
  BY <1>5, AttachesFirst DEF AtLast, Publish
<1> QED BY <1>1, <1>2, <1>3, <1>4, <1>5 DEF UserStep

\* What the library does inside of a call settles, delivers, drops, attaches,
\* or is invisible.
LEMMA LibraryStepRefines ==
    ASSUME IInv, NEW t \in Threads, LibraryStep(t) \/ ReturnStep(t)
    PROVE  [Abstract!CellNext]_Abstract!cellVars
<1> TypeOK
  BY DEF IInv
<1>1. CASE CheckBroken(t) \/ GiveFuture(t) \/ Claim(t) \/ Defer(t) \/ ReturnLast(t)
  BY <1>1 DEF CheckBroken, GiveFuture, Claim, Defer, ReturnLast, cellVars, history, Abstract!cellVars
<1>2. CASE BreakPromise(t)
  BY <1>2, FulfilSettles DEF BreakPromise, Results
<1>3. CASE ExecuteStoppable(t)
  <2>1. stack[t] # << >> /\ Top(t).pc \in ClaimPcs
    BY <1>3 DEF ExecuteStoppable, At, ClaimPcs
  <2>2. Top(t).cell \in Cells /\ Abstract!Waiting(Top(t).cell)
    BY <2>1, TopSomewhere, CarriedIsWaiting
  <2>3. CASE dead
    BY <1>3, <2>2, <2>3, DropsWaiting DEF ExecuteStoppable, cellVars
  <2>4. CASE ~dead
    BY <1>3, <2>4 DEF ExecuteStoppable, cellVars, Abstract!cellVars
  <2> QED BY <2>3, <2>4
<1>4. CASE Invoke(t)
  <2> DEFINE s == Top(t).cell
  <2>1. stack[t] # << >> /\ Top(t).pc \in ClaimPcs
    BY <1>4 DEF Invoke, At, ClaimPcs
  <2>2. s \in Cells /\ Abstract!Waiting(s) /\ result[s] # "pending"
    BY <2>1, TopSomewhere, CarriedIsWaiting
  <2>3. delivered' = [delivered EXCEPT ![s] = @ + 1] /\ UNCHANGED <<result, attached, dropped>>
    BY <1>4 DEF Invoke, cellVars
  <2>4. Abstract!Deliver(s)
    BY <2>2, <2>3 DEF Abstract!Deliver, Abstract!Waiting
  <2> QED BY <2>2, <2>4 DEF Abstract!CellNext
<1>5. CASE Pass(t)
  <2>1. result[Top(t).cell] \in Results
    BY <1>5, TopFrame DEF Pass, At, TypeOK
  <2> QED BY <1>5, <2>1, FulfilSettles DEF Pass
<1>6. ASSUME NEW r \in {"val", "exc"}, Return(t, r)
      PROVE  [Abstract!CellNext]_Abstract!cellVars
  <2>1. r \in Results
    BY DEF Results
  <2> QED BY <1>6, <2>1, FulfilSettles DEF Return
<1>7. ASSUME NEW p \in Cells, ReturnFuture(t, p)
      PROVE  [Abstract!CellNext]_Abstract!cellVars
  BY <1>7, AttachesFirst DEF ReturnFuture
<1> QED BY <1>1, <1>2, <1>3, <1>4, <1>5, <1>6, <1>7 DEF LibraryStep, ReturnStep

\* Every step of the code is an abstract step or invisible.
LEMMA NextRefines ==
    ASSUME IInv, [Next]_vars
    PROVE  [Abstract!CellNext]_Abstract!cellVars
<1>1. ASSUME NEW t \in Threads, UserStep(t) \/ LibraryStep(t) \/ ReturnStep(t)
      PROVE  [Abstract!CellNext]_Abstract!cellVars
  BY <1>1, UserStepRefines, LibraryStepRefines
<1>2. ASSUME NEW j \in jobs, DropJob(j)
      PROVE  [Abstract!CellNext]_Abstract!cellVars
  <2>1. j.cell \in Cells /\ Queued(j.cell)
    BY <1>2 DEF IInv, TypeOK, Queued
  <2>2. Abstract!Waiting(j.cell)
    BY <2>1, CarriedIsWaiting
  <2> QED BY <1>2, <2>1, <2>2, DropsWaiting DEF DropJob, cellVars
<1>3. ASSUME NEW t \in Threads, NEW j \in jobs, RunJob(t, j)
      PROVE  [Abstract!CellNext]_Abstract!cellVars
  BY <1>3 DEF RunJob, cellVars, history, Abstract!cellVars
<1>4. ASSUME NEW s \in Cells, Destroy(s)
      PROVE  [Abstract!CellNext]_Abstract!cellVars
  <2>1. CASE notify[s] = "null"
    <3>1. dropped' = dropped
      BY <1>4, <2>1 DEF Destroy, IInv, TypeOK
    <3> QED BY <1>4, <3>1 DEF Destroy, Abstract!cellVars
  <2>2. CASE notify[s] # "null"
    <3>1. Abstract!Waiting(s)
      BY <2>2 DEF IInv, CellInv, PublishedAt, Abstract!Waiting
    <3> QED BY <1>4, <2>2, <3>1, DropsWaiting DEF Destroy
  <2> QED BY <2>1, <2>2
<1>5. CASE UNCHANGED vars
  BY <1>5 DEF vars, cellVars, history, Abstract!cellVars
<1> QED BY <1>1, <1>2, <1>3, <1>4, <1>5 DEF Next, ExecutorStep

\* The code's shared states, with any number of threads, cells and executors
\* and whatever continuations do, implement the safety of the abstract cell:
\* a result is written once; a continuation is attached once, is delivered
\* the result once at most and only after it is there, and never both
\* delivered and dropped.
THEOREM ImplementsCellSafely == Spec => Abstract!CellSafety
<1>1. Init => Abstract!Init
  BY DEF Init, Abstract!Init
<1>2. IInv /\ [Next]_vars => [Abstract!CellNext]_Abstract!cellVars
  BY NextRefines
<1> QED BY <1>1, <1>2, TokenInvariant, PTL DEF Spec, Abstract!CellSafety

=============================================================================

---------------------------- MODULE CallsProofs ----------------------------
(***************************************************************************)
(* Theorems about module Calls, for any servers, methods, names, routes,   *)
(* middlewares and any number of requests.                                 *)
(*                                                                         *)
(* CallsInv, for the contexts and the batch. The stack is read from the    *)
(* bottom. A handler is interrupted when a later call is inside of         *)
(* DoHandle of the same server: that call overwrites the context, and its  *)
(* deferred revert sets the fallback context, not what was there before,   *)
(* so an interrupted handler does not own its context any more (own).      *)
(* CurrentOK: a handler that is not interrupted sees its own context if it *)
(* owns one and the fallback context otherwise, and a server that no call  *)
(* is inside of has the fallback context. A batch is active while it is    *)
(* collected under a guard, while a frame of SendBatch is on the stack, or *)
(* for ever once SendBatch has thrown.                                     *)
(*                                                                         *)
(* AccountInv, for the requests.  A slot holds requests: slot 0 is the     *)
(* batch that is collected, slot j the j-th frame of the stack (a batch    *)
(* that is being sent, or a call).  A request is in at most one slot, once *)
(* in it, and in none while a handler has its promise; while it is not     *)
(* answered it is somewhere; and if it is somewhere although it is         *)
(* answered, a route middleware threw at it.  An answer that was given     *)
(* stays, and continuations turn answers into answers and errors into      *)
(* errors: they are folds over the servers on the way, which is why the    *)
(* module starts with induction over folds.                                *)
(*                                                                         *)
(* NamesInv, for the names.  What is left of the name of a call, behind    *)
(* the words that routes took from it, has come to its server by a path    *)
(* along those words (Routed), and a handler that runs has one word left.  *)
(* req is only appended to, so the name a call started from stays what it  *)
(* was; the name that goes on to the wire or to the transport is read from *)
(* req again, with a path of no words, which starts at Main.  The prefix   *)
(* and the routes are settings that any step may change: a name is joined  *)
(* with the prefix when the request is made, and a route, once taken, is   *)
(* one of the registered ones for good.                                    *)
(***************************************************************************)
EXTENDS Calls, RoutingProofs, FiniteSetTheorems

-----------------------------------------------------------------------------
\* Folds from the right.

\* Min of the library.
LEMMA MinIs ==
    ASSUME NEW T, T \subseteq Nat, T # {}
    PROVE  Min(T) \in T /\ \A y \in T : Min(T) <= y
BY LeastElement DEF Min

\* What MapThenFoldSet computes from the right, with the step as a function.
Rest(s) == s \ {Min(s)}
IsFold(g, D, hs, e, step) ==
    \A s \in D : g[s] = IF s = {} THEN e ELSE step[<<hs[Min(s)], g[Rest(s)]>>]

HasFold(D, C, hs, e, step) == \E g \in [D -> C] : IsFold(g, D, hs, e, step)

\* The sets of the last n of the numbers up to m.
Ends(m, n) == SUBSET (m - n + 1 .. m)

\* Taking the least one off leaves such a set.
LEMMA EndsAre ==
    ASSUME NEW m \in Nat
    PROVE  /\ Ends(m, 0) = {{}} /\ Ends(m, m) = SUBSET (1 .. m)
           /\ \A n \in Nat : n + 1 <= m =>
                 /\ Ends(m, n) \subseteq Ends(m, n + 1) /\ {} \in Ends(m, n)
                 /\ Ends(m, n + 1) \subseteq SUBSET (1 .. m)
                 /\ \A s \in Ends(m, n + 1) : s # {} => Min(s) \in 1 .. m /\ Rest(s) \in Ends(m, n)
<1>1. m - 0 + 1 .. m = {} /\ m - m + 1 = 1 /\ SUBSET {} = {{}}
  OBVIOUS
<1>2. Ends(m, 0) = {{}} /\ Ends(m, m) = SUBSET (1 .. m)
  BY <1>1 DEF Ends
<1>3. ASSUME NEW n \in Nat, n + 1 <= m
      PROVE  /\ Ends(m, n) \subseteq Ends(m, n + 1) /\ {} \in Ends(m, n)
             /\ Ends(m, n + 1) \subseteq SUBSET (1 .. m)
             /\ \A s \in Ends(m, n + 1) : s # {} => Min(s) \in 1 .. m /\ Rest(s) \in Ends(m, n)
  <2>1. m - (n + 1) + 1 = m - n /\ m - n >= 1 /\ m - n \in Nat
    BY <1>3
  <2>2. m - n + 1 .. m \subseteq m - n .. m /\ m - n .. m \subseteq 1 .. m
    BY <2>1
  <2>3. Ends(m, n) \subseteq Ends(m, n + 1) /\ {} \in Ends(m, n) /\ Ends(m, n + 1) \subseteq SUBSET (1 .. m)
    BY <2>1, <2>2 DEF Ends
  <2>4. ASSUME NEW s \in Ends(m, n + 1), s # {} PROVE Min(s) \in 1 .. m /\ Rest(s) \in Ends(m, n)
    <3>1. s \subseteq m - n .. m
      BY <2>1, <2>4 DEF Ends
    <3>2. s \subseteq Nat
      BY <2>1, <3>1
    <3>3. Min(s) \in s /\ \A y \in s : Min(s) <= y
      BY <2>4, <3>2, MinIs
    <3>4. PICK x : x = Min(s)
      OBVIOUS
    <3>5. x \in m - n .. m /\ \A y \in Rest(s) : y \in m - n .. m /\ x <= y /\ y # x
      BY <3>1, <3>3, <3>4 DEF Rest
    <3>6. x \in 1 .. m /\ \A y \in Rest(s) : y \in m - n + 1 .. m
      BY <2>1, <3>5
    <3> QED BY <3>4, <3>6 DEF Ends
  <2> QED BY <2>3, <2>4
<1> QED BY <1>2, <1>3

\* The values of a function that is a fold stay where each step stays.
LEMMA FoldTyped ==
    ASSUME NEW m \in Nat, NEW C, NEW g, g[{}] \in C,
           \A s \in SUBSET (1 .. m) : s # {} /\ g[Rest(s)] \in C => g[s] \in C
    PROVE  g[1 .. m] \in C
<1>1. PICK S : S = {n \in Nat : n <= m => \A s \in Ends(m, n) : g[s] \in C}
  OBVIOUS
<1>2. 0 \in S
  BY <1>1, EndsAre
<1>3. ASSUME NEW n \in Nat, n \in S PROVE n + 1 \in S
  <2>1. SUFFICES ASSUME n + 1 <= m, NEW s \in Ends(m, n + 1), s # {} PROVE g[s] \in C
    BY <1>1
  <2>2. s \in SUBSET (1 .. m) /\ n <= m /\ Rest(s) \in Ends(m, n)
    BY <2>1, EndsAre
  <2>3. g[Rest(s)] \in C
    BY <1>1, <1>3, <2>2
  <2> QED BY <2>1, <2>2, <2>3
<1>4. m \in S
  BY <1>2, <1>3, Induction
<1>5. 1 .. m \in Ends(m, m)
  BY EndsAre
<1> QED BY <1>1, <1>4, <1>5

\* MapThenFoldSet over 1 .. m is the end of such a function.
LEMMA FoldExists ==
    ASSUME NEW K, NEW C, NEW hs \in Seq(K), NEW e \in C, NEW step \in [K \X C -> C]
    PROVE  HasFold(SUBSET (1 .. Len(hs)), C, hs, e, step)
<1>1. PICK m \in Nat : m = Len(hs)
  OBVIOUS
<1>2. PICK S : S = {n \in Nat : n <= m => HasFold(Ends(m, n), C, hs, e, step)}
  OBVIOUS
<1>3. 0 \in S
  <2>1. PICK g : g = [s \in {{}} |-> e]
    OBVIOUS
  <2>2. g \in [{{}} -> C] /\ IsFold(g, {{}}, hs, e, step)
    BY <2>1 DEF IsFold
  <2>3. HasFold({{}}, C, hs, e, step)
    BY <2>2 DEF HasFold
  <2> QED BY <1>2, <2>3, EndsAre
<1>4. ASSUME NEW n \in Nat, n \in S PROVE n + 1 \in S
  <2>1. SUFFICES ASSUME n + 1 <= m PROVE HasFold(Ends(m, n + 1), C, hs, e, step)
    BY <1>2
  <2>2. PICK D, E : D = Ends(m, n) /\ E = Ends(m, n + 1)
    OBVIOUS
  <2>3. D \subseteq E /\ {} \in D
    BY <2>1, <2>2, EndsAre
  <2>4. PICK g \in [D -> C] : IsFold(g, D, hs, e, step)
    <3>1. n <= m
      BY <2>1
    <3> QED BY <1>2, <1>4, <2>2, <3>1 DEF HasFold
  <2>5. ASSUME NEW s \in E, s # {} PROVE Min(s) \in 1 .. m /\ Rest(s) \in D
    BY <2>1, <2>2, <2>5, EndsAre
  <2>6. PICK f : f = [s \in E |-> IF s = {} THEN e ELSE step[<<hs[Min(s)], g[Rest(s)]>>]]
    OBVIOUS
  <2>7. f \in [E -> C]
    <3>1. ASSUME NEW s \in E PROVE (IF s = {} THEN e ELSE step[<<hs[Min(s)], g[Rest(s)]>>]) \in C
      <4>1. CASE s # {}
        <5>1. hs[Min(s)] \in K /\ g[Rest(s)] \in C
          BY <1>1, <2>4, <2>5, <4>1
        <5> QED BY <4>1, <5>1
      <4> QED BY <4>1
    <3> QED BY <2>6, <3>1
  <2>8. \A s \in D : f[s] = g[s]
    BY <2>3, <2>4, <2>6 DEF IsFold
  <2>9. IsFold(f, E, hs, e, step)
    <3>1. ASSUME NEW s \in E PROVE f[s] = IF s = {} THEN e ELSE step[<<hs[Min(s)], f[Rest(s)]>>]
      <4>1. CASE s = {}
        BY <2>6, <4>1
      <4>2. CASE s # {}
        <5>1. f[Rest(s)] = g[Rest(s)]
          BY <2>5, <2>8, <4>2
        <5> QED BY <2>6, <4>2, <5>1
      <4> QED BY <4>1, <4>2
    <3> QED BY <3>1 DEF IsFold
  <2> QED BY <2>2, <2>7, <2>9 DEF HasFold
<1>5. m \in S
  BY <1>3, <1>4, Induction
<1>6. PICK D : D = Ends(m, m)
  OBVIOUS
<1>7. HasFold(D, C, hs, e, step)
  BY <1>1, <1>2, <1>5, <1>6
<1>8. D = SUBSET (1 .. Len(hs))
  BY <1>1, <1>6, EndsAre
<1> QED BY <1>7, <1>8

-----------------------------------------------------------------------------
\* What answers may be.

Override(h, ec) == CASE h = "log" -> ec [] h = "rpc" -> "over" [] OTHER -> "internal"
IsIter(g, hs, e) == g = [s \in SUBSET DOMAIN hs |-> IF s = {} THEN e ELSE Override(hs[Min(s)], g[s \ {Min(s)}])]

\* excHandlers: whatever the handlers make of an error is an error.
LEMMA ExcHandlersIs ==
    ASSUME NEW K, NEW hs \in Seq(K), NEW e \in Codes
    PROVE  ExcHandlers(hs, e) \in Codes
<1>1. PICK g0 : g0 = CHOOSE g : IsIter(g, hs, e)
  OBVIOUS
<1>2. ExcHandlers(hs, e) = IF Contains(hs, "throw") THEN "internal" ELSE g0[DOMAIN hs]
  <2>1. ExcHandlers(hs, e) = IF Contains(hs, "throw") THEN "internal" ELSE (CHOOSE g : IsIter(g, hs, e))[DOMAIN hs]
    BY Zenon DEF ExcHandlers, FoldRight, MapThenFoldSet, IsIter, Override
  <2> QED BY <1>1, <2>1
<1>3. PICK step : step = [p \in K \X Codes |-> Override(p[1], p[2])]
  OBVIOUS
<1>4. \A h \in K, c \in Codes : Override(h, c) \in Codes /\ step[<<h, c>>] = Override(h, c)
  BY <1>3 DEF Override, Codes
<1>5. step \in [K \X Codes -> Codes]
  BY <1>3, <1>4
<1>6. PICK D : D = SUBSET (1 .. Len(hs))
  OBVIOUS
<1>7. DOMAIN hs = 1 .. Len(hs) /\ Len(hs) \in Nat
  OBVIOUS
<1>8. ASSUME NEW s \in D, s # {} PROVE Min(s) \in 1 .. Len(hs) /\ Rest(s) \in D /\ hs[Min(s)] \in K
  <2>1. s \subseteq 1 .. Len(hs) /\ s \subseteq Nat
    BY <1>6, <1>7
  <2>2. Min(s) \in 1 .. Len(hs) /\ Rest(s) \subseteq 1 .. Len(hs)
    BY <1>8, <2>1, MinIs DEF Rest
  <2> QED BY <1>6, <2>2
<1>9. PICK g1 \in [D -> Codes] : IsFold(g1, D, hs, e, step)
  BY <1>5, <1>6, FoldExists DEF HasFold
<1>10. IsIter(g1, hs, e)
  <2>1. ASSUME NEW s \in D PROVE g1[s] = IF s = {} THEN e ELSE Override(hs[Min(s)], g1[s \ {Min(s)}])
    <3>1. CASE s # {}
      <4>1. hs[Min(s)] \in K /\ g1[Rest(s)] \in Codes
        BY <1>8, <1>9, <3>1
      <4>2. g1[s] = step[<<hs[Min(s)], g1[Rest(s)]>>]
        BY <1>9, <3>1 DEF IsFold
      <4> QED BY <1>4, <3>1, <4>1, <4>2 DEF Rest
    <3> QED BY <1>9, <3>1 DEF IsFold
  <2> QED BY <1>6, <1>7, <1>9, <2>1 DEF IsIter
<1>11. IsIter(g0, hs, e)
  BY <1>1, <1>10
<1>12. \A s \in D : g0[s] = IF s = {} THEN e ELSE Override(hs[Min(s)], g0[Rest(s)])
  BY <1>6, <1>7, <1>11 DEF IsIter, Rest
<1>13. g0[1 .. Len(hs)] \in Codes
  <2>1. {} \in D
    BY <1>6
  <2>2. g0[{}] \in Codes
    BY <1>12, <2>1
  <2>3. \A s \in D : s # {} /\ g0[Rest(s)] \in Codes => g0[s] \in Codes
    BY <1>4, <1>8, <1>12
  <2> QED BY <1>6, <1>7, <2>2, <2>3, FoldTyped
<1> QED BY <1>2, <1>7, <1>13 DEF Codes

Handed(w, res) ==
    CASE w \notin alive -> "broken"
      [] w \in alive /\ res = "value" -> res
      [] OTHER -> ExcHandlers(RouteEHandlers[w], res)
IsRoute(g, ws, a) == g = [s \in SUBSET DOMAIN ws |-> IF s = {} THEN a ELSE Handed(ws[Min(s)], g[s \ {Min(s)}])]

\* The continuations of OnForward: an answer stays an answer, an error an error.
LEMMA ThroughIs ==
    ASSUME NEW ws \in Seq(Servers), NEW C, C = Codes \/ C = Answers, NEW a \in C
    PROVE  Through(ws, a) \in C
<1>1. PICK g0 : g0 = CHOOSE g : IsRoute(g, ws, a)
  OBVIOUS
<1>2. Through(ws, a) = g0[DOMAIN ws]
  <2>1. Through(ws, a) = (CHOOSE g : IsRoute(g, ws, a))[DOMAIN ws]
    BY Zenon DEF Through, FoldRight, MapThenFoldSet, IsRoute, Handed
  <2> QED BY <1>1, <2>1
<1>3. PICK step : step = [p \in Servers \X C |-> Handed(p[1], p[2])]
  OBVIOUS
<1>4. \A w \in Servers, c \in C : Handed(w, c) \in C /\ step[<<w, c>>] = Handed(w, c)
  <2> SUFFICES ASSUME NEW w \in Servers, NEW c \in C PROVE Handed(w, c) \in C /\ step[<<w, c>>] = Handed(w, c)
    OBVIOUS
  <2>1. RouteEHandlers[w] \in Seq({"log", "rpc", "plain", "throw"})
    BY EHandlersAssumption
  <2>2. c # "value" => c \in Codes
    BY DEF Answers
  <2>3. "broken" \in C /\ Codes \subseteq C
    BY DEF Answers, Codes
  <2>4. c # "value" => ExcHandlers(RouteEHandlers[w], c) \in C
    BY <2>1, <2>2, <2>3, ExcHandlersIs
  <2>5. Handed(w, c) \in C
    BY <2>3, <2>4 DEF Handed
  <2> QED BY <1>3, <2>5
<1>5. step \in [Servers \X C -> C]
  <2>1. ASSUME NEW p \in Servers \X C PROVE Handed(p[1], p[2]) \in C
    <3>1. p[1] \in Servers /\ p[2] \in C
      OBVIOUS
    <3> QED BY <1>4, <3>1
  <2> QED BY <1>3, <2>1
<1>6. PICK D : D = SUBSET (1 .. Len(ws))
  OBVIOUS
<1>7. DOMAIN ws = 1 .. Len(ws) /\ Len(ws) \in Nat
  OBVIOUS
<1>8. ASSUME NEW s \in D, s # {} PROVE Min(s) \in 1 .. Len(ws) /\ Rest(s) \in D /\ ws[Min(s)] \in Servers
  <2>1. s \subseteq 1 .. Len(ws) /\ s \subseteq Nat
    BY <1>6, <1>7
  <2>2. Min(s) \in 1 .. Len(ws) /\ Rest(s) \subseteq 1 .. Len(ws)
    BY <1>8, <2>1, MinIs DEF Rest
  <2> QED BY <1>6, <2>2
<1>9. PICK g1 \in [D -> C] : IsFold(g1, D, ws, a, step)
  BY <1>5, <1>6, FoldExists DEF HasFold
<1>10. IsRoute(g1, ws, a)
  <2>1. ASSUME NEW s \in D PROVE g1[s] = IF s = {} THEN a ELSE Handed(ws[Min(s)], g1[s \ {Min(s)}])
    <3>1. CASE s # {}
      <4>1. ws[Min(s)] \in Servers /\ g1[Rest(s)] \in C
        BY <1>8, <1>9, <3>1
      <4>2. g1[s] = step[<<ws[Min(s)], g1[Rest(s)]>>]
        BY <1>9, <3>1 DEF IsFold
      <4> QED BY <1>4, <3>1, <4>1, <4>2 DEF Rest
    <3> QED BY <1>9, <3>1 DEF IsFold
  <2> QED BY <1>6, <1>7, <1>9, <2>1 DEF IsRoute
<1>11. IsRoute(g0, ws, a)
  BY <1>1, <1>10
<1>12. \A s \in D : g0[s] = IF s = {} THEN a ELSE Handed(ws[Min(s)], g0[Rest(s)])
  BY <1>6, <1>7, <1>11 DEF IsRoute, Rest
<1>13. g0[1 .. Len(ws)] \in C
  <2>1. {} \in D
    BY <1>6
  <2>2. g0[{}] \in C
    BY <1>12, <2>1
  <2>3. \A s \in D : s # {} /\ g0[Rest(s)] \in C => g0[s] \in C
    BY <1>4, <1>8, <1>12
  <2> QED BY <1>6, <1>7, <2>2, <2>3, FoldTyped
<1> QED BY <1>2, <1>7, <1>13

\* What the caller gets of an answer is an answer, and of an error an error.
LEMMA DeliveredIs ==
    ASSUME NEW r, NEW C, C = Codes \/ C = Answers, NEW a \in C, req[r].from \in {"client", "peer"}
    PROVE  Delivered(r, a) \in C
<1>1. "internal" \in C
  BY DEF Answers, Codes
<1>2. Delivered(r, a) = a \/ Delivered(r, a) = "internal"
  <2>1. CASE req[r].from = "client"
    BY <2>1 DEF Delivered
  <2>2. CASE req[r].from = "peer" /\ a = "value"
    BY <2>2, ResponseReadBack, ServersAssumption DEF Delivered
  <2>3. CASE req[r].from = "peer" /\ a # "value"
    BY <2>3, ResponseReadBack, ServersAssumption DEF Delivered
  <2> QED BY <2>1, <2>2, <2>3
<1> QED BY <1>1, <1>2

-----------------------------------------------------------------------------
\* The stack is a sequence of anything.

IsStack(s) == \E S : s \in Seq(S)

\* Its length and its indices.
LEMMA StackLen ==
    ASSUME NEW s, IsStack(s)
    PROVE  /\ Len(s) \in Nat /\ DOMAIN s = 1 .. Len(s)
           /\ s = << >> <=> Len(s) = 0
<1>1. PICK S : s \in Seq(S)
  BY DEF IsStack
<1> QED BY <1>1, EmptySeq, LenProperties

\* No call.
LEMMA EmptyStack == IsStack(<< >>) /\ Len(<< >>) = 0
<1>1. << >> \in Seq({})
  OBVIOUS
<1> QED BY <1>1 DEF IsStack

\* A call enters.
LEMMA Pushed ==
    ASSUME NEW s, IsStack(s), NEW f
    PROVE  /\ IsStack(Append(s, f)) /\ Len(Append(s, f)) = Len(s) + 1
           /\ Append(s, f)[Len(s) + 1] = f
           /\ \A i \in 1 .. Len(s) : Append(s, f)[i] = s[i]
           /\ Append(s, f) # << >>
           /\ Front(Append(s, f)) = s
<1>1. PICK S : s \in Seq(S)
  BY DEF IsStack
<1>2. PICK T : T = S \cup {f}
  OBVIOUS
<1>3. s \in Seq(T) /\ f \in T
  BY <1>1, <1>2, SeqMonotonic
<1>4. PICK t : t = Append(s, f)
  OBVIOUS
<1>5. t \in Seq(T) /\ Len(t) = Len(s) + 1 /\ t[Len(s) + 1] = f /\ \A i \in 1 .. Len(s) : t[i] = s[i]
  BY <1>3, <1>4
<1>6. t # << >>
  BY <1>3, <1>5, EmptySeq
<1>7. Front(t) = s
  <2>1. Len(s) \in Nat
    BY <1>3
  <2>2. PICK u : u = SubSeq(t, 1, Len(s))
    OBVIOUS
  <2>3. \A i \in 1 .. Len(s) : t[i] \in T
    BY <1>3, <1>5, <2>1
  <2>4. u \in Seq(T) /\ Len(u) = Len(s) /\ \A i \in 1 .. Len(s) : u[i] = t[i]
    BY <2>1, <2>2, <2>3, SubSeqProperties
  <2>5. u = s
    BY <1>3, <1>5, <2>4, SeqEqual
  <2>6. Len(t) - 1 = Len(s)
    BY <1>5, <2>1
  <2> QED BY <2>2, <2>5, <2>6 DEF Front
<1> QED BY <1>4, <1>5, <1>6, <1>7 DEF IsStack

\* A call returns.
LEMMA Popped ==
    ASSUME NEW s, IsStack(s), s # << >>
    PROVE  /\ IsStack(Front(s)) /\ Len(Front(s)) = Len(s) - 1
           /\ \A i \in 1 .. Len(s) - 1 : Front(s)[i] = s[i]
<1>1. PICK S : s \in Seq(S)
  BY DEF IsStack
<1>2. Len(s) \in Nat \ {0}
  BY <1>1, EmptySeq
<1>3. \A i \in 1 .. Len(s) - 1 : s[i] \in S
  BY <1>1, <1>2
<1>4. PICK n \in Nat : n = Len(s) - 1
  BY <1>2
<1>5. PICK t : t = SubSeq(s, 1, n)
  OBVIOUS
<1>6. t \in Seq(S) /\ Len(t) = n /\ \A i \in 1 .. n : t[i] = s[i]
  BY <1>3, <1>4, <1>5, SubSeqProperties
<1>7. t = Front(s)
  BY <1>4, <1>5 DEF Front
<1> QED BY <1>4, <1>6, <1>7 DEF IsStack

\* Two calls that enter one after the other.
LEMMA Joined ==
    ASSUME NEW s, IsStack(s), NEW f
    PROVE  s \o << >> = s /\ s \o <<f>> = Append(s, f)
<1>1. PICK S : s \in Seq(S)
  BY DEF IsStack
<1>2. PICK T : T = S \cup {f}
  OBVIOUS
<1>3. s \in Seq(T) /\ <<f>> \in Seq(T) /\ Append(s, f) \in Seq(T)
  <2>1. s \in Seq(T) /\ f \in T
    BY <1>1, <1>2, SeqMonotonic
  <2> QED BY <2>1
<1>4. s \o << >> = s
  BY <1>3, ConcatEmptySeq
<1>5. Len(s) \in Nat /\ Len(<<f>>) = 1 /\ <<f>>[1] = f
  BY <1>3
<1>6. PICK t : t = s \o <<f>>
  OBVIOUS
<1>7. t \in Seq(T) /\ Len(t) = Len(s) + 1 /\ \A i \in 1 .. Len(s) + 1 : t[i] = IF i <= Len(s) THEN s[i] ELSE <<f>>[i - Len(s)]
  BY <1>3, <1>5, <1>6, ConcatProperties
<1>8. PICK u : u = Append(s, f)
  OBVIOUS
<1>9. u \in Seq(T) /\ Len(u) = Len(s) + 1 /\ u[Len(s) + 1] = f /\ \A i \in 1 .. Len(s) : u[i] = s[i]
  BY <1>3, <1>8, Pushed DEF IsStack
<1>10. \A i \in 1 .. Len(s) + 1 : t[i] = u[i]
  <2> TAKE i \in 1 .. Len(s) + 1
  <2>1. CASE i <= Len(s)
    BY <1>5, <1>7, <1>9, <2>1
  <2>2. CASE i = Len(s) + 1
    <3>1. i - Len(s) = 1 /\ ~(i <= Len(s))
      BY <1>5, <2>2
    <3> QED BY <1>5, <1>7, <1>9, <2>2, <3>1
  <2> QED BY <1>5, <2>1, <2>2
<1>11. t = u
  BY <1>7, <1>9, <1>10, SeqEqual
<1> QED BY <1>4, <1>6, <1>8, <1>11

\* A continuation runs, or none.
LEMMA Continued ==
    ASSUME NEW s, IsStack(s), NEW r
    PROVE  s \o Continuation(r) = s \/ s \o Continuation(r) = Append(s, Callback(r))
BY Joined DEF Continuation

\* What is below the top call, with its interrupted handlers marked.
LEMMA BelowIs ==
    ASSUME IsStack(stack), stack # << >>, NEW h
    PROVE  /\ IsStack(Below(h)) /\ Len(Below(h)) = Len(stack) - 1
           /\ \A i \in 1 .. Len(stack) - 1 :
                 Below(h)[i] = IF stack[i].at = "body" /\ stack[i].h = h
                               THEN [stack[i] EXCEPT !.own = FALSE] ELSE stack[i]
<1>1. Len(stack) \in Nat \ {0}
  BY StackLen
<1>2. PICK n \in Nat : n = Len(stack) - 1
  BY <1>1
<1>3. PICK b : b = [i \in 1 .. n |-> IF stack[i].at = "body" /\ stack[i].h = h
                                     THEN [stack[i] EXCEPT !.own = FALSE] ELSE stack[i]]
  OBVIOUS
<1>4. PICK T : T = {b[i] : i \in 1 .. n}
  OBVIOUS
<1>5. b \in [1 .. n -> T]
  BY <1>3, <1>4
<1>6. b \in Seq(T) /\ Len(b) = n
  BY <1>5
<1>7. b = Below(h)
  BY <1>2, <1>3 DEF Below
<1> QED BY <1>2, <1>3, <1>6, <1>7 DEF IsStack

-----------------------------------------------------------------------------
\* Contexts.

CallFields == {"at", "r", "h", "name", "ctx", "own", "shield"}

FrameOK(f) ==
    /\ f.at \in {"batch", "route", "body", "leave", "callback"}
    /\ f.at \in {"route", "body", "leave"} => DOMAIN f = CallFields
    /\ f.at = "route" => f.own
    /\ f.at \in {"body", "leave"} => f.h \in Servers

FramesOK(st) == IsStack(st) /\ \A i \in 1 .. Len(st) : FrameOK(st[i])

\* The call f is inside of DoHandle of s.
On(f, s) == f.at \in {"body", "leave"} /\ f.h = s

\* The handler at i is interrupted: a later call is inside of its server.
Interrupted(st, i) == \E j \in 1 .. Len(st) : i < j /\ On(st[j], st[i].h)

\* What current has to be: for the servers that are not in X.
CurrentOK(st, cur, X) ==
    /\ \A s \in Servers \ X :
          (\A i \in 1 .. Len(st) : ~On(st[i], s)) => cur[s] = FallbackCtx
    /\ \A i \in 1 .. Len(st) :
          /\ st[i].at = "body" /\ st[i].h \notin X /\ ~Interrupted(st, i) =>
                cur[st[i].h] = IF st[i].own THEN st[i].ctx ELSE FallbackCtx
          /\ st[i].at = "body" /\ (Interrupted(st, i) \/ st[i].h \in X) => ~st[i].own

StackOK(st, cur, X) == FramesOK(st) /\ CurrentOK(st, cur, X)

BatchFrames(st) == {i \in 1 .. Len(st) : st[i].at = "batch"}

\* A frame outside of DoHandle is pushed: the contexts are as before.
LEMMA PushPlain ==
    ASSUME NEW st, NEW cur, StackOK(st, cur, {}), NEW f, FrameOK(f), f.at \notin {"body", "leave"}
    PROVE  /\ StackOK(Append(st, f), cur, {})
           /\ f.at # "batch" => BatchFrames(Append(st, f)) = BatchFrames(st)
           /\ f.at = "batch" => BatchFrames(Append(st, f)) = BatchFrames(st) \cup {Len(st) + 1}
<1>1. PICK n \in Nat : n = Len(st)
  BY StackLen DEF StackOK, FramesOK
<1>2. PICK t : t = Append(st, f)
  OBVIOUS
<1>3. IsStack(t) /\ Len(t) = n + 1 /\ t[n + 1] = f /\ \A i \in 1 .. n : t[i] = st[i]
  BY <1>1, <1>2, Pushed DEF StackOK, FramesOK
<1>4. FramesOK(t)
  BY <1>1, <1>3 DEF StackOK, FramesOK
<1>5. \A s : ~On(t[n + 1], s)
  BY <1>3 DEF On
<1>6. \A i \in 1 .. n : Interrupted(t, i) <=> Interrupted(st, i)
  BY <1>1, <1>3, <1>5 DEF Interrupted
<1>7. CurrentOK(t, cur, {})
  <2>1. ASSUME NEW s \in Servers, \A i \in 1 .. Len(t) : ~On(t[i], s)
        PROVE  cur[s] = FallbackCtx
    BY <1>1, <1>3, <2>1 DEF StackOK, CurrentOK
  <2>2. ASSUME NEW i \in 1 .. Len(t), t[i].at = "body"
        PROVE  /\ ~Interrupted(t, i) => cur[t[i].h] = IF t[i].own THEN t[i].ctx ELSE FallbackCtx
               /\ Interrupted(t, i) => ~t[i].own
    BY <1>1, <1>3, <1>6, <2>2 DEF StackOK, CurrentOK
  <2> QED BY <2>1, <2>2 DEF CurrentOK
<1>8. /\ f.at # "batch" => BatchFrames(t) = BatchFrames(st)
      /\ f.at = "batch" => BatchFrames(t) = BatchFrames(st) \cup {n + 1}
  BY <1>1, <1>3 DEF BatchFrames
<1> QED BY <1>1, <1>2, <1>4, <1>7, <1>8 DEF StackOK

\* It is popped.
LEMMA PopPlain ==
    ASSUME NEW st, NEW cur, StackOK(st, cur, {}), st # << >>, st[Len(st)].at \notin {"body", "leave"}
    PROVE  /\ StackOK(Front(st), cur, {})
           /\ BatchFrames(Front(st)) = BatchFrames(st) \ {Len(st)}
<1>1. PICK n \in Nat : n = Len(st) /\ n > 0
  BY StackLen DEF StackOK, FramesOK
<1>2. PICK t : t = Front(st)
  OBVIOUS
<1>3. IsStack(t) /\ Len(t) = n - 1 /\ \A i \in 1 .. n - 1 : t[i] = st[i]
  BY <1>1, <1>2, Popped DEF StackOK, FramesOK
<1>4. FramesOK(t)
  BY <1>1, <1>3 DEF StackOK, FramesOK
<1>5. \A s : ~On(st[n], s)
  BY <1>1 DEF On
<1>6. \A i \in 1 .. n - 1 : Interrupted(t, i) <=> Interrupted(st, i)
  <2>1. \A j \in 1 .. n : j \in 1 .. n - 1 \/ j = n
    BY <1>1
  <2>2. 1 .. n - 1 \subseteq 1 .. n
    BY <1>1
  <2> QED BY <1>1, <1>3, <1>5, <2>1, <2>2 DEF Interrupted
<1>7. CurrentOK(t, cur, {})
  <2>1. ASSUME NEW s \in Servers, \A i \in 1 .. Len(t) : ~On(t[i], s)
        PROVE  cur[s] = FallbackCtx
    <3>1. \A i \in 1 .. n : ~On(st[i], s)
      BY <1>1, <1>3, <1>5, <2>1
    <3> QED BY <1>1, <3>1 DEF StackOK, CurrentOK
  <2>2. ASSUME NEW i \in 1 .. Len(t), t[i].at = "body"
        PROVE  /\ ~Interrupted(t, i) => cur[t[i].h] = IF t[i].own THEN t[i].ctx ELSE FallbackCtx
               /\ Interrupted(t, i) => ~t[i].own
    BY <1>1, <1>3, <1>6, <2>2 DEF StackOK, CurrentOK
  <2> QED BY <2>1, <2>2 DEF CurrentOK
<1>8. BatchFrames(t) = BatchFrames(st) \ {n}
  BY <1>1, <1>3 DEF BatchFrames
<1> QED BY <1>1, <1>2, <1>4, <1>7, <1>8 DEF StackOK

\* A call leaves DoHandle.
LEMMA PopLeave ==
    ASSUME NEW st, NEW cur, StackOK(st, cur, {}), st # << >>, st[Len(st)].at = "leave",
           NEW h, h = st[Len(st)].h
    PROVE  /\ StackOK(Front(st), cur, {h})
           /\ BatchFrames(Front(st)) = BatchFrames(st)
<1>1. PICK n \in Nat : n = Len(st) /\ n > 0
  BY StackLen DEF StackOK, FramesOK
<1>2. PICK t : t = Front(st)
  OBVIOUS
<1>3. IsStack(t) /\ Len(t) = n - 1 /\ \A i \in 1 .. n - 1 : t[i] = st[i]
  BY <1>1, <1>2, Popped DEF StackOK, FramesOK
<1>4. FramesOK(t)
  BY <1>1, <1>3 DEF StackOK, FramesOK
<1>5. \A s : On(st[n], s) <=> s = h
  BY <1>1 DEF On
<1>6. \A i \in 1 .. n - 1 : st[i].h # h => (Interrupted(t, i) <=> Interrupted(st, i))
  <2>1. \A j \in 1 .. n : j \in 1 .. n - 1 \/ j = n
    BY <1>1
  <2>2. 1 .. n - 1 \subseteq 1 .. n
    BY <1>1
  <2> QED BY <1>1, <1>3, <1>5, <2>1, <2>2 DEF Interrupted
<1>7. \A i \in 1 .. n - 1 : st[i].h = h => Interrupted(st, i)
  BY <1>1, <1>5 DEF Interrupted
<1>8. CurrentOK(t, cur, {h})
  <2>1. ASSUME NEW s \in Servers \ {h}, \A i \in 1 .. Len(t) : ~On(t[i], s)
        PROVE  cur[s] = FallbackCtx
    <3>1. \A i \in 1 .. n : ~On(st[i], s)
      BY <1>1, <1>3, <1>5, <2>1
    <3> QED BY <1>1, <3>1 DEF StackOK, CurrentOK
  <2>2. ASSUME NEW i \in 1 .. Len(t), t[i].at = "body"
        PROVE  /\ ~Interrupted(t, i) /\ t[i].h \notin {h} => cur[t[i].h] = IF t[i].own THEN t[i].ctx ELSE FallbackCtx
               /\ Interrupted(t, i) \/ t[i].h \in {h} => ~t[i].own
    BY <1>1, <1>3, <1>6, <1>7, <2>2 DEF StackOK, CurrentOK
  <2> QED BY <2>1, <2>2 DEF CurrentOK
<1>9. BatchFrames(t) = BatchFrames(st)
  BY <1>1, <1>3 DEF BatchFrames
<1> QED BY <1>2, <1>4, <1>8, <1>9 DEF StackOK

\* The mark of an interrupted handler.
LEMMA Disowned ==
    ASSUME NEW f, FrameOK(f), f.at = "body", NEW g, g = [f EXCEPT !.own = FALSE]
    PROVE  /\ FrameOK(g) /\ g.at = "body" /\ g.h = f.h /\ g.ctx = f.ctx /\ g.own = FALSE
<1>1. DOMAIN f = CallFields /\ f.h \in Servers
  BY DEF FrameOK
<1>2. DOMAIN g = CallFields
  BY <1>1
<1>3. g.at = f.at /\ g.h = f.h /\ g.ctx = f.ctx /\ g.own = FALSE
  BY <1>1 DEF CallFields
<1> QED BY <1>1, <1>2, <1>3 DEF FrameOK

\* A call on h starts its handler or ends: the others on h are interrupted.
LEMMA BelowOK ==
    ASSUME NEW cur, StackOK(stack, cur, {}), stack # << >>, Top.at \in {"route", "body"},
           NEW h, h = Top.h
    PROVE  /\ StackOK(Below(h), cur, {h})
           /\ BatchFrames(Below(h)) = BatchFrames(stack)
<1>1. PICK n \in Nat : n = Len(stack) /\ n > 0
  BY StackLen DEF StackOK, FramesOK
<1>2. PICK t : t = Below(h)
  OBVIOUS
<1>3. /\ IsStack(t) /\ Len(t) = n - 1
      /\ \A i \in 1 .. n - 1 :
            t[i] = IF stack[i].at = "body" /\ stack[i].h = h THEN [stack[i] EXCEPT !.own = FALSE] ELSE stack[i]
  BY <1>1, <1>2, BelowIs DEF StackOK, FramesOK
<1>4. \A i \in 1 .. n : FrameOK(stack[i])
  BY <1>1 DEF StackOK, FramesOK
<1>5. ASSUME NEW i \in 1 .. n - 1
      PROVE  /\ FrameOK(t[i]) /\ t[i].at = stack[i].at
             /\ stack[i].at = "body" =>
                   /\ t[i].h = stack[i].h /\ t[i].ctx = stack[i].ctx
                   /\ t[i].own = IF stack[i].h = h THEN FALSE ELSE stack[i].own
             /\ stack[i].at # "body" => t[i] = stack[i]
  <2>1. FrameOK(stack[i]) /\ t[i] = IF stack[i].at = "body" /\ stack[i].h = h THEN [stack[i] EXCEPT !.own = FALSE] ELSE stack[i]
    BY <1>1, <1>3, <1>4
  <2>2. CASE stack[i].at = "body" /\ stack[i].h = h
    <3>1. t[i] = [stack[i] EXCEPT !.own = FALSE]
      BY <2>1, <2>2
    <3>2. PICK f, g : f = stack[i] /\ g = t[i]
      OBVIOUS
    <3>3. FrameOK(f) /\ f.at = "body" /\ f.h = h /\ g = [f EXCEPT !.own = FALSE]
      BY <2>1, <2>2, <3>1, <3>2
    <3>4. FrameOK(g) /\ g.at = "body" /\ g.h = h /\ g.ctx = f.ctx /\ g.own = FALSE
      BY <3>3, Disowned
    <3> QED BY <2>2, <3>2, <3>4
  <2>3. CASE ~(stack[i].at = "body" /\ stack[i].h = h)
    <3>1. t[i] = stack[i]
      BY <2>1, <2>3
    <3> QED BY <2>1, <2>3, <3>1
  <2> QED BY <2>2, <2>3
<1>6. FramesOK(t)
  BY <1>1, <1>3, <1>5 DEF FramesOK
<1>7. \A i \in 1 .. n - 1 : \A s : On(t[i], s) <=> On(stack[i], s)
  BY <1>5 DEF On
<1>8. \A s : s # h => ~On(stack[n], s)
  BY <1>1 DEF On, Top
<1>9. \A i \in 1 .. n - 1 : t[i].at = "body" /\ t[i].h # h => (Interrupted(t, i) <=> Interrupted(stack, i))
  <2> SUFFICES ASSUME NEW i \in 1 .. n - 1, t[i].at = "body", t[i].h # h
               PROVE  Interrupted(t, i) <=> Interrupted(stack, i)
    OBVIOUS
  <2>1. \A j \in 1 .. n : j > i => j \in 1 .. n - 1 \/ j = n
    BY <1>1
  <2>2. 1 .. n - 1 \subseteq 1 .. n /\ ~On(stack[n], t[i].h)
    BY <1>1, <1>8
  <2>3. t[i].h = stack[i].h
    BY <1>5
  <2>4. \A j \in 1 .. n - 1 : On(t[j], t[i].h) <=> On(stack[j], stack[i].h)
    BY <1>7, <2>3
  <2> QED BY <1>1, <1>3, <2>1, <2>2, <2>3, <2>4 DEF Interrupted
<1>10. CurrentOK(t, cur, {h})
  <2>1. ASSUME NEW s \in Servers \ {h}, \A i \in 1 .. Len(t) : ~On(t[i], s)
        PROVE  cur[s] = FallbackCtx
    <3>1. \A i \in 1 .. n : ~On(stack[i], s)
      BY <1>1, <1>3, <1>7, <1>8, <2>1
    <3> QED BY <1>1, <3>1 DEF StackOK, CurrentOK
  <2>2. ASSUME NEW i \in 1 .. Len(t), t[i].at = "body"
        PROVE  /\ ~Interrupted(t, i) /\ t[i].h \notin {h} => cur[t[i].h] = IF t[i].own THEN t[i].ctx ELSE FallbackCtx
               /\ Interrupted(t, i) \/ t[i].h \in {h} => ~t[i].own
    <3>1. i \in 1 .. n - 1 /\ i \in 1 .. n /\ stack[i].at = "body"
      <4>1. i \in 1 .. n - 1 /\ i \in 1 .. n
        BY <1>1, <1>3
      <4> QED BY <1>5, <2>2, <4>1
    <3>2. t[i].h = stack[i].h /\ t[i].ctx = stack[i].ctx /\ (t[i].h = h => ~t[i].own) /\ (t[i].h # h => t[i].own = stack[i].own)
      BY <1>5, <3>1
    <3>3. t[i].h # h => (Interrupted(t, i) <=> Interrupted(stack, i))
      BY <1>9, <2>2, <3>1
    <3>4. /\ stack[i].h # h /\ ~Interrupted(stack, i) =>
                 cur[stack[i].h] = IF stack[i].own THEN stack[i].ctx ELSE FallbackCtx
          /\ Interrupted(stack, i) => ~stack[i].own
      <4>1. CurrentOK(stack, cur, {}) /\ i \in 1 .. Len(stack)
        BY <1>1, <3>1 DEF StackOK
      <4> QED BY <3>1, <4>1, Zenon DEF CurrentOK
    <3>5. ASSUME t[i].h # h, ~Interrupted(t, i)
          PROVE  cur[t[i].h] = IF t[i].own THEN t[i].ctx ELSE FallbackCtx
      BY <3>2, <3>3, <3>4, <3>5
    <3>6. Interrupted(t, i) \/ t[i].h = h => ~t[i].own
      BY <3>2, <3>3, <3>4
    <3> QED BY <3>5, <3>6
  <2> QED BY <2>1, <2>2 DEF CurrentOK
<1>11. BatchFrames(t) = BatchFrames(stack)
  <2>1. stack[n].at # "batch"
    BY <1>1 DEF Top
  <2>2. \A i \in 1 .. n : i \in 1 .. n - 1 \/ i = n
    BY <1>1
  <2>3. 1 .. n - 1 \subseteq 1 .. n
    BY <1>1
  <2>4. \A i \in 1 .. n - 1 : t[i].at = stack[i].at
    BY <1>5
  <2>5. \A i : i \in 1 .. n /\ stack[i].at = "batch" <=> i \in 1 .. n - 1 /\ t[i].at = "batch"
    BY <2>1, <2>2, <2>3, <2>4
  <2> QED BY <1>1, <1>3, <2>5 DEF BatchFrames
<1> QED BY <1>2, <1>6, <1>10, <1>11 DEF StackOK

\* The deferred revert of DoHandle.
LEMMA Reverted ==
    ASSUME NEW st, NEW cur, NEW h, StackOK(st, cur, {h}), DOMAIN cur = Servers, h \in Servers
    PROVE  StackOK(st, [cur EXCEPT ![h] = FallbackCtx], {})
<1>1. PICK now : now = [cur EXCEPT ![h] = FallbackCtx]
  OBVIOUS
<1>2. now[h] = FallbackCtx /\ \A s \in Servers : s # h => now[s] = cur[s]
  BY <1>1
<1>3. CurrentOK(st, now, {})
  <2>1. ASSUME NEW s \in Servers, \A i \in 1 .. Len(st) : ~On(st[i], s)
        PROVE  now[s] = FallbackCtx
    BY <1>2, <2>1 DEF StackOK, CurrentOK
  <2>2. ASSUME NEW i \in 1 .. Len(st), st[i].at = "body"
        PROVE  /\ ~Interrupted(st, i) => now[st[i].h] = IF st[i].own THEN st[i].ctx ELSE FallbackCtx
               /\ Interrupted(st, i) => ~st[i].own
    <3>1. st[i].h \in Servers
      BY <2>2 DEF StackOK, FramesOK, FrameOK
    <3> QED BY <1>2, <2>2, <3>1 DEF StackOK, CurrentOK
  <2> QED BY <2>1, <2>2 DEF CurrentOK
<1> QED BY <1>1, <1>3 DEF StackOK

\* A call enters DoHandle of h, or goes on there.
LEMMA PushOn ==
    ASSUME NEW st, NEW cur, NEW h, StackOK(st, cur, {h}),
           NEW f, FrameOK(f), On(f, h), NEW now,
           \A s \in Servers : s # h => now[s] = cur[s],
           f.at = "body" => f.own /\ now[h] = f.ctx
    PROVE  /\ StackOK(Append(st, f), now, {})
           /\ BatchFrames(Append(st, f)) = BatchFrames(st)
<1>1. PICK n \in Nat : n = Len(st)
  BY StackLen DEF StackOK, FramesOK
<1>2. PICK t : t = Append(st, f)
  OBVIOUS
<1>3. IsStack(t) /\ Len(t) = n + 1 /\ t[n + 1] = f /\ \A i \in 1 .. n : t[i] = st[i]
  BY <1>1, <1>2, Pushed DEF StackOK, FramesOK
<1>4. FramesOK(t)
  BY <1>1, <1>3 DEF StackOK, FramesOK
<1>5. \A s : On(t[n + 1], s) <=> s = h
  BY <1>3 DEF On
<1>6. /\ \A i \in 1 .. n : Interrupted(t, i) <=> (Interrupted(st, i) \/ st[i].h = h)
      /\ ~Interrupted(t, n + 1)
  <2>1. \A j \in 1 .. n + 1 : j \in 1 .. n \/ j = n + 1
    BY <1>1
  <2>2. 1 .. n \subseteq 1 .. n + 1 /\ n + 1 \in 1 .. n + 1 /\ \A i \in 1 .. n : i < n + 1
    BY <1>1
  <2>3. \A i \in 1 .. n + 1 : ~(n + 1 < i)
    BY <1>1
  <2> QED BY <1>1, <1>3, <1>5, <2>1, <2>2, <2>3 DEF Interrupted
<1>7. CurrentOK(t, now, {})
  <2>1. ASSUME NEW s \in Servers, \A i \in 1 .. Len(t) : ~On(t[i], s)
        PROVE  now[s] = FallbackCtx
    <3>1. n + 1 \in 1 .. Len(t) /\ \A i \in 1 .. n : i \in 1 .. Len(t)
      BY <1>1, <1>3
    <3>2. s # h /\ \A i \in 1 .. n : ~On(st[i], s)
      BY <1>3, <1>5, <2>1, <3>1
    <3> QED BY <1>1, <3>2 DEF StackOK, CurrentOK
  <2>2. ASSUME NEW i \in 1 .. Len(t), t[i].at = "body"
        PROVE  /\ ~Interrupted(t, i) => now[t[i].h] = IF t[i].own THEN t[i].ctx ELSE FallbackCtx
               /\ Interrupted(t, i) => ~t[i].own
    <3>1. CASE i \in 1 .. n
      <4>1. t[i] = st[i] /\ st[i].h \in Servers
        BY <1>1, <1>3, <2>2, <3>1 DEF StackOK, FramesOK, FrameOK
      <4>2. (Interrupted(st, i) \/ st[i].h = h) => ~st[i].own
        BY <1>1, <2>2, <3>1, <4>1 DEF StackOK, CurrentOK
      <4>3. ~Interrupted(st, i) /\ st[i].h # h => now[st[i].h] = IF st[i].own THEN st[i].ctx ELSE FallbackCtx
        BY <1>1, <2>2, <3>1, <4>1 DEF StackOK, CurrentOK
      <4> QED BY <1>6, <3>1, <4>1, <4>2, <4>3
    <3>2. CASE i = n + 1
      BY <1>3, <1>6, <2>2, <3>2 DEF On
    <3> QED BY <1>1, <1>3, <3>1, <3>2
  <2> QED BY <2>1, <2>2 DEF CurrentOK
<1>8. BatchFrames(t) = BatchFrames(st)
  BY <1>1, <1>3 DEF BatchFrames, On
<1> QED BY <1>2, <1>4, <1>7, <1>8 DEF StackOK

\* A handler leaves its answer to others and returns.
LEMMA Retagged ==
    ASSUME NEW st, NEW cur, StackOK(st, cur, {}), st # << >>, st[Len(st)].at = "body",
           NEW f, f = [st[Len(st)] EXCEPT !.at = "leave"]
    PROVE  /\ StackOK(Append(Front(st), f), cur, {})
           /\ BatchFrames(Append(Front(st), f)) = BatchFrames(st)
<1>1. PICK n \in Nat : n = Len(st) /\ n > 0
  BY StackLen DEF StackOK, FramesOK
<1>2. PICK u : u = Front(st)
  OBVIOUS
<1>3. IsStack(u) /\ Len(u) = n - 1 /\ \A i \in 1 .. n - 1 : u[i] = st[i]
  BY <1>1, <1>2, Popped DEF StackOK, FramesOK
<1>4. PICK t : t = Append(u, f)
  OBVIOUS
<1>5. IsStack(t) /\ Len(t) = n /\ t[n] = f /\ \A i \in 1 .. n - 1 : t[i] = st[i]
  BY <1>1, <1>3, <1>4, Pushed
<1>6. FrameOK(st[n]) /\ FrameOK(f) /\ f.at = "leave" /\ f.h = st[n].h
  BY <1>1 DEF StackOK, FramesOK, FrameOK, CallFields
<1>7. FramesOK(t)
  <2>1. \A i \in 1 .. n : i \in 1 .. n - 1 \/ i = n
    BY <1>1
  <2> QED BY <1>1, <1>5, <1>6, <2>1 DEF StackOK, FramesOK
<1>8. \A i \in 1 .. n : \A s : On(t[i], s) <=> On(st[i], s)
  <2>1. \A i \in 1 .. n : i \in 1 .. n - 1 \/ i = n
    BY <1>1
  <2> QED BY <1>1, <1>5, <1>6, <2>1 DEF On
<1>9. \A i \in 1 .. n - 1 : Interrupted(t, i) <=> Interrupted(st, i)
  BY <1>1, <1>5, <1>8 DEF Interrupted
<1>10. CurrentOK(t, cur, {})
  <2>1. ASSUME NEW s \in Servers, \A i \in 1 .. Len(t) : ~On(t[i], s)
        PROVE  cur[s] = FallbackCtx
    BY <1>1, <1>5, <1>8, <2>1 DEF StackOK, CurrentOK
  <2>2. ASSUME NEW i \in 1 .. Len(t), t[i].at = "body"
        PROVE  /\ ~Interrupted(t, i) => cur[t[i].h] = IF t[i].own THEN t[i].ctx ELSE FallbackCtx
               /\ Interrupted(t, i) => ~t[i].own
    <3>1. i \in 1 .. n /\ (i \in 1 .. n - 1 \/ i = n)
      BY <1>1, <1>5
    <3>2. i # n
      BY <1>5, <1>6, <2>2
    <3> QED BY <1>1, <1>5, <1>9, <2>2, <3>1, <3>2 DEF StackOK, CurrentOK
  <2> QED BY <2>1, <2>2 DEF CurrentOK
<1>11. BatchFrames(t) = BatchFrames(st)
  <2>1. \A i \in 1 .. n : i \in 1 .. n - 1 \/ i = n
    BY <1>1
  <2> QED BY <1>1, <1>5, <1>6, <2>1 DEF BatchFrames
<1> QED BY <1>2, <1>4, <1>7, <1>10, <1>11 DEF StackOK

\* The client's continuation runs inside of the call that answers it.
LEMMA ContinuedOK ==
    ASSUME NEW st, NEW cur, StackOK(st, cur, {}), NEW r
    PROVE  /\ StackOK(st \o Continuation(r), cur, {})
           /\ BatchFrames(st \o Continuation(r)) = BatchFrames(st)
<1>1. FrameOK(Callback(r)) /\ Callback(r).at = "callback"
  BY DEF FrameOK, Callback
<1>2. CASE st \o Continuation(r) = st
  BY <1>2
<1>3. CASE st \o Continuation(r) = Append(st, Callback(r))
  BY <1>1, <1>3, PushPlain
<1> QED BY <1>2, <1>3, Continued DEF StackOK, FramesOK

-----------------------------------------------------------------------------
\* The steps of calls.

ContextInv == StackOK(stack, current, {}) /\ DOMAIN current = Servers

\* What a step of a call may do to the batch that is being sent: nothing, or it
\* ends with an exception.
BatchKept == BatchFrames(stack') = BatchFrames(stack) /\ (failed' <=> failed)
BatchAborted == failed' /\ \E k \in BatchFrames(stack) : BatchFrames(stack') = BatchFrames(stack) \ {k}
CallStep == ContextInv' /\ (BatchKept \/ BatchAborted)

\* The innermost call, and what is below it.
LEMMA TopFacts ==
    ASSUME ContextInv, stack # << >>
    PROVE  IsStack(stack) /\ Len(stack) \in Nat \ {0} /\ FrameOK(Top) /\ Top = stack[Len(stack)]
BY StackLen DEF ContextInv, StackOK, FramesOK, Top

\* A call in IHandler::Handle is not inside of a server.
LEMMA RouteFrame ==
    ASSUME NEW r, NEW h, NEW name, NEW ctx, NEW shield, NEW f, f = HandleFrame(r, h, name, ctx, shield)
    PROVE  FrameOK(f) /\ f.at = "route" /\ f.r = r
BY DEF FrameOK, HandleFrame, CallFields

\* A call that is handed on, and one whose context was moved away.
HandedOn(f, h, name) == [f EXCEPT !.h = h, !.name = name]
NoContext(f) == [f EXCEPT !.ctx = None]

\* Such a call is still one in IHandler::Handle.
LEMMA Rerouted ==
    ASSUME NEW f, FrameOK(f), f.at = "route", NEW h, NEW name, NEW g,
           g = HandedOn(f, h, name), NEW k, k = NoContext(g)
    PROVE  /\ FrameOK(g) /\ g.at = "route" /\ g.r = f.r
           /\ FrameOK(k) /\ k.at = "route" /\ k.r = f.r
<1>1. DOMAIN f = CallFields /\ f.own
  BY DEF FrameOK
<1>2. DOMAIN g = CallFields /\ g.at = "route" /\ g.own /\ g.r = f.r
  BY <1>1 DEF CallFields, HandedOn
<1>3. DOMAIN k = CallFields /\ k.at = "route" /\ k.own /\ k.r = f.r
  BY <1>1, <1>2 DEF CallFields, NoContext
<1> QED BY <1>2, <1>3 DEF FrameOK

\* Send: a call on h, or nothing when the transport is gone.
LEMMA SendOK ==
    ASSUME NEW below, StackOK(below, current, {}), NEW r, NEW name, NEW h, NEW shield,
           Send(below, r, name, h, shield)
    PROVE  StackOK(stack', current, {}) /\ BatchFrames(stack') = BatchFrames(below)
<1>1. CASE h \in alive
  <2>1. PICK f : f = HandleFrame(r, h, name, None, shield)
    OBVIOUS
  <2>2. FrameOK(f) /\ f.at = "route"
    BY <2>1, RouteFrame
  <2>3. stack' = Append(below, f)
    BY <1>1, <2>1 DEF Send
  <2> QED BY <2>2, <2>3, PushPlain
<1>2. CASE h \notin alive
  BY <1>2, ContinuedOK DEF Send
<1> QED BY <1>1, <1>2

\* SendBatch: the frame has one request less and the call is above it.
LEMMA SendBatchStepOK ==
    ASSUME ContextInv, SendBatchStep
    PROVE  CallStep
<1>1. PICK b, rest, r, name :
          /\ b = Top.batch
          /\ Send(Append(Front(stack), BatchFrame(rest)), r, name, Main, FALSE)
  BY DEF SendBatchStep
<1>2. stack # << >> /\ Top.at = "batch" /\ UNCHANGED <<current, failed>>
  BY DEF SendBatchStep, Running, client
<1>3. Len(stack) \in Nat \ {0} /\ IsStack(stack) /\ Top = stack[Len(stack)]
  BY <1>2, TopFacts
<1>4. PICK u : u = Front(stack)
  OBVIOUS
<1>5. StackOK(u, current, {}) /\ BatchFrames(u) = BatchFrames(stack) \ {Len(stack)} /\ Len(u) = Len(stack) - 1
  BY <1>2, <1>3, <1>4, PopPlain, Popped DEF ContextInv
<1>6. PICK v : v = Append(u, BatchFrame(rest))
  OBVIOUS
<1>7. FrameOK(BatchFrame(rest)) /\ BatchFrame(rest).at = "batch"
  BY DEF FrameOK, BatchFrame
<1>8. StackOK(v, current, {}) /\ BatchFrames(v) = BatchFrames(u) \cup {Len(u) + 1}
  BY <1>5, <1>6, <1>7, PushPlain
<1>9. Len(stack) \in BatchFrames(stack)
  BY <1>2, <1>3 DEF BatchFrames
<1>10. BatchFrames(v) = BatchFrames(stack)
  BY <1>3, <1>5, <1>8, <1>9
<1>11. StackOK(stack', current, {}) /\ BatchFrames(stack') = BatchFrames(v)
  BY <1>1, <1>4, <1>6, <1>8, SendOK
<1> QED BY <1>2, <1>10, <1>11 DEF CallStep, BatchKept, ContextInv

\* An exception leaves HandleNotify.
LEMMA ThrowNotifyOK ==
    ASSUME NEW below, NEW now, StackOK(below, now, {}), BatchFrames(below) = BatchFrames(stack),
           NEW shield, ThrowNotify(below, shield), current' = now, DOMAIN now = Servers
    PROVE  CallStep
<1>1. Len(below) \in Nat /\ (below # << >> => Len(below) \in Nat \ {0})
  BY StackLen DEF StackOK, FramesOK
<1>2. CASE ~shield /\ below # << >> /\ below[Len(below)].at = "batch"
  <2>1. stack' = Front(below) /\ failed'
    BY <1>2 DEF ThrowNotify
  <2>2. StackOK(stack', now, {}) /\ BatchFrames(stack') = BatchFrames(below) \ {Len(below)}
    BY <1>2, <2>1, PopPlain
  <2>3. Len(below) \in BatchFrames(below)
    BY <1>1, <1>2 DEF BatchFrames
  <2> QED BY <2>1, <2>2, <2>3 DEF CallStep, BatchAborted, ContextInv
<1>3. CASE ~(~shield /\ below # << >> /\ below[Len(below)].at = "batch")
  <2>1. stack' = below /\ (failed' <=> failed)
    BY <1>3 DEF ThrowNotify
  <2> QED BY <2>1 DEF CallStep, BatchKept, ContextInv
<1> QED BY <1>2, <1>3

\* TryForward finds a route and calls its handler.
LEMMA ForwardOK ==
    ASSUME ContextInv, Forward
    PROVE  CallStep
<1>1. stack # << >> /\ Top.at = "route" /\ current' = current
  BY DEF Forward, Running
<1>2. Len(stack) \in Nat \ {0} /\ Top = stack[Len(stack)] /\ FrameOK(Top)
  BY <1>1, TopFacts
<1>3. PICK u : u = Front(stack)
  OBVIOUS
<1>4. StackOK(u, current, {}) /\ BatchFrames(u) = BatchFrames(stack)
  <2>1. Len(stack) \notin BatchFrames(stack)
    BY <1>1, <1>2 DEF BatchFrames
  <2> QED BY <1>1, <1>2, <1>3, <2>1, PopPlain DEF ContextInv
<1>5. PICK h, name, on, off :
        /\ on = HandedOn(Top, h, name) /\ off = NoContext(on)
        /\ \/ stack' = Append(u, on) /\ failed' = failed
           \/ stack' = u \o <<off>> \o Continuation(Top.r) /\ failed' = failed
           \/ ThrowNotify(u, Top.shield)
  <2>1. PICK h, word, name :
            /\ word = Words(Top.name)[1] /\ h = Mounts[Top.h][word]
            /\ name = TryRoute(LiveRoutes(Top.h), Top.name).method
    OBVIOUS
  <2>2. PICK on, off : on = HandedOn(Top, h, name) /\ off = NoContext(on)
    OBVIOUS
  <2>3. /\ on = [Top EXCEPT !.h = Mounts[Top.h][word], !.name = name]
        /\ off = [on EXCEPT !.ctx = None]
    BY <2>1, <2>2 DEF HandedOn, NoContext
  <2>4. \/ stack' = Append(u, on) /\ failed' = failed
        \/ stack' = u \o <<off>> \o Continuation(Top.r) /\ failed' = failed
        \/ ThrowNotify(u, Top.shield)
    BY <1>3, <2>1, <2>3 DEF Forward
  <2> QED BY <2>2, <2>4
<1>7. FrameOK(on) /\ on.at = "route" /\ FrameOK(off) /\ off.at = "route"
  BY <1>1, <1>2, <1>5, Rerouted
<1>8. CASE stack' = Append(u, on) /\ failed' = failed
  BY <1>1, <1>4, <1>7, <1>8, PushPlain DEF CallStep, BatchKept, ContextInv
<1>9. CASE stack' = u \o <<off>> \o Continuation(Top.r) /\ failed' = failed
  <2>1. u \o <<off>> = Append(u, off)
    BY <1>4, Joined DEF StackOK, FramesOK
  <2>2. PICK v : v = Append(u, off)
    OBVIOUS
  <2>3. StackOK(v, current, {}) /\ BatchFrames(v) = BatchFrames(u)
    BY <1>4, <1>7, <2>2, PushPlain
  <2>4. stack' = v \o Continuation(Top.r)
    BY <1>9, <2>1, <2>2
  <2>5. StackOK(stack', current, {}) /\ BatchFrames(stack') = BatchFrames(v)
    BY <2>3, <2>4, ContinuedOK
  <2> QED BY <1>1, <1>4, <1>9, <2>3, <2>5 DEF CallStep, BatchKept, ContextInv
<1>10. CASE ThrowNotify(u, Top.shield)
  BY <1>1, <1>4, <1>10, ThrowNotifyOK DEF ContextInv
<1> QED BY <1>5, <1>8, <1>9, <1>10

\* The handler is a client: the request goes to its transport.
LEMMA ForwardToTransportOK ==
    ASSUME ContextInv, ForwardToTransport
    PROVE  CallStep
<1>1. stack # << >> /\ Top.at = "route" /\ UNCHANGED <<current, failed>>
  BY DEF ForwardToTransport, Running, client
<1>2. Len(stack) \in Nat \ {0} /\ Top = stack[Len(stack)]
  BY <1>1, TopFacts
<1>3. PICK u : u = Front(stack)
  OBVIOUS
<1>4. StackOK(u, current, {}) /\ BatchFrames(u) = BatchFrames(stack)
  <2>1. Len(stack) \notin BatchFrames(stack)
    BY <1>1, <1>2 DEF BatchFrames
  <2> QED BY <1>1, <1>2, <1>3, <2>1, PopPlain DEF ContextInv
<1>5. Send(u, Top.r, Top.name, ProxyTarget, TRUE)
  BY <1>3 DEF ForwardToTransport
<1>6. StackOK(stack', current, {}) /\ BatchFrames(stack') = BatchFrames(u)
  BY <1>4, <1>5, SendOK
<1> QED BY <1>1, <1>4, <1>6 DEF CallStep, BatchKept, ContextInv

\* A call at another place of DoHandle.
Placed(f, at) == [f EXCEPT !.at = at]
Renamed(f, name) == [f EXCEPT !.name = name]

\* The call goes on in its frame.
LEMMA PlacedOK ==
    ASSUME NEW f, FrameOK(f), f.at \in {"route", "body", "leave"}, f.h \in Servers,
           NEW at \in {"body", "leave"}, NEW g, g = Placed(f, at)
    PROVE  FrameOK(g) /\ g.at = at /\ On(g, f.h) /\ g.own = f.own /\ g.ctx = f.ctx /\ g.r = f.r
<1>1. DOMAIN f = CallFields
  BY DEF FrameOK
<1>2. DOMAIN g = CallFields /\ g.at = at /\ g.h = f.h /\ g.own = f.own /\ g.ctx = f.ctx /\ g.r = f.r
  BY <1>1 DEF Placed, CallFields
<1> QED BY <1>2 DEF FrameOK, On

\* The name may lose its first word on the way.
LEMMA RenamedOK ==
    ASSUME NEW f, FrameOK(f), f.at = "route", NEW name, NEW g, g = Renamed(f, name)
    PROVE  FrameOK(g) /\ g.at = "route" /\ g.h = f.h /\ g.own /\ g.ctx = f.ctx /\ g.r = f.r /\ g.shield = f.shield
<1>1. DOMAIN f = CallFields /\ f.own
  BY DEF FrameOK
<1>2. /\ DOMAIN g = CallFields /\ g.at = "route" /\ g.h = f.h /\ g.own = f.own
      /\ g.ctx = f.ctx /\ g.r = f.r /\ g.shield = f.shield
  BY <1>1 DEF Renamed, CallFields
<1> QED BY <1>1, <1>2 DEF FrameOK

\* The innermost call is in IHandler::Handle or in a handler of the server h.
Inside(h) == stack # << >> /\ Top.at \in {"route", "body"} /\ Top.h = h /\ h \in Servers

\* DoHandle answers.
LEMMA AnswersInsideOK ==
    ASSUME ContextInv, NEW f, Inside(f.h), FrameOK(f), f.at \in {"route", "body"}, NEW a, AnswersInside(f, a),
           DOMAIN current' = Servers, \A s \in Servers : s # f.h => current'[s] = current[s],
           failed' <=> failed
    PROVE  CallStep
<1>1. PICK h : h = f.h
  OBVIOUS
<1>2. PICK u : u = Below(h)
  OBVIOUS
<1>3. StackOK(u, current, {h}) /\ BatchFrames(u) = BatchFrames(stack)
  BY <1>1, <1>2, BelowOK DEF ContextInv, Inside
<1>4. PICK g : g = Placed(f, "leave")
  OBVIOUS
<1>5. FrameOK(g) /\ g.at = "leave" /\ On(g, h)
  BY <1>1, <1>4, PlacedOK DEF Inside
<1>6. stack' = u \o <<g>> \o Continuation(f.r)
  BY <1>1, <1>2, <1>4 DEF AnswersInside, Placed
<1>7. u \o <<g>> = Append(u, g)
  BY <1>3, Joined DEF StackOK, FramesOK
<1>8. PICK v : v = Append(u, g)
  OBVIOUS
<1>9. StackOK(v, current', {}) /\ BatchFrames(v) = BatchFrames(u)
  <2>1. PICK now : now = current'
    OBVIOUS
  <2>2. \A s \in Servers : s # h => now[s] = current[s]
    BY <1>1, <2>1
  <2>3. StackOK(v, now, {}) /\ BatchFrames(v) = BatchFrames(u)
    BY <1>3, <1>5, <1>8, <2>2, PushOn, SMTT(30)
  <2> QED BY <2>1, <2>3
<1>10. stack' = v \o Continuation(f.r)
  BY <1>6, <1>7, <1>8
<1>11. StackOK(stack', current', {}) /\ BatchFrames(stack') = BatchFrames(v)
  BY <1>9, <1>10, ContinuedOK
<1> QED BY <1>3, <1>9, <1>11 DEF CallStep, BatchKept, ContextInv

\* IHandler::Handle throws, or the method is not found.
LEMMA ThrowsOK ==
    ASSUME ContextInv, NEW f, Inside(f.h), NEW e, Throws(f, e)
    PROVE  CallStep
<1>1. PICK h : h = f.h
  OBVIOUS
<1>2. PICK u : u = Below(h)
  OBVIOUS
<1>3. StackOK(u, current, {h}) /\ BatchFrames(u) = BatchFrames(stack)
  BY <1>1, <1>2, BelowOK DEF ContextInv, Inside
<1>4. PICK now : now = [current EXCEPT ![h] = FallbackCtx]
  OBVIOUS
<1>5. current' = now /\ DOMAIN now = Servers
  BY <1>1, <1>4 DEF Throws, LeaveContext, ContextInv
<1>6. StackOK(u, now, {})
  BY <1>1, <1>3, <1>4, Reverted DEF ContextInv, Inside
<1>7. CASE IsMethod(f.r)
  <2>1. stack' = u \o Continuation(f.r) /\ failed' = failed
    BY <1>1, <1>2, <1>7 DEF Throws
  <2>2. StackOK(stack', now, {}) /\ BatchFrames(stack') = BatchFrames(u)
    BY <1>6, <2>1, ContinuedOK
  <2> QED BY <1>3, <1>5, <2>1, <2>2 DEF CallStep, BatchKept, ContextInv
<1>8. CASE ~IsMethod(f.r)
  <2>1. ThrowNotify(u, f.shield)
    BY <1>1, <1>2, <1>8 DEF Throws
  <2> QED BY <1>3, <1>5, <1>6, <2>1, ThrowNotifyOK
<1> QED BY <1>7, <1>8

\* What DoHandle does to the contexts before the handler runs.
LEMMA EnterFacts ==
    ASSUME ContextInv, NEW f, f.h \in Servers, Enter(f)
    PROVE  /\ DOMAIN current' = Servers /\ current'[f.h] = f.ctx
           /\ \A s \in Servers : s # f.h => current'[s] = current[s]
           /\ failed' = failed
BY DEF Enter, ContextInv

\* DoHandle: the handler starts, or there is none to start.
LEMMA DoHandleOK ==
    ASSUME ContextInv, DoHandle
    PROVE  CallStep
<1>1. stack # << >> /\ Top.at = "route" /\ Top.h \in Servers
  BY DEF DoHandle, Running
<1>2. PICK name : MiddlewareThrows(Renamed(Top, name)) \/ Extension(Renamed(Top, name))
                  \/ CallFound(Renamed(Top, name)) \/ NotFound(Renamed(Top, name))
  BY DEF DoHandle, Renamed
<1>3. PICK f : f = Renamed(Top, name)
  OBVIOUS
<1>4. FrameOK(f) /\ f.at = "route" /\ f.h = Top.h /\ f.own /\ f.h \in Servers /\ Inside(f.h)
  BY <1>1, <1>3, TopFacts, RenamedOK DEF Inside
<1>5. ASSUME NEW e, Throws(f, e) PROVE CallStep
  BY <1>4, <1>5, ThrowsOK
<1>6. ASSUME NEW a, Enter(f), AnswersInside(f, a) PROVE CallStep
  BY <1>4, <1>6, EnterFacts, AnswersInsideOK
<1>7. ASSUME NEW at \in {"body", "leave"}, Enter(f), stack' = Append(Below(f.h), Placed(f, at))
      PROVE  CallStep
  <2>1. PICK u, g, h : u = Below(f.h) /\ g = Placed(f, at) /\ h = f.h
    OBVIOUS
  <2>2. StackOK(u, current, {h}) /\ BatchFrames(u) = BatchFrames(stack)
    BY <1>4, <2>1, BelowOK DEF ContextInv, Inside
  <2>3. FrameOK(g) /\ On(g, h) /\ g.own /\ g.ctx = f.ctx
    BY <1>4, <2>1, PlacedOK
  <2>4. /\ DOMAIN current' = Servers /\ current'[h] = f.ctx /\ failed' = failed
        /\ \A s \in Servers : s # h => current'[s] = current[s]
    BY <1>4, <1>7, <2>1, EnterFacts
  <2>5. PICK now : now = current'
    OBVIOUS
  <2>6. StackOK(Append(u, g), now, {}) /\ BatchFrames(Append(u, g)) = BatchFrames(u)
    <3>1. /\ \A s \in Servers : s # h => now[s] = current[s]
          /\ now[h] = g.ctx
      BY <2>3, <2>4, <2>5
    <3> QED BY <2>2, <2>3, <3>1, PushOn
  <2>7. stack' = Append(u, g)
    BY <1>7, <2>1
  <2> QED BY <2>2, <2>4, <2>5, <2>6, <2>7 DEF CallStep, BatchKept, ContextInv
<1>8. CASE MiddlewareThrows(f)
  BY <1>5, <1>8 DEF MiddlewareThrows
<1>9. CASE Extension(f)
  BY <1>5, <1>6, <1>9 DEF Extension
<1>10. CASE CallFound(f)
  BY <1>5, <1>7, <1>10 DEF CallFound, Placed
<1>11. CASE NotFound(f)
  BY <1>5, <1>6, <1>7, <1>11 DEF NotFound, Placed
<1> QED BY <1>2, <1>3, <1>8, <1>9, <1>10, <1>11

\* A handler returns, with an answer or leaving it to others.
LEMMA HandlerReturnsOK ==
    ASSUME ContextInv, HandlerReturns
    PROVE  CallStep
<1>1. stack # << >> /\ Top.at = "body" /\ UNCHANGED <<current, failed>>
  BY DEF HandlerReturns, Running, client
<1>2. PICK f : f = Top
  OBVIOUS
<1>3. FrameOK(f) /\ f.at = "body" /\ f.h \in Servers /\ Inside(f.h) /\ f = stack[Len(stack)]
  BY <1>1, <1>2, TopFacts DEF Inside, FrameOK
<1>4. \/ \E a : AnswersInside(f, a)
      \/ stack' = Append(Front(stack), Placed(f, "leave"))
  BY <1>2 DEF HandlerReturns, Placed
<1>5. ASSUME NEW a, AnswersInside(f, a) PROVE CallStep
  <2>1. current' = current /\ DOMAIN current = Servers
    BY <1>1 DEF ContextInv
  <2> QED BY <1>1, <1>3, <1>5, <2>1, AnswersInsideOK
<1>6. CASE stack' = Append(Front(stack), Placed(f, "leave"))
  <2>1. PICK g : g = Placed(f, "leave")
    OBVIOUS
  <2>2. g = [stack[Len(stack)] EXCEPT !.at = "leave"]
    BY <1>3, <2>1 DEF Placed
  <2>3. StackOK(Append(Front(stack), g), current, {}) /\ BatchFrames(Append(Front(stack), g)) = BatchFrames(stack)
    BY <1>1, <1>3, <2>2, Retagged DEF ContextInv
  <2> QED BY <1>1, <1>6, <2>1, <2>3 DEF CallStep, BatchKept, ContextInv
<1> QED BY <1>4, <1>5, <1>6

\* A handler throws.
LEMMA HandlerThrowsOK ==
    ASSUME ContextInv, HandlerThrows
    PROVE  CallStep
<1>1. stack # << >> /\ Top.at = "body" /\ Throws(Top, "app")
  BY DEF HandlerThrows, Running
<1>2. Inside(Top.h)
  BY <1>1, TopFacts DEF Inside, FrameOK
<1> QED BY <1>1, <1>2, ThrowsOK

\* DoHandle reverts the context and returns.
LEMMA LeaveOK ==
    ASSUME ContextInv, Leave
    PROVE  CallStep
<1>1. stack # << >> /\ Top.at = "leave" /\ UNCHANGED failed
  BY DEF Leave, Running, client
<1>2. Top = stack[Len(stack)] /\ Top.h \in Servers
  BY <1>1, TopFacts DEF FrameOK
<1>3. PICK h, u : h = Top.h /\ u = Front(stack)
  OBVIOUS
<1>4. StackOK(u, current, {h}) /\ BatchFrames(u) = BatchFrames(stack)
  BY <1>1, <1>2, <1>3, PopLeave DEF ContextInv
<1>5. PICK now : now = [current EXCEPT ![h] = FallbackCtx]
  OBVIOUS
<1>6. StackOK(u, now, {}) /\ DOMAIN now = Servers
  BY <1>2, <1>3, <1>4, <1>5, Reverted DEF ContextInv
<1>7. stack' = u /\ current' = now
  BY <1>3, <1>5 DEF Leave, LeaveContext
<1> QED BY <1>1, <1>4, <1>6, <1>7 DEF CallStep, BatchKept, ContextInv

\* A continuation returns.
LEMMA CallbackReturnsOK ==
    ASSUME ContextInv, CallbackReturns
    PROVE  CallStep
<1>1. stack # << >> /\ Top.at = "callback" /\ UNCHANGED <<current, failed>> /\ stack' = Front(stack)
  BY DEF CallbackReturns, Running, client
<1>2. Len(stack) \in Nat \ {0} /\ Top = stack[Len(stack)]
  BY <1>1, TopFacts
<1>3. Len(stack) \notin BatchFrames(stack)
  BY <1>1, <1>2 DEF BatchFrames
<1>4. PICK u : u = Front(stack)
  OBVIOUS
<1>5. StackOK(u, current, {}) /\ BatchFrames(u) = BatchFrames(stack)
  BY <1>1, <1>2, <1>3, <1>4, PopPlain DEF ContextInv
<1> QED BY <1>1, <1>4, <1>5 DEF CallStep, BatchKept, ContextInv

\* An asynchronous handler answers outside of all calls, or above them.
LEMMA SettleOK ==
    ASSUME ContextInv, NEW r \in Requests, Settle(r)
    PROVE  CallStep
<1>1. stack = << >> /\ UNCHANGED <<current, failed>> /\ stack' = Continuation(r)
  BY DEF Settle, client
<1>2. << >> \o Continuation(r) = Continuation(r)
  BY DEF Continuation
<1>3. stack' = stack \o Continuation(r)
  BY <1>1, <1>2
<1>4. StackOK(stack', current, {}) /\ BatchFrames(stack') = BatchFrames(stack)
  BY <1>3, ContinuedOK DEF ContextInv
<1> QED BY <1>1, <1>4 DEF CallStep, BatchKept, ContextInv

-----------------------------------------------------------------------------
\* The batch that is collected.

At(q, r) == {i \in DOMAIN q : q[i] = r}
Tagged(t, S) == {<<t, i>> : i \in S}

\* The places of a request in a batch, by list and position.
LEMMA InBatchIs ==
    ASSUME NEW b, NEW r
    PROVE  /\ InBatch(b, r) = Tagged("m", At(b.methods, r)) \cup Tagged("n", At(b.notifs, r))
           /\ InBatch(b, r) = {} <=> (At(b.methods, r) = {} /\ At(b.notifs, r) = {})
<1>1. InBatch(b, r) = Tagged("m", At(b.methods, r)) \cup Tagged("n", At(b.notifs, r))
  BY DEF InBatch, Tagged, At
<1>2. \A t, S : Tagged(t, S) = {} <=> S = {}
  BY DEF Tagged
<1> QED BY <1>1, <1>2

\* The positions of a value in a list that got one more element.
LEMMA AtAppend ==
    ASSUME NEW S, NEW q \in Seq(S), NEW r \in S, NEW x
    PROVE  At(Append(q, r), x) = IF x = r THEN At(q, x) \cup {Len(q) + 1} ELSE At(q, x)
<1>1. Len(q) \in Nat /\ DOMAIN q = 1 .. Len(q)
  OBVIOUS
<1>2. PICK t : t = Append(q, r)
  OBVIOUS
<1>3. DOMAIN t = 1 .. Len(q) + 1 /\ t[Len(q) + 1] = r /\ \A i \in 1 .. Len(q) : t[i] = q[i]
  BY <1>2
<1>4. \A i : i \in At(t, x) <=> IF x = r THEN i \in At(q, x) \cup {Len(q) + 1} ELSE i \in At(q, x)
  <2>1. \A i : i \in DOMAIN t <=> i \in DOMAIN q \/ i = Len(q) + 1
    BY <1>1, <1>3
  <2>2. Len(q) + 1 \notin DOMAIN q
    BY <1>1
  <2> QED BY <1>1, <1>3, <2>1, <2>2 DEF At
<1> QED BY <1>2, <1>4

\* Exactly one.
Once(S) == \E p : S = {p}

\* The entry of the request r.
Queued(b, kind, r) ==
    IF kind = "n" THEN [b EXCEPT !.notifs = Append(@, r)] ELSE [b EXCEPT !.methods = Append(@, r)]

\* A request that is queued is in the batch once; the others are where they were.
LEMMA QueuedIs ==
    ASSUME NEW b \in Batches, NEW r \in Requests, NEW kind
    PROVE  /\ Queued(b, kind, r) \in Batches
           /\ \A x : x # r => InBatch(Queued(b, kind, r), x) = InBatch(b, x)
           /\ InBatch(b, r) = {} => Once(InBatch(Queued(b, kind, r), r))
<1>1. b.methods \in Seq(Requests) /\ b.notifs \in Seq(Requests) /\ DOMAIN b = {"methods", "notifs"}
  BY DEF Batches
<1>2. PICK c : c = Queued(b, kind, r)
  OBVIOUS
<1>3. CASE kind = "n"
  <2>1. c.methods = b.methods /\ c.notifs = Append(b.notifs, r) /\ c \in Batches
    <3>1. PICK q : q = Append(b.notifs, r)
      OBVIOUS
    <3>2. q \in Seq(Requests)
      BY <1>1, <3>1
    <3>3. c = [b EXCEPT !.notifs = q]
      BY <1>2, <1>3, <3>1 DEF Queued
    <3>4. c.methods = b.methods /\ c.notifs = q
      BY <1>1, <3>3
    <3>5. c \in Batches
      BY <3>2, <3>3 DEF Batches
    <3> QED BY <3>1, <3>4, <3>5
  <2>2. \A x : x # r => At(c.methods, x) = At(b.methods, x) /\ At(c.notifs, x) = At(b.notifs, x)
    BY <1>1, <2>1, AtAppend
  <2>3. At(c.methods, r) = At(b.methods, r) /\ At(c.notifs, r) = At(b.notifs, r) \cup {Len(b.notifs) + 1}
    BY <1>1, <2>1, AtAppend
  <2>4. ASSUME InBatch(b, r) = {} PROVE Once(InBatch(c, r))
    <3>1. At(c.methods, r) = {} /\ At(c.notifs, r) = {Len(b.notifs) + 1}
      BY <2>3, <2>4, InBatchIs
    <3>2. Tagged("m", {}) = {} /\ \A i : Tagged("n", {i}) = {<<"n", i>>}
      BY DEF Tagged
    <3>3. InBatch(c, r) = {<<"n", Len(b.notifs) + 1>>}
      BY <3>1, <3>2, InBatchIs
    <3> QED BY <3>3 DEF Once
  <2>5. \A x : x # r => InBatch(c, x) = InBatch(b, x)
    <3> SUFFICES ASSUME NEW x, x # r PROVE InBatch(c, x) = InBatch(b, x)
      OBVIOUS
    <3>1. At(c.methods, x) = At(b.methods, x) /\ At(c.notifs, x) = At(b.notifs, x)
      BY <2>2
    <3> QED BY <3>1, InBatchIs
  <2> QED BY <1>2, <2>1, <2>4, <2>5
<1>4. CASE kind # "n"
  <2>1. c.notifs = b.notifs /\ c.methods = Append(b.methods, r) /\ c \in Batches
    <3>1. PICK q : q = Append(b.methods, r)
      OBVIOUS
    <3>2. q \in Seq(Requests)
      BY <1>1, <3>1
    <3>3. c = [b EXCEPT !.methods = q]
      BY <1>2, <1>4, <3>1 DEF Queued
    <3>4. c.notifs = b.notifs /\ c.methods = q
      BY <1>1, <3>3
    <3>5. c \in Batches
      BY <3>2, <3>3 DEF Batches
    <3> QED BY <3>1, <3>4, <3>5
  <2>2. \A x : x # r => At(c.methods, x) = At(b.methods, x) /\ At(c.notifs, x) = At(b.notifs, x)
    BY <1>1, <2>1, AtAppend
  <2>3. At(c.notifs, r) = At(b.notifs, r) /\ At(c.methods, r) = At(b.methods, r) \cup {Len(b.methods) + 1}
    BY <1>1, <2>1, AtAppend
  <2>4. ASSUME InBatch(b, r) = {} PROVE Once(InBatch(c, r))
    <3>1. At(c.notifs, r) = {} /\ At(c.methods, r) = {Len(b.methods) + 1}
      BY <2>3, <2>4, InBatchIs
    <3>2. Tagged("n", {}) = {} /\ \A i : Tagged("m", {i}) = {<<"m", i>>}
      BY DEF Tagged
    <3>3. InBatch(c, r) = {<<"m", Len(b.methods) + 1>>}
      BY <3>1, <3>2, InBatchIs
    <3> QED BY <3>3 DEF Once
  <2>5. \A x : x # r => InBatch(c, x) = InBatch(b, x)
    <3> SUFFICES ASSUME NEW x, x # r PROVE InBatch(c, x) = InBatch(b, x)
      OBVIOUS
    <3>1. At(c.methods, x) = At(b.methods, x) /\ At(c.notifs, x) = At(b.notifs, x)
      BY <2>2
    <3> QED BY <3>1, InBatchIs
  <2> QED BY <1>2, <2>1, <2>4, <2>5
<1> QED BY <1>3, <1>4

\* Nothing is in the empty batch.
LEMMA EmptyBatchIs ==
    /\ EmptyBatch \in Batches
    /\ \A r : InBatch(EmptyBatch, r) = {}
<1>1. << >> \in Seq(Requests) /\ DOMAIN << >> = {}
  OBVIOUS
<1>2. EmptyBatch.methods = << >> /\ EmptyBatch.notifs = << >> /\ EmptyBatch \in Batches
  BY <1>1 DEF EmptyBatch, Batches
<1>3. \A r : At(<< >>, r) = {}
  BY <1>1 DEF At
<1> QED BY <1>2, <1>3, InBatchIs

-----------------------------------------------------------------------------
\* A batch is being collected, being sent, or has failed.

BatchInv ==
    /\ batches \in 0 .. MaxBatches
    /\ \A k, l \in BatchFrames(stack) : k = l
    /\ guard => batchActive /\ BatchFrames(stack) = {} /\ ~failed /\ batches > 0
    /\ BatchFrames(stack) # {} => batchActive /\ ~failed
    /\ failed => batchActive
    /\ batchActive => guard \/ failed \/ BatchFrames(stack) # {}

QueueInv ==
    /\ IsStack(req)
    /\ currentBatch \in Batches
    /\ \A r : InBatch(currentBatch, r) # {} => r \in 1 .. Len(req)
    /\ \A r \in 1 .. Len(req) :
          /\ req[r].during \in 0 .. batches \cup {WhileSending}
          /\ InBatch(currentBatch, r) # {} /\ ~failed =>
                req[r].during = WhileSending \/ (guard /\ req[r].during = batches)
          /\ guard /\ req[r].during = batches => Once(InBatch(currentBatch, r))

CallsInv == ContextInv /\ BatchInv /\ QueueInv

\* SendBatch runs if a frame of it is on the stack.
LEMMA SendingIs == ContextInv => (Sending <=> BatchFrames(stack) # {})
<1> SUFFICES ASSUME ContextInv PROVE Sending <=> BatchFrames(stack) # {}
  OBVIOUS
<1>1. DOMAIN stack = 1 .. Len(stack)
  BY StackLen DEF ContextInv, StackOK, FramesOK
<1> QED BY <1>1 DEF Sending, BatchFrames

\* The steps of calls do not touch the batch that is collected.
LEMMA CallStepBatch ==
    ASSUME CallsInv, CallStep, UNCHANGED <<req, batchActive, currentBatch, guard, batches>>
    PROVE  CallsInv'
<1>1. CASE BatchKept
  <2>1. BatchInv'
    BY <1>1 DEF CallsInv, BatchInv, BatchKept
  <2>2. QueueInv'
    BY <1>1 DEF CallsInv, QueueInv, BatchKept, WhileSending
  <2> QED BY <2>1, <2>2 DEF CallsInv, CallStep
<1>2. CASE BatchAborted
  <2>1. ~failed /\ batchActive /\ ~guard /\ BatchFrames(stack') = {}
    BY <1>2 DEF CallsInv, BatchInv, BatchAborted
  <2>2. BatchInv'
    BY <1>2, <2>1 DEF CallsInv, BatchInv, BatchAborted
  <2>3. QueueInv'
    BY <1>2, <2>1 DEF CallsInv, QueueInv, BatchAborted, WhileSending
  <2> QED BY <2>2, <2>3 DEF CallsInv, CallStep
<1> QED BY <1>1, <1>2 DEF CallStep

\* Nothing is called or collected at first.
LEMMA InitCalls == Init => CallsInv
<1> SUFFICES ASSUME Init PROVE CallsInv
  OBVIOUS
<1>1. IsStack(stack) /\ Len(stack) = 0 /\ IsStack(req) /\ Len(req) = 0
  BY EmptyStack DEF Init
<1>2. DOMAIN current = Servers /\ \A s \in Servers : current[s] = FallbackCtx
  BY DEF Init
<1>3. ContextInv
  BY <1>1, <1>2 DEF ContextInv, StackOK, FramesOK, CurrentOK
<1>4. BatchFrames(stack) = {}
  BY <1>1 DEF BatchFrames
<1>5. BatchInv
  BY <1>4, BoundsAssumption DEF Init, BatchInv
<1>6. QueueInv
  BY <1>1, EmptyBatchIs DEF Init, QueueInv
<1> QED BY <1>3, <1>5, <1>6 DEF CallsInv

\* StartBatch: refused, or an empty batch under a guard.
LEMMA StartBatchOK ==
    ASSUME CallsInv, StartBatch
    PROVE  CallsInv'
<1>1. /\ ~batchActive /\ batches < MaxBatches /\ batches \in Nat /\ MaxBatches \in Nat
      /\ batchActive' = TRUE /\ guard' = TRUE /\ batches' = batches + 1
      /\ UNCHANGED <<req, currentBatch, failed, current, stack>>
  BY BoundsAssumption DEF StartBatch, CallsInv, BatchInv, config
<1>2. ContextInv'
  BY <1>1 DEF CallsInv, ContextInv
<1>3. ~failed /\ ~guard /\ BatchFrames(stack) = {}
  BY <1>1 DEF CallsInv, BatchInv
<1>4. BatchInv'
  BY <1>1, <1>3 DEF CallsInv, BatchInv
<1>5. batches' # WhileSending /\ WhileSending \in Nat
  BY <1>1 DEF WhileSending
<1>6. QueueInv'
  <2>1. \A r \in 1 .. Len(req) :
           /\ req[r].during \in 0 .. batches \cup {WhileSending}
           /\ InBatch(currentBatch, r) # {} => req[r].during = WhileSending
    BY <1>3 DEF CallsInv, QueueInv
  <2>2. \A r \in 1 .. Len(req) : req[r].during # batches + 1 /\ req[r].during \in 0 .. batches + 1 \cup {WhileSending}
    BY <1>1, <1>5, <2>1
  <2> QED BY <1>1, <2>1, <2>2 DEF CallsInv, QueueInv, WhileSending
<1> QED BY <1>2, <1>4, <1>6 DEF CallsInv

\* BatchGuard::Finish: no guard any more, and SendBatch runs or has failed at once.
LEMMA FinishOK ==
    ASSUME CallsInv, Finish
    PROVE  CallsInv'
<1>1. /\ guard /\ ~guard' /\ UNCHANGED <<req, batchActive, batches, current>>
  BY DEF Finish, config
<1>2. batchActive /\ BatchFrames(stack) = {} /\ ~failed
  BY <1>1 DEF CallsInv, BatchInv
<1>3. CASE connected
  <2>1. PICK f : f = BatchFrame(currentBatch)
    OBVIOUS
  <2>2. stack' = Append(stack, f) /\ currentBatch' = EmptyBatch /\ failed' = failed
    BY <1>3, <2>1 DEF Finish
  <2>3. FrameOK(f) /\ f.at = "batch"
    BY <2>1 DEF FrameOK, BatchFrame
  <2>4. StackOK(stack', current, {}) /\ BatchFrames(stack') = {Len(stack) + 1}
    BY <1>2, <2>2, <2>3, PushPlain DEF CallsInv, ContextInv
  <2>5. ContextInv'
    BY <1>1, <2>4 DEF CallsInv, ContextInv
  <2>6. BatchInv'
    BY <1>1, <1>2, <2>2, <2>4 DEF CallsInv, BatchInv
  <2>7. QueueInv'
    BY <1>1, <2>2, EmptyBatchIs DEF CallsInv, QueueInv, WhileSending
  <2> QED BY <2>5, <2>6, <2>7 DEF CallsInv
<1>4. CASE ~connected
  <2>1. failed' /\ UNCHANGED <<stack, currentBatch>>
    BY <1>4 DEF Finish
  <2>2. ContextInv'
    BY <1>1, <2>1 DEF CallsInv, ContextInv
  <2>3. BatchInv'
    BY <1>1, <1>2, <2>1 DEF CallsInv, BatchInv
  <2>4. QueueInv'
    BY <1>1, <2>1 DEF CallsInv, QueueInv, WhileSending
  <2> QED BY <2>2, <2>3, <2>4 DEF CallsInv
<1> QED BY <1>3, <1>4

\* batchDone: SendBatch is over and the batch free.
LEMMA BatchDoneOK ==
    ASSUME CallsInv, BatchDone
    PROVE  CallsInv'
<1>1. /\ stack # << >> /\ Top.at = "batch" /\ stack' = Front(stack) /\ batchActive' = FALSE
      /\ UNCHANGED <<req, currentBatch, guard, failed, batches, current>>
  BY DEF BatchDone, Running, config
<1>2. Len(stack) \in Nat \ {0} /\ Top = stack[Len(stack)]
  BY <1>1, TopFacts DEF CallsInv
<1>3. Len(stack) \in BatchFrames(stack)
  BY <1>1, <1>2 DEF BatchFrames
<1>4. ~guard /\ ~failed /\ BatchFrames(stack) = {Len(stack)}
  BY <1>3 DEF CallsInv, BatchInv
<1>5. PICK u : u = Front(stack)
  OBVIOUS
<1>6. StackOK(u, current, {}) /\ BatchFrames(u) = {}
  BY <1>1, <1>2, <1>4, <1>5, PopPlain DEF CallsInv, ContextInv
<1>7. ContextInv'
  BY <1>1, <1>5, <1>6 DEF CallsInv, ContextInv
<1>8. BatchInv'
  BY <1>1, <1>4, <1>5, <1>6 DEF CallsInv, BatchInv
<1>9. QueueInv'
  BY <1>1 DEF CallsInv, QueueInv, WhileSending
<1> QED BY <1>7, <1>8, <1>9 DEF CallsInv

\* A request is made: it is the last.
LEMMA Requested ==
    ASSUME CallsInv, NEW q, req' = Append(req, q), NEW r, r = Len(req) + 1
    PROVE  /\ IsStack(req') /\ Len(req') = r /\ r \in Nat /\ req'[r] = q
           /\ \A x \in 1 .. Len(req) : req'[x] = req[x] /\ x # r
           /\ \A x \in 1 .. r : x \in 1 .. Len(req) \/ x = r
           /\ InBatch(currentBatch, r) = {}
<1>1. Len(req) \in Nat
  BY StackLen DEF CallsInv, QueueInv
<1> QED BY <1>1, Pushed DEF CallsInv, QueueInv

\* sendRequest, NotifyRaw: into the batch, or sent at once.
LEMMA RequestOK ==
    ASSUME CallsInv, NEW p, Request(p)
    PROVE  CallsInv'
<1>1. PICK r : r = Len(req) + 1
  OBVIOUS
<1>2. PICK q : q = [name |-> AddPref(p.name, prefix), notify |-> p.notify,
                    params |-> p.params, from |-> "client", during |-> Period]
  OBVIOUS
<1>3. /\ req' = Append(req, q) /\ r \in Requests /\ q.during = Period
      /\ UNCHANGED <<batchActive, guard, failed, batches, current>>
  BY <1>1, <1>2 DEF Request
<1>4. batches \in 0 .. MaxBatches /\ MaxBatches \in Nat
  BY BoundsAssumption DEF CallsInv, BatchInv
<1>5. q.during = IF guard THEN batches ELSE IF BatchFrames(stack) # {} THEN WhileSending ELSE Free
  BY <1>3, SendingIs DEF Period, CallsInv
<1>6. q.during \in 0 .. batches \cup {WhileSending}
  BY <1>4, <1>5 DEF Free
<1>7. CASE batchActive
  <2>1. PICK kind : kind = IF p.notify THEN "n" ELSE "m"
    OBVIOUS
  <2>2. currentBatch' = Queued(currentBatch, kind, r) /\ stack' = stack
    BY <1>1, <1>7, <2>1 DEF Request, Queues, Queued
  <2>3. ContextInv'
    BY <1>3, <2>2 DEF CallsInv, ContextInv
  <2>4. BatchInv'
    BY <1>3, <2>2 DEF CallsInv, BatchInv
  <2>5. /\ currentBatch' \in Batches
        /\ \A x : x # r => InBatch(currentBatch', x) = InBatch(currentBatch, x)
        /\ Once(InBatch(currentBatch', r))
    <3>1. InBatch(currentBatch, r) = {} /\ currentBatch \in Batches
      BY <1>1, <1>3, Requested DEF CallsInv, QueueInv
    <3>2. PICK old, b : old = currentBatch /\ b = Queued(old, kind, r)
      OBVIOUS
    <3>3. /\ b \in Batches
          /\ \A x : x # r => InBatch(b, x) = InBatch(currentBatch, x)
          /\ Once(InBatch(b, r))
      <4>1. old \in Batches /\ r \in Requests /\ InBatch(old, r) = {}
        BY <1>3, <3>1, <3>2
      <4>2. b \in Batches
        BY <3>2, <4>1, QueuedIs
      <4>3. \A x : x # r => InBatch(b, x) = InBatch(old, x)
        BY <3>2, <4>1, QueuedIs
      <4>4. Once(InBatch(b, r))
        BY <3>2, <4>1, QueuedIs
      <4> QED BY <3>2, <4>2, <4>3, <4>4
    <3>4. currentBatch' = b
      BY <2>2, <3>2
    <3>5. \A x : InBatch(currentBatch', x) = InBatch(b, x)
      BY <3>4
    <3> QED BY <3>3, <3>4, <3>5
  <2>6. \A x : InBatch(currentBatch', x) # {} => x \in 1 .. r
    BY <1>1, <1>3, <2>5, Requested DEF CallsInv, QueueInv
  <2>7. ASSUME NEW x \in 1 .. r
        PROVE  /\ req'[x].during \in 0 .. batches \cup {WhileSending}
               /\ InBatch(currentBatch', x) # {} /\ ~failed =>
                     req'[x].during = WhileSending \/ (guard /\ req'[x].during = batches)
               /\ guard /\ req'[x].during = batches => Once(InBatch(currentBatch', x))
    <3>1. CASE x = r
      <4>1. req'[x] = q
        BY <1>1, <1>3, <3>1, Requested
      <4>2. ~failed => guard \/ BatchFrames(stack) # {}
        BY <1>7 DEF CallsInv, BatchInv
      <4>3. ~failed => q.during = WhileSending \/ (guard /\ q.during = batches)
        BY <1>5, <4>2
      <4> QED BY <1>6, <2>5, <3>1, <4>1, <4>3
    <3>2. CASE x \in 1 .. Len(req)
      <4>1. req'[x] = req[x] /\ x # r
        BY <1>1, <1>3, <3>2, Requested
      <4> QED BY <2>5, <3>2, <4>1 DEF CallsInv, QueueInv
    <3> QED BY <1>1, <1>3, <3>1, <3>2, Requested
  <2>8. IsStack(req') /\ Len(req') = r
    BY <1>1, <1>3, Requested
  <2>9. QueueInv'
    BY <1>3, <2>5, <2>6, <2>7, <2>8 DEF QueueInv, WhileSending
  <2> QED BY <2>3, <2>4, <2>9 DEF CallsInv
<1>8. CASE ~batchActive
  <2>1. ~guard /\ ~failed /\ BatchFrames(stack) = {}
    BY <1>8 DEF CallsInv, BatchInv
  <2>2. PICK name, shield, f : name = q.name /\ shield = FALSE /\ f = HandleFrame(r, Main, name, None, shield)
    OBVIOUS
  <2>3. currentBatch' = currentBatch /\ (stack' = stack \/ stack' = Append(stack, f))
    BY <1>1, <1>2, <1>8, <2>2 DEF Request, Queues
  <2>4. FrameOK(f) /\ f.at = "route"
    BY <2>2, RouteFrame
  <2>5. StackOK(stack', current, {}) /\ BatchFrames(stack') = {}
    <3>1. CASE stack' = stack
      BY <2>1, <3>1 DEF CallsInv, ContextInv
    <3>2. CASE stack' = Append(stack, f)
      BY <2>1, <2>4, <3>2, PushPlain DEF CallsInv, ContextInv
    <3> QED BY <2>3, <3>1, <3>2
  <2>6. ContextInv'
    BY <1>3, <2>5 DEF CallsInv, ContextInv
  <2>7. BatchInv'
    BY <1>3, <2>1, <2>5 DEF CallsInv, BatchInv
  <2>8. QueueInv'
    <3>1. IsStack(req') /\ Len(req') = r /\ InBatch(currentBatch, r) = {} /\ req'[r] = q /\ r \in Nat
      BY <1>1, <1>3, Requested
    <3>2. \A x \in 1 .. r : x = r \/ (x \in 1 .. Len(req) /\ req'[x] = req[x])
      BY <1>1, <1>3, Requested
    <3>3. \A x : InBatch(currentBatch, x) # {} => x \in 1 .. r
      BY <1>1, <3>1 DEF CallsInv, QueueInv
    <3> QED BY <1>3, <1>6, <2>1, <2>3, <3>1, <3>2, <3>3 DEF CallsInv, QueueInv, WhileSending
  <2> QED BY <2>6, <2>7, <2>8 DEF CallsInv
<1> QED BY <1>7, <1>8

\* A peer's request enters a server.
LEMMA ReceiveOK ==
    ASSUME CallsInv, NEW p, Receive(p)
    PROVE  CallsInv'
<1>1. PICK r : r = Len(req) + 1
  OBVIOUS
<1>2. PICK q, name : /\ req' = Append(req, q) /\ q.during = Free
                     /\ stack' = <<HandleFrame(r, Main, name, r, TRUE)>>
  BY <1>1 DEF Receive
<1>3. stack = << >> /\ UNCHANGED <<batchActive, currentBatch, guard, failed, batches, current>>
  BY DEF Receive, client
<1>4. PICK shield, f : shield = TRUE /\ f = HandleFrame(r, Main, name, r, shield)
  OBVIOUS
<1>5. FrameOK(f) /\ f.at = "route"
  BY <1>4 DEF FrameOK, HandleFrame, CallFields
<1>6. stack' = Append(stack, f)
  <2>1. Append(<< >>, f) = <<f>>
    OBVIOUS
  <2> QED BY <1>2, <1>3, <1>4, <2>1
<1>7. StackOK(stack', current, {}) /\ BatchFrames(stack') = BatchFrames(stack)
  BY <1>5, <1>6, PushPlain DEF CallsInv, ContextInv
<1>8. ContextInv'
  BY <1>3, <1>7 DEF CallsInv, ContextInv
<1>9. BatchInv'
  BY <1>3, <1>7 DEF CallsInv, BatchInv
<1>10. QueueInv'
  <2>1. IsStack(req') /\ Len(req') = r /\ InBatch(currentBatch, r) = {} /\ req'[r] = q /\ r \in Nat
    BY <1>1, <1>2, Requested
  <2>2. \A x \in 1 .. r : x = r \/ (x \in 1 .. Len(req) /\ req'[x] = req[x])
    BY <1>1, <1>2, Requested
  <2>3. \A x : InBatch(currentBatch, x) # {} => x \in 1 .. r
    BY <1>1, <2>1 DEF CallsInv, QueueInv
  <2>4. q.during \in 0 .. batches \cup {WhileSending} /\ (guard => q.during # batches)
    BY <1>2, BoundsAssumption DEF CallsInv, BatchInv, Free
  <2> QED BY <1>3, <2>1, <2>2, <2>3, <2>4 DEF CallsInv, QueueInv, WhileSending
<1> QED BY <1>8, <1>9, <1>10 DEF CallsInv

\* Nothing that the invariant speaks of changes.
LEMMA QuietOK ==
    ASSUME CallsInv, UNCHANGED <<req, batchActive, currentBatch, guard, failed, batches, current, stack>>
    PROVE  CallsInv'
<1>1. ContextInv'
  BY DEF CallsInv, ContextInv
<1>2. BatchInv'
  BY DEF CallsInv, BatchInv
<1>3. QueueInv'
  BY DEF CallsInv, QueueInv, WhileSending
<1> QED BY <1>1, <1>2, <1>3 DEF CallsInv

\* Transports, prefixes, fallbacks, servers, routes and handlers come and go.
LEMMA ReconfigureOK ==
    ASSUME CallsInv, Reconfigure
    PROVE  CallsInv'
<1>1. UNCHANGED <<req, batchActive, currentBatch, guard, failed, batches, current, stack>>
  BY DEF Reconfigure, SetTransport, SetPrefix, SetFallback, DestroyServer, SetRoute, RegisterCall,
         Unregister, Calm
<1> QED BY <1>1, QuietOK

\* Every step keeps the invariant.
LEMMA StepCalls == CallsInv /\ [Next]_vars => CallsInv'
<1> SUFFICES ASSUME CallsInv, [Next]_vars PROVE CallsInv'
  OBVIOUS
<1>1. ContextInv
  BY DEF CallsInv
<1>2. CASE UNCHANGED vars
  BY <1>2, QuietOK DEF vars, client
<1>3. CASE Idle
  BY <1>3, QuietOK DEF Idle, vars, client
<1>4. CASE StartBatch
  BY <1>4, StartBatchOK
<1>5. CASE Finish
  BY <1>5, FinishOK
<1>6. ASSUME NEW p \in Profiles, Request(p) PROVE CallsInv'
  BY <1>6, RequestOK
<1>7. ASSUME NEW p \in PeerProfiles, Receive(p) PROVE CallsInv'
  BY <1>7, ReceiveOK
<1>8. ASSUME NEW r \in Requests, Settle(r) PROVE CallsInv'
  <2>1. UNCHANGED <<req, batchActive, currentBatch, guard, batches>>
    BY <1>8 DEF Settle, client
  <2> QED BY <1>1, <1>8, <2>1, SettleOK, CallStepBatch
<1>9. CASE Reconfigure
  BY <1>9, ReconfigureOK
<1>10. CASE SendBatchStep
  <2>1. UNCHANGED <<req, batchActive, currentBatch, guard, batches>>
    BY <1>10 DEF SendBatchStep, client
  <2> QED BY <1>1, <1>10, <2>1, SendBatchStepOK, CallStepBatch
<1>11. CASE BatchDone
  BY <1>11, BatchDoneOK
<1>12. CASE Forward
  <2>1. UNCHANGED <<req, batchActive, currentBatch, guard, batches>>
    BY <1>12 DEF Forward
  <2> QED BY <1>1, <1>12, <2>1, ForwardOK, CallStepBatch
<1>13. CASE ForwardToTransport
  <2>1. UNCHANGED <<req, batchActive, currentBatch, guard, batches>>
    BY <1>13 DEF ForwardToTransport, client
  <2> QED BY <1>1, <1>13, <2>1, ForwardToTransportOK, CallStepBatch
<1>14. CASE DoHandle
  <2>1. UNCHANGED <<req, batchActive, currentBatch, guard, batches>>
    BY <1>14 DEF DoHandle
  <2> QED BY <1>1, <1>14, <2>1, DoHandleOK, CallStepBatch
<1>15. CASE HandlerReturns
  <2>1. UNCHANGED <<req, batchActive, currentBatch, guard, batches>>
    BY <1>15 DEF HandlerReturns, client
  <2> QED BY <1>1, <1>15, <2>1, HandlerReturnsOK, CallStepBatch
<1>16. CASE HandlerThrows
  <2>1. UNCHANGED <<req, batchActive, currentBatch, guard, batches>>
    BY <1>16 DEF HandlerThrows
  <2> QED BY <1>1, <1>16, <2>1, HandlerThrowsOK, CallStepBatch
<1>17. CASE Leave
  <2>1. UNCHANGED <<req, batchActive, currentBatch, guard, batches>>
    BY <1>17 DEF Leave, client
  <2> QED BY <1>1, <1>17, <2>1, LeaveOK, CallStepBatch
<1>18. CASE CallbackReturns
  <2>1. UNCHANGED <<req, batchActive, currentBatch, guard, batches>>
    BY <1>18 DEF CallbackReturns, client
  <2> QED BY <1>1, <1>18, <2>1, CallbackReturnsOK, CallStepBatch
<1> QED BY <1>2, <1>3, <1>4, <1>5, <1>6, <1>7, <1>8, <1>9, <1>10, <1>11, <1>12, <1>13, <1>14,
           <1>15, <1>16, <1>17, <1>18 DEF Next, Return, Handle

\* The invariant gives the contexts,
LEMMA InvIsOwnContext == CallsInv => OwnContext
<1> SUFFICES ASSUME CallsInv PROVE OwnContext
  OBVIOUS
<1>1. ASSUME Running("body")
      PROVE  current[Top.h] = IF Top.own THEN Top.ctx ELSE FallbackCtx
  <2>1. Len(stack) \in Nat \ {0} /\ Top = stack[Len(stack)] /\ Top.at = "body"
    BY <1>1, TopFacts DEF CallsInv, Running
  <2>2. ~Interrupted(stack, Len(stack))
    BY <2>1 DEF Interrupted
  <2> QED BY <2>1, <2>2 DEF CallsInv, ContextInv, StackOK, CurrentOK
<1>2. stack = << >> => \A s \in Servers : current[s] = FallbackCtx
  <2>1. stack = << >> => Len(stack) = 0
    BY EmptyStack
  <2> QED BY <2>1 DEF CallsInv, ContextInv, StackOK, CurrentOK
<1> QED BY <1>1, <1>2 DEF OwnContext

\* and that the batch holds.
LEMMA InvIsBatchHolds == CallsInv => BatchHolds
<1> SUFFICES ASSUME CallsInv PROVE BatchHolds
  OBVIOUS
<1>1. Made = 1 .. Len(req)
  BY StackLen DEF CallsInv, QueueInv, Made
<1>2. Sending <=> BatchFrames(stack) # {}
  BY SendingIs DEF CallsInv
<1>3. ASSUME guard, NEW r \in Made, req[r].during = batches
      PROVE  Cardinality(InBatch(currentBatch, r)) = 1
  <2>1. PICK p : InBatch(currentBatch, r) = {p}
    BY <1>1, <1>3 DEF CallsInv, QueueInv, Once
  <2> QED BY <2>1, FS_Singleton
<1>4. guard => batchActive
  BY DEF CallsInv, BatchInv
<1>5. batchActive => guard \/ failed \/ Sending
  BY <1>2 DEF CallsInv, BatchInv
<1>6. ASSUME ~batchActive, NEW r \in Made, InBatch(currentBatch, r) # {}
      PROVE  req[r].during = WhileSending
  BY <1>1, <1>4, <1>6 DEF CallsInv, BatchInv, QueueInv
<1> QED BY <1>3, <1>4, <1>5, <1>6 DEF BatchHolds

\* CurrentContext: whatever handlers, clients and continuations call each other, a
\* handler that was not interrupted sees the context of its own request, an
\* interrupted one the fallback context, and between calls the fallback context
\* is current.
THEOREM CallsOwnContext == Spec => []OwnContext
<1>1. Init => CallsInv
  BY InitCalls
<1>2. CallsInv /\ [Next]_vars => CallsInv'
  BY StepCalls
<1>3. CallsInv => OwnContext
  BY InvIsOwnContext
<1> QED BY <1>1, <1>2, <1>3, PTL DEF Spec

\* Client::StartBatch, BatchGuard and batchDone: nothing that is asked for under a
\* guard leaves the batch before Finish or is in it twice, and no batch is active
\* that is neither collected, being sent, nor failed.
THEOREM CallsBatchHolds == Spec => []BatchHolds
<1>1. Init => CallsInv
  BY InitCalls
<1>2. CallsInv /\ [Next]_vars => CallsInv'
  BY StepCalls
<1>3. CallsInv => BatchHolds
  BY InvIsBatchHolds
<1> QED BY <1>1, <1>2, <1>3, PTL DEF Spec

-----------------------------------------------------------------------------
\* Where a request is.

Lone(S) == \A p, q \in S : p = q

\* The request x in the frame f, and in the batch that is collected (slot 0) or
\* the j-th frame.
Held(f, x) ==
    IF f.at = "batch" THEN InBatch(f.batch, x)
    ELSE IF f.at \in {"route", "body"} /\ f.r = x THEN {"call"} ELSE {}
Slot(st, b, j, x) == IF j = 0 THEN InBatch(b, x) ELSE Held(st[j], x)

\* In one place at most; and somewhere.
One(st, b, w, x) ==
    /\ \A j \in 0 .. Len(st) : Lone(Slot(st, b, j, x)) /\ (Slot(st, b, j, x) # {} => w[x] = None)
    /\ \A j, k \in 0 .. Len(st) : Slot(st, b, j, x) # {} /\ Slot(st, b, k, x) # {} => j = k
Somewhere(st, b, w, x) == w[x] # None \/ \E j \in 0 .. Len(st) : Slot(st, b, j, x) # {}

\* What is known of the request x: it is in one place at most; if it is open in one
\* exactly; and if it is in a place and answered, a route middleware threw at it.
Acc(x) ==
    /\ One(stack, currentBatch, waiting, x)
    /\ Somewhere(stack, currentBatch, waiting, x) => x \in 1 .. Len(req)
    /\ x \in 1 .. Len(req) /\ IsMethod(x) /\ answer[x] = None => Somewhere(stack, currentBatch, waiting, x)
    /\ Somewhere(stack, currentBatch, waiting, x) /\ IsMethod(x) /\ answer[x] # None => x \in rejected
    /\ x \in rejected => x \in 1 .. Len(req) /\ IsMethod(x) /\ answer[x] \in Codes
    /\ x \notin 1 .. Len(req) => answer[x] = None

\* Methods and notifications wait in lists of their own.
Sorted(b) ==
    /\ b \in Batches
    /\ \A i \in DOMAIN b.methods : IsMethod(b.methods[i])
    /\ \A i \in DOMAIN b.notifs : ~IsMethod(b.notifs[i])

FrameT(f) ==
    /\ f.at = "batch" => Sorted(f.batch)
    /\ f.at \in {"route", "body", "leave"} => f.r \in 1 .. Len(req)
    /\ f.at = "body" /\ Methods[f.name[1]].kind = "notify" => ~IsMethod(f.r)

\* SendBatch is at the call above it: at a notification only after all methods.
Above(f, g) ==
    f.at = "batch" /\ g.at \in {"route", "body", "leave"} /\ ~IsMethod(g.r) => f.batch.methods = << >>

Typed ==
    /\ Len(req) <= MaxRequests
    /\ \A r \in 1 .. Len(req) : req[r].from \in {"client", "peer"}
    /\ answer \in [Requests -> Answers \cup {None}]
    /\ waiting \in [Requests -> Servers \cup {None}]
    /\ wraps \in [Requests -> Seq(Servers)]
    /\ rejected \subseteq Requests
    /\ Sorted(currentBatch)
    /\ \A j \in 1 .. Len(stack) : FrameT(stack[j])
    /\ \A j \in 1 .. Len(stack) : j + 1 <= Len(stack) => Above(stack[j], stack[j + 1])

AccountInv == CallsInv /\ Typed /\ \A x \in Requests : Acc(x)

\* The request x stays where it is, or what held it is gone and it was no method.
Kept(x) ==
    /\ \A j \in 0 .. Len(stack') : Slot(stack', currentBatch', j, x) # {} =>
          /\ j \in 0 .. Len(stack) /\ Slot(stack, currentBatch, j, x) # {}
          /\ Lone(Slot(stack', currentBatch', j, x))
    /\ \A j \in 0 .. Len(stack) : Slot(stack, currentBatch, j, x) # {} /\ IsMethod(x) =>
          j \in 0 .. Len(stack') /\ Slot(stack', currentBatch', j, x) # {}
    /\ waiting'[x] = waiting[x]

\* The requests are the same, or there is one more.
SameRequest(x) == (x \in 1 .. Len(req') <=> x \in 1 .. Len(req)) /\ (x \in 1 .. Len(req) => req'[x] = req[x])

\* A request that stays where it is stays accounted for.
LEMMA KeptAcc ==
    ASSUME NEW x, Acc(x), Kept(x), SameRequest(x), answer'[x] = answer[x], x \in rejected' <=> x \in rejected,
           Len(stack) \in Nat, Len(stack') \in Nat
    PROVE  Acc(x)'
<1>1. PICK st, cb, w, ns, nb, nw :
         /\ st = stack /\ cb = currentBatch /\ w = waiting
         /\ ns = stack' /\ nb = currentBatch' /\ nw = waiting'
  OBVIOUS
<1>2. /\ \A j \in 0 .. Len(ns) : Slot(ns, nb, j, x) # {} =>
            j \in 0 .. Len(st) /\ Slot(st, cb, j, x) # {} /\ Lone(Slot(ns, nb, j, x))
      /\ \A j \in 0 .. Len(st) : Slot(st, cb, j, x) # {} /\ IsMethod(x) =>
            j \in 0 .. Len(ns) /\ Slot(ns, nb, j, x) # {}
      /\ nw[x] = w[x]
  BY <1>1 DEF Kept
<1>3. One(st, cb, w, x) /\ (Somewhere(st, cb, w, x) => x \in 1 .. Len(req))
  BY <1>1 DEF Acc
<1>4. One(ns, nb, nw, x)
  <2>1. Lone({})
    BY DEF Lone
  <2>2. \A j \in 0 .. Len(ns) : Lone(Slot(ns, nb, j, x)) /\ (Slot(ns, nb, j, x) # {} => nw[x] = None)
    BY <1>2, <1>3, <2>1 DEF One
  <2>3. \A j, k \in 0 .. Len(ns) : Slot(ns, nb, j, x) # {} /\ Slot(ns, nb, k, x) # {} => j = k
    BY <1>2, <1>3 DEF One
  <2> QED BY <2>2, <2>3 DEF One
<1>5. Somewhere(ns, nb, nw, x) => Somewhere(st, cb, w, x)
  BY <1>2 DEF Somewhere
<1>6. Somewhere(st, cb, w, x) /\ IsMethod(x) => Somewhere(ns, nb, nw, x)
  BY <1>2 DEF Somewhere
<1>7. x \in 1 .. Len(req) => (IsMethod(x)' <=> IsMethod(x))
  BY DEF SameRequest, IsMethod
<1> QED BY <1>1, <1>3, <1>4, <1>5, <1>6, <1>7 DEF Acc, SameRequest

\* The request x is in none of the slots any more.
LEMMA GoneAcc ==
    ASSUME NEW x, x \in 1 .. Len(req'),
           \A j \in 0 .. Len(stack') : Slot(stack', currentBatch', j, x) = {},
           IsMethod(x)' => (answer'[x] # None <=> waiting'[x] = None) \/ (answer'[x] # None /\ x \in rejected'),
           x \in rejected' => IsMethod(x)' /\ answer'[x] \in Codes
    PROVE  Acc(x)'
<1>1. PICK ns, nb, nw : ns = stack' /\ nb = currentBatch' /\ nw = waiting'
  OBVIOUS
<1>2. \A j \in 0 .. Len(ns) : Slot(ns, nb, j, x) = {}
  BY <1>1
<1>3. One(ns, nb, nw, x)
  BY <1>2 DEF One, Lone
<1>4. Somewhere(ns, nb, nw, x) <=> nw[x] # None
  BY <1>2 DEF Somewhere
<1> QED BY <1>1, <1>3, <1>4 DEF Acc

\* The request x is in one slot.
LEMMA HereAcc ==
    ASSUME NEW x, x \in 1 .. Len(req'), NEW k \in 0 .. Len(stack'),
           \A j \in 0 .. Len(stack') : Slot(stack', currentBatch', j, x) # {} => j = k,
           Slot(stack', currentBatch', k, x) # {}, Lone(Slot(stack', currentBatch', k, x)),
           waiting'[x] = None,
           IsMethod(x)' /\ answer'[x] # None => x \in rejected',
           x \in rejected' => IsMethod(x)' /\ answer'[x] \in Codes
    PROVE  Acc(x)'
<1>1. PICK ns, nb, nw : ns = stack' /\ nb = currentBatch' /\ nw = waiting'
  OBVIOUS
<1>2. /\ \A j \in 0 .. Len(ns) : Slot(ns, nb, j, x) # {} => j = k
      /\ k \in 0 .. Len(ns) /\ Slot(ns, nb, k, x) # {} /\ Lone(Slot(ns, nb, k, x)) /\ nw[x] = None
  BY <1>1
<1>3. One(ns, nb, nw, x)
  <2>1. \A j \in 0 .. Len(ns) : Slot(ns, nb, j, x) = {} \/ j = k
    BY <1>2
  <2>2. Lone({})
    BY DEF Lone
  <2> QED BY <1>2, <2>1, <2>2 DEF One
<1>4. Somewhere(ns, nb, nw, x)
  BY <1>2 DEF Somewhere
<1> QED BY <1>1, <1>2, <1>3, <1>4 DEF Acc

-----------------------------------------------------------------------------
\* A step of the innermost call.

SameFrame(g, f) ==
    /\ g.at = f.at
    /\ f.at = "batch" => g.batch = f.batch
    /\ f.at \in {"route", "body", "leave"} => g.r = f.r /\ g.name = f.name

\* The call at the top goes on in its frame (stays) or has ended, a continuation may
\* run above it, and an exception may have left the SendBatch below it.
TopMoves(stays) ==
    /\ IsStack(stack')
    /\ Len(stack') \in {Len(stack) - 2, Len(stack) - 1, Len(stack), Len(stack) + 1}
    /\ \A j \in 1 .. Len(stack) - 1 : j <= Len(stack') => SameFrame(stack'[j], stack[j])
    /\ Len(stack') = Len(stack) - 2 => stack[Len(stack) - 1].at = "batch" /\ ~IsMethod(Top.r)
    /\ stays => Len(stack) <= Len(stack')
    /\ Len(stack) <= Len(stack') =>
          IF stays THEN /\ stack'[Len(stack)].at \in {"route", "body"} /\ stack'[Len(stack)].r = Top.r
                        /\ FrameT(stack'[Len(stack)])
                   ELSE \/ stack'[Len(stack)].at = "leave" /\ stack'[Len(stack)].r = Top.r
                        \/ stack'[Len(stack)].at = "callback"
    /\ Len(stack') = Len(stack) + 1 => stack'[Len(stack) + 1].at = "callback"

\* The promise of the request of that call.
TopAnswers(stays) ==
    /\ answer' \in [Requests -> Answers \cup {None}]
    /\ waiting' \in [Requests -> Servers \cup {None}]
    /\ wraps' \in [Requests -> Seq(Servers)]
    /\ rejected' \subseteq Requests
    /\ \A x \in Requests : x # Top.r =>
          waiting'[x] = waiting[x] /\ answer'[x] = answer[x] /\ (x \in rejected' <=> x \in rejected)
    /\ stays => /\ waiting'[Top.r] = None
                /\ IsMethod(Top.r) /\ answer'[Top.r] # None => Top.r \in rejected'
    /\ ~stays /\ IsMethod(Top.r) =>
          \/ answer'[Top.r] # None <=> waiting'[Top.r] = None
          \/ answer'[Top.r] # None /\ Top.r \in rejected'
    /\ Top.r \in rejected' => IsMethod(Top.r) /\ answer'[Top.r] \in Codes

\* A request is in the same place of two frames that agree on what holds it.
LEMMA SameHeld ==
    ASSUME NEW f, NEW g, SameFrame(g, f)
    PROVE  /\ \A x : Held(g, x) = Held(f, x)
           /\ FrameT(f) => FrameT(g)
           /\ \A e : (Above(f, e) => Above(g, e)) /\ (Above(e, f) => Above(e, g))
BY DEF SameFrame, Held, FrameT, Above

\* Every other request stays where it is.
LEMMA TopStep ==
    ASSUME AccountInv, stack # << >>, Top.at \in {"route", "body"}, NEW stays \in BOOLEAN,
           TopMoves(stays), TopAnswers(stays), req' = req, currentBatch' = currentBatch
    PROVE  Typed' /\ \A x \in Requests : Acc(x)'
<1>1. PICK n \in Nat : n = Len(stack) /\ n > 0 /\ Top = stack[n]
  BY TopFacts DEF AccountInv, CallsInv
<1>2. PICK m \in Nat : m = Len(stack') /\ (m = n - 2 \/ m = n - 1 \/ m = n \/ m = n + 1)
  BY <1>1, StackLen DEF TopMoves
<1>3. PICK r : r = Top.r
  OBVIOUS
<1>4. r \in 1 .. Len(req) /\ r \in Requests /\ MaxRequests \in Nat /\ Len(req) \in Nat
  <2>1. Len(req) \in Nat
    BY StackLen DEF AccountInv, CallsInv, QueueInv
  <2>2. FrameT(Top)
    BY <1>1 DEF AccountInv, Typed
  <2>3. r \in 1 .. Len(req) /\ Len(req) <= MaxRequests
    BY <1>3, <2>2 DEF FrameT, AccountInv, Typed
  <2> QED BY <2>1, <2>3, BoundsAssumption DEF Requests
<1>5. \A x : Slot(stack, currentBatch, n, x) = IF x = r THEN {"call"} ELSE {}
  BY <1>1, <1>3 DEF Slot, Held
<1>6. \A j \in 0 .. n - 1 : j <= m => \A x : Slot(stack', currentBatch', j, x) = Slot(stack, currentBatch, j, x)
  <2> SUFFICES ASSUME NEW j \in 0 .. n - 1, j <= m, NEW x
               PROVE  Slot(stack', currentBatch', j, x) = Slot(stack, currentBatch, j, x)
    OBVIOUS
  <2>1. CASE j = 0
    BY <2>1 DEF Slot
  <2>2. CASE j # 0
    <3>1. j \in 1 .. n - 1
      BY <1>1, <2>2
    <3>2. SameFrame(stack'[j], stack[j])
      BY <1>1, <1>2, <3>1 DEF TopMoves
    <3> QED BY <2>2, <3>2, SameHeld DEF Slot
  <2> QED BY <2>1, <2>2
<1>7. n <= m => \A x : Slot(stack', currentBatch', n, x) = IF stays /\ x = r THEN {"call"} ELSE {}
  <2> SUFFICES ASSUME n <= m, NEW x
               PROVE  Slot(stack', currentBatch', n, x) = IF stays /\ x = r THEN {"call"} ELSE {}
    OBVIOUS
  <2>1. PICK g : g = stack'[n]
    OBVIOUS
  <2>2. Slot(stack', currentBatch', n, x) = Held(g, x)
    BY <1>1, <2>1 DEF Slot
  <2>3. IF stays THEN g.at \in {"route", "body"} /\ g.r = r ELSE g.at \in {"leave", "callback"}
    BY <1>1, <1>2, <1>3, <2>1 DEF TopMoves
  <2> QED BY <2>2, <2>3 DEF Held
<1>8. m = n + 1 => \A x : Slot(stack', currentBatch', n + 1, x) = {}
  BY <1>1, <1>2 DEF Slot, Held, TopMoves
<1>9. \A j \in 0 .. m : j \in 0 .. n - 1 \/ j = n \/ (j = n + 1 /\ m = n + 1)
  BY <1>1, <1>2
<1>10. stays => n <= m
  BY <1>1, <1>2 DEF TopMoves
<1>11. ASSUME m = n - 2, NEW x, IsMethod(x) PROVE Slot(stack, currentBatch, n - 1, x) = {}
  <2>1. n - 1 \in 1 .. n /\ n - 1 # 0 /\ (n - 1) + 1 = n
    BY <1>1, <1>2, <1>11
  <2>2. PICK f : f = stack[n - 1]
    OBVIOUS
  <2>3. f.at = "batch" /\ ~IsMethod(Top.r)
    BY <1>1, <1>2, <1>11, <2>2 DEF TopMoves
  <2>4. FrameT(f) /\ Above(f, Top)
    BY <1>1, <2>1, <2>2 DEF AccountInv, Typed
  <2>5. f.batch.methods = << >> /\ Sorted(f.batch)
    BY <2>3, <2>4 DEF FrameT, Above
  <2>6. At(f.batch.methods, x) = {} /\ At(f.batch.notifs, x) = {}
    BY <1>11, <2>5 DEF At, Sorted
  <2>7. InBatch(f.batch, x) = {}
    BY <2>6, InBatchIs
  <2> QED BY <2>1, <2>2, <2>3, <2>7 DEF Slot, Held
<1>12. ASSUME NEW x \in Requests, x # r PROVE Acc(x)'
  <2>1. Acc(x)
    BY DEF AccountInv
  <2>2. One(stack, currentBatch, waiting, x)
    BY <2>1 DEF Acc
  <2>3. Kept(x)
    <3>1. ASSUME NEW j \in 0 .. m, Slot(stack', currentBatch', j, x) # {}
          PROVE  /\ j \in 0 .. n /\ Slot(stack, currentBatch, j, x) # {}
                 /\ Lone(Slot(stack', currentBatch', j, x))
      <4>1. j \in 0 .. n - 1 /\ j <= m
        BY <1>1, <1>2, <1>7, <1>8, <1>9, <1>12, <3>1
      <4>2. j \in 0 .. n /\ Slot(stack', currentBatch', j, x) = Slot(stack, currentBatch, j, x)
        BY <1>1, <1>6, <4>1
      <4>3. Lone(Slot(stack, currentBatch, j, x))
        BY <1>1, <2>2, <4>2 DEF One
      <4> QED BY <3>1, <4>2, <4>3
    <3>2. ASSUME NEW j \in 0 .. n, Slot(stack, currentBatch, j, x) # {}, IsMethod(x)
          PROVE  j \in 0 .. m /\ Slot(stack', currentBatch', j, x) # {}
      <4>1. j # n
        BY <1>5, <1>12, <3>2
      <4>2. m = n - 2 => j # n - 1
        BY <1>11, <3>2
      <4>3. j \in 0 .. n - 1 /\ j \in 0 .. m /\ j <= m
        BY <1>1, <1>2, <4>1, <4>2
      <4> QED BY <1>6, <3>2, <4>3
    <3>3. waiting'[x] = waiting[x]
      BY <1>3, <1>12 DEF TopAnswers
    <3> QED BY <1>1, <1>2, <3>1, <3>2, <3>3 DEF Kept
  <2>4. SameRequest(x)
    BY DEF SameRequest
  <2>5. answer'[x] = answer[x] /\ (x \in rejected' <=> x \in rejected)
    BY <1>3, <1>12 DEF TopAnswers
  <2> QED BY <1>1, <1>2, <2>1, <2>3, <2>4, <2>5, KeptAcc
<1>13. Acc(r)'
  <2>1. One(stack, currentBatch, waiting, r) /\ Slot(stack, currentBatch, n, r) # {} /\ n \in 0 .. n
    BY <1>4, <1>5 DEF AccountInv, Acc
  <2>2. ASSUME NEW j \in 0 .. n - 1 PROVE Slot(stack, currentBatch, j, r) = {}
    <3>1. j \in 0 .. n /\ j # n
      BY <1>1
    <3> QED BY <1>1, <2>1, <3>1 DEF One
  <2>3. \A j \in 0 .. m : j \in 0 .. n - 1 => Slot(stack', currentBatch', j, r) = {}
    BY <1>6, <2>2
  <2>4. r \in 1 .. Len(req') /\ (IsMethod(r)' <=> IsMethod(r))
    BY <1>4 DEF IsMethod
  <2>5. r \in rejected' => IsMethod(r)' /\ answer'[r] \in Codes
    BY <1>3, <2>4 DEF TopAnswers
  <2>6. CASE stays
    <3>1. n \in 0 .. m /\ Slot(stack', currentBatch', n, r) = {"call"} /\ Lone({"call"}) /\ {"call"} # {}
      BY <1>2, <1>7, <1>10, <2>6 DEF Lone
    <3>2. \A j \in 0 .. m : Slot(stack', currentBatch', j, r) # {} => j = n
      BY <1>8, <1>9, <2>3
    <3>3. waiting'[r] = None /\ (IsMethod(r)' /\ answer'[r] # None => r \in rejected')
      BY <1>3, <2>4, <2>6 DEF TopAnswers
    <3> QED BY <1>2, <2>4, <2>5, <3>1, <3>2, <3>3, HereAcc
  <2>7. CASE ~stays
    <3>1. \A j \in 0 .. m : Slot(stack', currentBatch', j, r) = {}
      <4>1. n <= m => Slot(stack', currentBatch', n, r) = {}
        BY <1>7, <2>7
      <4>2. \A j \in 0 .. m : j = n => n <= m
        BY <1>1, <1>2
      <4> QED BY <1>8, <1>9, <2>3, <4>1, <4>2
    <3>2. IsMethod(r)' => (answer'[r] # None <=> waiting'[r] = None) \/ (answer'[r] # None /\ r \in rejected')
      BY <1>3, <2>4, <2>7 DEF TopAnswers
    <3> QED BY <1>2, <2>4, <2>5, <3>1, <3>2, GoneAcc
  <2> QED BY <2>6, <2>7
<1>14. \A f : FrameT(f)' <=> FrameT(f)
  BY DEF FrameT, Sorted, IsMethod
<1>15. \A f, g : Above(f, g)' <=> Above(f, g)
  BY DEF Above, IsMethod
<1>16. \A j \in 1 .. m : FrameT(stack'[j])
  <2> SUFFICES ASSUME NEW j \in 1 .. m PROVE FrameT(stack'[j])
    OBVIOUS
  <2>1. CASE j <= n - 1
    <3>1. j \in 1 .. n - 1 /\ j \in 1 .. n /\ j <= m
      BY <1>1, <1>2, <2>1
    <3>2. SameFrame(stack'[j], stack[j]) /\ FrameT(stack[j])
      BY <1>1, <1>2, <3>1 DEF TopMoves, AccountInv, Typed
    <3> QED BY <3>2, SameHeld
  <2>2. CASE j = n
    <3>1. \/ FrameT(stack'[n])
          \/ stack'[n].at = "leave" /\ stack'[n].r = r
          \/ stack'[n].at = "callback"
      BY <1>1, <1>2, <1>3, <2>2 DEF TopMoves
    <3> QED BY <1>4, <2>2, <3>1 DEF FrameT
  <2>3. CASE j = n + 1
    BY <1>1, <1>2, <2>3 DEF TopMoves, FrameT
  <2> QED BY <1>1, <1>2, <2>1, <2>2, <2>3
<1>17. ASSUME NEW j \in 1 .. m, j + 1 <= m PROVE Above(stack'[j], stack'[j + 1])
  <2>1. CASE j + 1 <= n - 1
    <3>1. j \in 1 .. n - 1 /\ j + 1 \in 1 .. n - 1 /\ j \in 1 .. n /\ j + 1 <= n /\ j <= m
      BY <1>1, <1>2, <2>1
    <3>2. SameFrame(stack'[j], stack[j]) /\ SameFrame(stack'[j + 1], stack[j + 1]) /\ Above(stack[j], stack[j + 1])
      BY <1>1, <1>2, <1>17, <3>1 DEF TopMoves, AccountInv, Typed
    <3>3. Above(stack'[j], stack[j + 1])
      BY <3>2, SameHeld
    <3> QED BY <3>2, <3>3, SameHeld
  <2>2. CASE j + 1 = n
    <3>1. j \in 1 .. n - 1 /\ j \in 1 .. n /\ j + 1 <= n /\ j <= m /\ n <= m
      BY <1>1, <1>2, <1>17, <2>2
    <3>2. SameFrame(stack'[j], stack[j]) /\ Above(stack[j], Top)
      BY <1>1, <1>2, <2>2, <3>1 DEF TopMoves, AccountInv, Typed
    <3>3. Above(stack'[j], Top)
      BY <3>2, SameHeld
    <3>4. stack'[n].at = "callback" \/ (stack'[n].r = Top.r /\ stack'[n].at # "batch")
      BY <1>1, <1>2, <3>1 DEF TopMoves
    <3> QED BY <2>2, <3>3, <3>4 DEF Above
  <2>3. CASE j = n
    <3>1. stack'[j].at # "batch"
      BY <1>1, <1>2, <1>17, <2>3 DEF TopMoves
    <3> QED BY <3>1 DEF Above
  <2> QED BY <1>1, <1>2, <1>17, <2>1, <2>2, <2>3
<1>18. Sorted(currentBatch)'
  BY DEF AccountInv, Typed, Sorted, IsMethod
<1>19. Typed'
  BY <1>2, <1>14, <1>15, <1>16, <1>17, <1>18 DEF AccountInv, Typed, TopAnswers
<1> QED BY <1>12, <1>13, <1>19, <1>3

-----------------------------------------------------------------------------
\* What the steps of a call do to its request.

\* Promise::operator(): a method has an answer afterwards, the first one counts, and
\* an error stays an error.
LEMMA FulfilIs ==
    ASSUME AccountInv, NEW r \in 1 .. Len(req), r \in Requests, NEW ws \in Seq(Servers), NEW a \in Answers,
           Fulfil(r, ws, a)
    PROVE  /\ answer' \in [Requests -> Answers \cup {None}]
           /\ \A x \in Requests : x # r => answer'[x] = answer[x]
           /\ IsMethod(r) => answer'[r] # None
           /\ answer[r] # None => answer'[r] = answer[r]
           /\ a \in Codes /\ IsMethod(r) /\ answer[r] = None => answer'[r] \in Codes
<1>1. req[r].from \in {"client", "peer"} /\ answer \in [Requests -> Answers \cup {None}]
  BY DEF AccountInv, Typed
<1>2. PICK t : t = Through(ws, a)
  OBVIOUS
<1>3. t \in Answers /\ (a \in Codes => t \in Codes)
  BY <1>2, ThroughIs
<1>4. PICK d : d = Delivered(r, t)
  OBVIOUS
<1>5. d \in Answers /\ (a \in Codes => d \in Codes)
  BY <1>1, <1>3, <1>4, DeliveredIs
<1>6. d # None
  BY <1>5, NoneAssumption
<1>7. answer' = IF IsMethod(r) /\ answer[r] = None THEN [answer EXCEPT ![r] = d] ELSE answer
  BY <1>2, <1>4 DEF Fulfil
<1> QED BY <1>1, <1>5, <1>6, <1>7

\* The request of the call at the top.
LEMMA TopIs ==
    ASSUME AccountInv, stack # << >>, Top.at \in {"route", "body"}, NEW r, r = Top.r
    PROVE  /\ r \in 1 .. Len(req) /\ r \in Requests /\ waiting[r] = None /\ wraps[r] \in Seq(Servers)
           /\ IsMethod(r) /\ answer[r] # None => r \in rejected
           /\ r \in rejected => IsMethod(r) /\ answer[r] \in Codes
<1>1. PICK n \in Nat : n = Len(stack) /\ n > 0 /\ Top = stack[n]
  BY TopFacts DEF AccountInv, CallsInv
<1>2. r \in 1 .. Len(req) /\ r \in Requests
  <2>1. Len(req) \in Nat /\ MaxRequests \in Nat
    BY BoundsAssumption, StackLen DEF AccountInv, CallsInv, QueueInv
  <2>2. FrameT(Top)
    BY <1>1 DEF AccountInv, Typed
  <2>3. r \in 1 .. Len(req) /\ Len(req) <= MaxRequests
    BY <2>2 DEF FrameT, AccountInv, Typed
  <2> QED BY <2>1, <2>3 DEF Requests
<1>3. Slot(stack, currentBatch, n, r) # {} /\ n \in 0 .. Len(stack)
  BY <1>1 DEF Slot, Held
<1>4. Acc(r)
  BY <1>2 DEF AccountInv
<1>5. waiting[r] = None /\ Somewhere(stack, currentBatch, waiting, r)
  BY <1>3, <1>4 DEF Acc, One, Somewhere
<1>6. wraps[r] \in Seq(Servers)
  BY <1>2 DEF AccountInv, Typed
<1> QED BY <1>2, <1>4, <1>5, <1>6 DEF Acc

\* The promise is fulfilled and the call over.
LEMMA AnsweredIs ==
    ASSUME AccountInv, stack # << >>, Top.at \in {"route", "body"}, NEW r, r = Top.r,
           NEW ws \in Seq(Servers), NEW a \in Answers, Fulfil(r, ws, a), UNCHANGED <<waiting, wraps, rejected>>,
           NEW stays \in BOOLEAN, ~stays
    PROVE  TopAnswers(stays)
<1>1. /\ r \in 1 .. Len(req) /\ r \in Requests /\ waiting[r] = None
      /\ r \in rejected => IsMethod(r) /\ answer[r] \in Codes
  BY TopIs
<1>2. /\ answer' \in [Requests -> Answers \cup {None}]
      /\ \A x \in Requests : x # r => answer'[x] = answer[x]
      /\ IsMethod(r) => answer'[r] # None
      /\ answer[r] # None => answer'[r] = answer[r]
  BY <1>1, FulfilIs
<1>3. \A c \in Codes : c # None
  BY NoneAssumption DEF Answers
<1>4. r \in rejected => answer'[r] \in Codes
  BY <1>1, <1>2, <1>3
<1> QED BY <1>1, <1>2, <1>4 DEF TopAnswers, AccountInv, Typed

\* Nothing is said to the one who asked: the call goes on, or a notification is over.
LEMMA QuietIs ==
    ASSUME AccountInv, stack # << >>, Top.at \in {"route", "body"}, NEW r, r = Top.r,
           UNCHANGED <<answer, waiting, rejected>>, wraps' \in [Requests -> Seq(Servers)],
           NEW stays \in BOOLEAN, stays \/ ~IsMethod(r)
    PROVE  TopAnswers(stays)
<1>1. /\ r \in 1 .. Len(req) /\ r \in Requests /\ waiting[r] = None
      /\ IsMethod(r) /\ answer[r] # None => r \in rejected
      /\ r \in rejected => IsMethod(r) /\ answer[r] \in Codes
  BY TopIs
<1> QED BY <1>1 DEF TopAnswers, AccountInv, Typed

\* What is left of the calls below the top one.
Under(u) ==
    /\ IsStack(u) /\ Len(u) = Len(stack) - 1
    /\ \A j \in 1 .. Len(stack) - 1 : SameFrame(u[j], stack[j])

\* They hold what they held.
LEMMA UnderIs ==
    ASSUME AccountInv, stack # << >>
    PROVE  Under(Front(stack)) /\ \A h : Under(Below(h))
<1>1. IsStack(stack) /\ Len(stack) \in Nat \ {0}
  BY TopFacts DEF AccountInv, CallsInv
<1>2. Under(Front(stack))
  BY <1>1, Popped DEF Under, SameFrame
<1>3. ASSUME NEW h PROVE Under(Below(h))
  <2>1. PICK u : u = Below(h)
    OBVIOUS
  <2>2. /\ IsStack(u) /\ Len(u) = Len(stack) - 1
        /\ \A i \in 1 .. Len(stack) - 1 :
              u[i] = IF stack[i].at = "body" /\ stack[i].h = h
                     THEN [stack[i] EXCEPT !.own = FALSE] ELSE stack[i]
    BY <1>1, <2>1, BelowIs
  <2>3. ASSUME NEW j \in 1 .. Len(stack) - 1 PROVE SameFrame(u[j], stack[j])
    <3>1. PICK f : f = stack[j]
      OBVIOUS
    <3>2. FrameOK(f)
      BY <1>1, <3>1 DEF AccountInv, CallsInv, ContextInv, StackOK, FramesOK
    <3>3. PICK g : g = [f EXCEPT !.own = FALSE]
      OBVIOUS
    <3>4. f.at = "body" => DOMAIN f = CallFields
      BY <3>2 DEF FrameOK
    <3>5. f.at = "body" => g.at = f.at /\ g.r = f.r /\ g.name = f.name
      BY <3>3, <3>4 DEF CallFields
    <3>6. u[j] = IF f.at = "body" /\ f.h = h THEN g ELSE f
      BY <2>2, <3>1, <3>3
    <3> QED BY <3>1, <3>5, <3>6 DEF SameFrame
  <2> QED BY <2>1, <2>2, <2>3 DEF Under
<1> QED BY <1>2, <1>3

\* The call goes on in its frame, or has answered and leaves.
LEMMA TopGoesOn ==
    ASSUME AccountInv, stack # << >>, NEW u, Under(u), NEW g, NEW stays \in BOOLEAN, g.r = Top.r,
           IF stays THEN g.at \in {"route", "body"} /\ FrameT(g) ELSE g.at = "leave",
           NEW v, v = Append(u, g), NEW x, stack' = v \/ stack' = Append(v, Callback(x))
    PROVE  TopMoves(stays)
<1>1. PICK n \in Nat : n = Len(stack) /\ n > 0
  BY TopFacts DEF AccountInv, CallsInv
<1>2. /\ IsStack(v) /\ Len(v) = n /\ v[n] = g
      /\ \A j \in 1 .. n - 1 : v[j] = u[j]
  <2>1. IsStack(u) /\ Len(u) = n - 1 /\ (n - 1) + 1 = n
    BY <1>1 DEF Under
  <2> QED BY <2>1, Pushed
<1>3. \A j \in 1 .. n - 1 : SameFrame(v[j], stack[j])
  BY <1>1, <1>2 DEF Under
<1>4. PICK c : c = Callback(x) /\ c.at = "callback"
  BY DEF Callback
<1>5. PICK w : w = Append(v, c)
  OBVIOUS
<1>6. IsStack(w) /\ Len(w) = n + 1 /\ w[n + 1] = c /\ \A j \in 1 .. n : w[j] = v[j]
  BY <1>2, <1>5, Pushed
<1>7. CASE stack' = v
  BY <1>1, <1>2, <1>3, <1>7 DEF TopMoves
<1>8. CASE stack' = w
  <2>1. ASSUME NEW j \in 1 .. n - 1 PROVE SameFrame(w[j], stack[j])
    <3>1. j \in 1 .. n
      BY <1>1
    <3>2. w[j] = v[j]
      BY <1>6, <3>1
    <3> QED BY <1>3, <3>2
  <2>2. w[n] = g
    BY <1>1, <1>2, <1>6
  <2> QED BY <1>1, <1>4, <1>6, <1>8, <2>1, <2>2 DEF TopMoves
<1> QED BY <1>4, <1>5, <1>7, <1>8

\* The call is over, and its exception may have ended SendBatch.
LEMMA TopIsOver ==
    ASSUME AccountInv, stack # << >>, NEW u, Under(u), NEW stays \in BOOLEAN, ~stays, NEW x,
           \/ stack' = u \/ stack' = Append(u, Callback(x))
           \/ ~IsMethod(Top.r) /\ u # << >> /\ u[Len(u)].at = "batch" /\ stack' = Front(u)
    PROVE  TopMoves(stays)
<1>1. PICK n \in Nat : n = Len(stack) /\ n > 0
  BY TopFacts DEF AccountInv, CallsInv
<1>2. IsStack(u) /\ Len(u) = n - 1 /\ \A j \in 1 .. n - 1 : SameFrame(u[j], stack[j])
  BY <1>1 DEF Under
<1>3. CASE stack' = u
  BY <1>1, <1>2, <1>3 DEF TopMoves
<1>4. CASE stack' = Append(u, Callback(x))
  <2>1. PICK c : c = Callback(x) /\ c.at = "callback"
    BY DEF Callback
  <2>2. PICK w : w = Append(u, c)
    OBVIOUS
  <2>3. IsStack(w) /\ Len(w) = n /\ w[n] = c /\ \A j \in 1 .. n - 1 : w[j] = u[j]
    <3>1. (n - 1) + 1 = n
      BY <1>1
    <3> QED BY <1>2, <2>2, <3>1, Pushed
  <2>4. \A j \in 1 .. n - 1 : SameFrame(w[j], stack[j])
    BY <1>2, <2>3
  <2>5. stack' = w
    BY <1>4, <2>1, <2>2
  <2> QED BY <1>1, <2>1, <2>3, <2>4, <2>5 DEF TopMoves
<1>5. CASE ~IsMethod(Top.r) /\ u # << >> /\ u[Len(u)].at = "batch" /\ stack' = Front(u)
  <2>1. n - 1 \in 1 .. n - 1 /\ n >= 2
    <3>1. n - 1 # 0
      BY <1>2, <1>5, StackLen
    <3> QED BY <1>1, <3>1
  <2>2. PICK w : w = Front(u)
    OBVIOUS
  <2>3. IsStack(w) /\ Len(w) = n - 2 /\ \A j \in 1 .. n - 2 : w[j] = u[j]
    <3>1. (n - 1) - 1 = n - 2
      BY <1>1
    <3> QED BY <1>2, <1>5, <2>2, <3>1, Popped
  <2>4. stack[n - 1].at = "batch"
    BY <1>2, <1>5, <2>1 DEF SameFrame
  <2>5. \A j \in 1 .. n - 1 : j <= n - 2 => SameFrame(w[j], stack[j])
    BY <1>1, <1>2, <2>3
  <2> QED BY <1>1, <1>5, <2>1, <2>2, <2>3, <2>4, <2>5 DEF TopMoves
<1> QED BY <1>3, <1>4, <1>5

\* A step of the innermost call that changes neither requests nor the batch.
CallOver(stays) == TopMoves(stays) /\ TopAnswers(stays)

\* It keeps the account of the requests.
LEMMA CallOverOK ==
    ASSUME AccountInv, stack # << >>, Top.at \in {"route", "body"}, NEW stays \in BOOLEAN, CallOver(stays),
           UNCHANGED <<req, currentBatch>>
    PROVE  Typed' /\ \A x \in Requests : Acc(x)'
BY TopStep DEF CallOver

\* IHandler: OnForward and the route's handler.
LEMMA ForwardAcc ==
    ASSUME AccountInv, Forward
    PROVE  \E stays \in BOOLEAN : CallOver(stays)
<1>1. stack # << >> /\ Top.at = "route" /\ Top.h \in Servers /\ waiting' = waiting
  BY DEF Forward, Running
<1>2. PICK f, r, u : f = Top /\ r = f.r /\ u = Front(stack)
  OBVIOUS
<1>3. FrameOK(f) /\ f.at = "route" /\ Under(u) /\ IsStack(u)
  BY <1>1, <1>2, TopFacts, UnderIs DEF AccountInv, CallsInv, Under
<1>4. /\ r \in 1 .. Len(req) /\ r \in Requests /\ waiting[r] = None /\ wraps[r] \in Seq(Servers)
      /\ r \in rejected => IsMethod(r) /\ answer[r] \in Codes
      /\ IsMethod(r) /\ answer[r] # None => r \in rejected
  BY <1>1, <1>2, TopIs
<1>5. PICK ws : ws = Append(wraps[r], f.h)
  OBVIOUS
<1>6. ws \in Seq(Servers) /\ [wraps EXCEPT ![r] = ws] \in [Requests -> Seq(Servers)]
      /\ wraps \in [Requests -> Seq(Servers)]
  BY <1>1, <1>2, <1>4, <1>5 DEF AccountInv, Typed
<1>7. PICK a : a = ExcHandlers(RouteEHandlers[f.h], "app")
  OBVIOUS
<1>8. a \in Codes /\ a \in Answers
  <2>1. RouteEHandlers[f.h] \in Seq({"log", "rpc", "plain", "throw"}) /\ "app" \in Codes
    BY <1>1, <1>2, EHandlersAssumption DEF Codes
  <2>2. a \in Codes
    BY <1>7, <2>1, ExcHandlersIs
  <2> QED BY <2>2 DEF Answers
<1>9. PICK h, name, on, off :
        /\ on = HandedOn(f, h, name) /\ off = NoContext(on)
        /\ \/ /\ stack' = Append(u, on) /\ UNCHANGED <<answer, rejected>>
              /\ wraps' = IF IsMethod(r) THEN [wraps EXCEPT ![r] = ws] ELSE wraps
           \/ /\ IsMethod(r) /\ stack' = u \o <<off>> \o Continuation(r)
              /\ wraps' = [wraps EXCEPT ![r] = ws] /\ Fulfil(r, ws, a) /\ rejected' = rejected \cup {r}
           \/ ~IsMethod(r) /\ ThrowNotify(u, f.shield) /\ UNCHANGED <<answer, wraps, rejected>>
  <2>1. PICK h, word, name :
            /\ word = Words(f.name)[1] /\ h = Mounts[f.h][word]
            /\ name = TryRoute(LiveRoutes(f.h), f.name).method
    OBVIOUS
  <2>2. PICK on, off : on = HandedOn(f, h, name) /\ off = NoContext(on)
    OBVIOUS
  <2>3. /\ on = [f EXCEPT !.h = Mounts[f.h][word], !.name = name]
        /\ off = [on EXCEPT !.ctx = None]
    BY <2>1, <2>2 DEF HandedOn, NoContext
  <2>4. \/ /\ stack' = Append(u, on) /\ UNCHANGED <<answer, rejected>>
           /\ wraps' = IF IsMethod(r) THEN [wraps EXCEPT ![r] = ws] ELSE wraps
        \/ /\ IsMethod(r) /\ stack' = u \o <<off>> \o Continuation(r)
           /\ wraps' = [wraps EXCEPT ![r] = ws] /\ Fulfil(r, ws, a) /\ rejected' = rejected \cup {r}
        \/ ~IsMethod(r) /\ ThrowNotify(u, f.shield) /\ UNCHANGED <<answer, wraps, rejected>>
    BY <1>2, <1>5, <1>7, <2>1, <2>3 DEF Forward
  <2> QED BY <2>2, <2>4
<1>10. /\ on.at = "route" /\ on.r = r /\ off.at = "route" /\ off.r = r
       /\ FrameT(on) /\ FrameT(off)
  <2>1. on.at = "route" /\ on.r = r /\ off.at = "route" /\ off.r = r
    BY <1>2, <1>3, <1>9, Rerouted
  <2> QED BY <1>4, <2>1 DEF FrameT
<1>11. CASE /\ stack' = Append(u, on) /\ UNCHANGED <<answer, rejected>>
            /\ wraps' = IF IsMethod(r) THEN [wraps EXCEPT ![r] = ws] ELSE wraps
  <2>1. PICK stays \in BOOLEAN : stays
    OBVIOUS
  <2>2. TopMoves(stays)
    BY <1>1, <1>2, <1>3, <1>10, <1>11, <2>1, TopGoesOn
  <2>3. wraps' \in [Requests -> Seq(Servers)]
    BY <1>6, <1>11
  <2>4. TopAnswers(stays)
    BY <1>1, <1>2, <1>11, <2>1, <2>3, QuietIs
  <2> QED BY <2>2, <2>4 DEF CallOver
<1>12. CASE /\ IsMethod(r) /\ stack' = u \o <<off>> \o Continuation(r)
            /\ wraps' = [wraps EXCEPT ![r] = ws] /\ Fulfil(r, ws, a) /\ rejected' = rejected \cup {r}
  <2>1. PICK stays \in BOOLEAN : stays
    OBVIOUS
  <2>2. PICK v : v = Append(u, off)
    OBVIOUS
  <2>3. u \o <<off>> = v /\ IsStack(v)
    BY <1>3, <2>2, Joined, Pushed
  <2>4. stack' = v \/ stack' = Append(v, Callback(r))
    BY <1>12, <2>3, Continued
  <2>5. TopMoves(stays)
    BY <1>1, <1>2, <1>3, <1>10, <2>1, <2>2, <2>4, TopGoesOn
  <2>6. /\ answer' \in [Requests -> Answers \cup {None}]
        /\ \A x \in Requests : x # r => answer'[x] = answer[x]
        /\ answer[r] # None => answer'[r] = answer[r]
        /\ a \in Codes /\ IsMethod(r) /\ answer[r] = None => answer'[r] \in Codes
    BY <1>4, <1>6, <1>8, <1>12, FulfilIs
  <2>7. answer'[r] \in Codes
    BY <1>4, <1>8, <1>12, <2>6
  <2>8. TopAnswers(stays)
    BY <1>1, <1>2, <1>4, <1>6, <1>12, <2>1, <2>6, <2>7 DEF TopAnswers, AccountInv, Typed
  <2> QED BY <2>5, <2>8 DEF CallOver
<1>13. CASE ~IsMethod(r) /\ ThrowNotify(u, f.shield) /\ UNCHANGED <<answer, wraps, rejected>>
  <2>1. PICK stays \in BOOLEAN : ~stays
    OBVIOUS
  <2>2. \/ stack' = u
        \/ u # << >> /\ u[Len(u)].at = "batch" /\ stack' = Front(u)
    BY <1>13 DEF ThrowNotify
  <2>3. TopMoves(stays)
    BY <1>1, <1>2, <1>3, <1>13, <2>1, <2>2, TopIsOver
  <2>4. TopAnswers(stays)
    BY <1>1, <1>2, <1>6, <1>13, <2>1, QuietIs
  <2> QED BY <2>3, <2>4 DEF CallOver
<1> QED BY <1>9, <1>11, <1>12, <1>13

\* IClientTransport: the request goes out again or its promise goes away.
LEMMA ForwardToTransportAcc ==
    ASSUME AccountInv, ForwardToTransport
    PROVE  \E stays \in BOOLEAN : CallOver(stays)
<1>1. stack # << >> /\ Top.at = "route" /\ UNCHANGED <<waiting, wraps, rejected>>
  BY DEF ForwardToTransport, Running
<1>2. PICK r, u : r = Top.r /\ u = Front(stack)
  OBVIOUS
<1>3. Under(u) /\ IsStack(u)
  BY <1>1, <1>2, UnderIs DEF Under
<1>4. r \in 1 .. Len(req) /\ wraps[r] \in Seq(Servers) /\ wraps \in [Requests -> Seq(Servers)]
  BY <1>1, <1>2, TopIs DEF AccountInv, Typed
<1>5. PICK shield, name, h : Send(u, r, name, h, shield)
  BY <1>2 DEF ForwardToTransport
<1>6. CASE h \in alive
  <2>1. PICK stays \in BOOLEAN : stays
    OBVIOUS
  <2>2. PICK g : g = HandleFrame(r, h, name, None, shield)
    OBVIOUS
  <2>3. g.at = "route" /\ g.r = r /\ FrameT(g)
    BY <1>4, <2>2, RouteFrame DEF FrameT
  <2>4. stack' = Append(u, g) /\ answer' = answer
    BY <1>5, <1>6, <2>2 DEF Send
  <2>5. TopMoves(stays)
    BY <1>1, <1>2, <1>3, <2>1, <2>3, <2>4, TopGoesOn
  <2>6. TopAnswers(stays)
    BY <1>1, <1>2, <1>4, <2>1, <2>4, QuietIs
  <2> QED BY <2>5, <2>6 DEF CallOver
<1>7. CASE h \notin alive
  <2>1. PICK stays \in BOOLEAN : ~stays
    OBVIOUS
  <2>2. PICK a : a = "broken"
    OBVIOUS
  <2>3. a \in Answers /\ Fulfil(r, wraps[r], a) /\ stack' = u \o Continuation(r)
    BY <1>5, <1>7, <2>2 DEF Send, Answers, Codes
  <2>4. stack' = u \/ stack' = Append(u, Callback(r))
    BY <1>3, <2>3, Continued
  <2>5. TopMoves(stays)
    BY <1>1, <1>3, <2>1, <2>4, TopIsOver
  <2>6. TopAnswers(stays)
    BY <1>1, <1>2, <1>4, <2>1, <2>3, AnsweredIs
  <2> QED BY <2>5, <2>6 DEF CallOver
<1> QED BY <1>6, <1>7

\* DoHandle answers, with an answer or an exception.
LEMMA AnswersInsideAcc ==
    ASSUME AccountInv, NEW f, Inside(f.h), FrameOK(f), f.at \in {"route", "body"}, f.r = Top.r,
           NEW a \in Answers, AnswersInside(f, a), UNCHANGED <<waiting, wraps, rejected>>
    PROVE  \E stays \in BOOLEAN : CallOver(stays)
<1>1. PICK stays \in BOOLEAN : ~stays
  OBVIOUS
<1>2. PICK r, u, at : r = f.r /\ u = Below(f.h) /\ at = "leave"
  OBVIOUS
<1>3. stack # << >> /\ Top.at \in {"route", "body"} /\ Under(u) /\ IsStack(u) /\ f.h \in Servers
  BY <1>2, UnderIs DEF Inside, Under
<1>4. PICK g : g = Placed(f, at)
  OBVIOUS
<1>5. g.at = "leave" /\ g.r = r
  BY <1>2, <1>3, <1>4, PlacedOK
<1>6. PICK v : v = Append(u, g)
  OBVIOUS
<1>7. u \o <<g>> = v /\ IsStack(v)
  BY <1>3, <1>6, Joined, Pushed
<1>8. stack' = v \o Continuation(r)
  <2>1. g = [f EXCEPT !.at = "leave"]
    BY <1>2, <1>4 DEF Placed
  <2>2. stack' = u \o <<g>> \o Continuation(r)
    BY <1>2, <2>1 DEF AnswersInside
  <2> QED BY <1>7, <2>2
<1>9. stack' = v \/ stack' = Append(v, Callback(r))
  BY <1>7, <1>8, Continued
<1>10. TopMoves(stays)
  BY <1>1, <1>2, <1>3, <1>5, <1>6, <1>9, TopGoesOn
<1>11. wraps[r] \in Seq(Servers)
  BY <1>2, <1>3, TopIs
<1>12. Fulfil(r, wraps[r], a)
  BY <1>2 DEF AnswersInside
<1>13. TopAnswers(stays)
  BY <1>1, <1>2, <1>3, <1>11, <1>12, AnsweredIs
<1> QED BY <1>10, <1>13 DEF CallOver

\* excHandlers of the server h: the answer to an exception is an error.
LEMMA ServerErrorIs ==
    ASSUME NEW h \in Servers, NEW e \in Codes
    PROVE  ExcHandlers(EHandlers[h], e) \in Codes /\ ExcHandlers(EHandlers[h], e) \in Answers
<1>1. EHandlers[h] \in Seq({"log", "rpc", "plain", "throw"})
  BY EHandlersAssumption
<1>2. ExcHandlers(EHandlers[h], e) \in Codes
  BY <1>1, ExcHandlersIs
<1> QED BY <1>2 DEF Answers

\* IHandler::Handle throws above SendBatch, a caller, or nobody.
LEMMA ThrowsAcc ==
    ASSUME AccountInv, NEW f, Inside(f.h), f.r = Top.r, NEW e \in Codes, Throws(f, e),
           UNCHANGED <<waiting, wraps, rejected>>
    PROVE  \E stays \in BOOLEAN : CallOver(stays)
<1>1. PICK stays \in BOOLEAN : ~stays
  OBVIOUS
<1>2. PICK r, u : r = f.r /\ u = Below(f.h)
  OBVIOUS
<1>3. stack # << >> /\ Top.at \in {"route", "body"} /\ Under(u) /\ IsStack(u) /\ f.h \in Servers
  BY <1>2, UnderIs DEF Inside, Under
<1>4. wraps[r] \in Seq(Servers) /\ wraps \in [Requests -> Seq(Servers)]
  BY <1>2, <1>3, TopIs DEF AccountInv, Typed
<1>5. CASE IsMethod(r)
  <2>1. PICK a \in Answers : a = ExcHandlers(EHandlers[f.h], e)
    BY <1>3, ServerErrorIs
  <2>2. Fulfil(r, wraps[r], a) /\ stack' = u \o Continuation(r)
    BY <1>2, <1>5, <2>1 DEF Throws
  <2>3. stack' = u \/ stack' = Append(u, Callback(r))
    BY <1>3, <2>2, Continued
  <2>4. TopMoves(stays)
    BY <1>1, <1>3, <2>3, TopIsOver
  <2>5. TopAnswers(stays)
    BY <1>1, <1>2, <1>3, <1>4, <2>2, AnsweredIs
  <2> QED BY <2>4, <2>5 DEF CallOver
<1>6. CASE ~IsMethod(r)
  <2>1. ThrowNotify(u, f.shield) /\ answer' = answer
    BY <1>2, <1>6 DEF Throws
  <2>2. stack' = u \/ (u # << >> /\ u[Len(u)].at = "batch" /\ stack' = Front(u))
    BY <2>1 DEF ThrowNotify
  <2>3. TopMoves(stays)
    BY <1>1, <1>2, <1>3, <1>6, <2>2, TopIsOver
  <2>4. TopAnswers(stays)
    BY <1>1, <1>2, <1>3, <1>4, <1>6, <2>1, QuietIs
  <2> QED BY <2>3, <2>4 DEF CallOver
<1> QED BY <1>5, <1>6

\* Server: DoHandle up to the handler, the handler returns or throws.
LEMMA DoHandleAcc ==
    ASSUME AccountInv, DoHandle
    PROVE  \E stays \in BOOLEAN : CallOver(stays)
<1>1. stack # << >> /\ Top.at = "route" /\ Top.h \in Servers /\ UNCHANGED <<waiting, wraps, rejected>>
  BY DEF DoHandle, Running
<1>2. PICK name : MiddlewareThrows(Renamed(Top, name)) \/ Extension(Renamed(Top, name))
                  \/ CallFound(Renamed(Top, name)) \/ NotFound(Renamed(Top, name))
  BY DEF DoHandle, Renamed
<1>3. PICK f : f = Renamed(Top, name)
  OBVIOUS
<1>4. FrameOK(f) /\ f.at = "route" /\ f.h = Top.h /\ f.r = Top.r /\ f.h \in Servers /\ Inside(f.h)
  BY <1>1, <1>3, TopFacts, RenamedOK DEF Inside, AccountInv, CallsInv
<1>5. ASSUME NEW e \in Codes, Throws(f, e) PROVE \E stays \in BOOLEAN : CallOver(stays)
  BY <1>1, <1>4, <1>5, ThrowsAcc
<1>6. ASSUME NEW a \in Answers, AnswersInside(f, a) PROVE \E stays \in BOOLEAN : CallOver(stays)
  BY <1>1, <1>4, <1>6, AnswersInsideAcc
<1>7. ASSUME NEW at \in {"body", "leave"}, stack' = Append(Below(f.h), Placed(f, at)), answer' = answer,
             IF at = "body" THEN ValidateRequest(Methods[f.name[1]], f.r) ELSE ~IsMethod(f.r)
      PROVE  \E stays \in BOOLEAN : CallOver(stays)
  <2>1. PICK u, g, r : u = Below(f.h) /\ g = Placed(f, at) /\ r = f.r
    OBVIOUS
  <2>2. Under(u)
    BY <1>1, <2>1, UnderIs
  <2>3. g.at = at /\ g.r = r /\ g.name = f.name
    <3>1. g.at = at /\ g.r = r
      BY <1>4, <2>1, PlacedOK
    <3>2. g.name = f.name
      BY <1>4, <2>1 DEF Placed, FrameOK, CallFields
    <3> QED BY <3>1, <3>2
  <2>4. r \in 1 .. Len(req) /\ wraps \in [Requests -> Seq(Servers)]
    BY <1>1, <1>4, <2>1, TopIs DEF AccountInv, Typed
  <2>5. PICK stays \in BOOLEAN : stays <=> at = "body"
    OBVIOUS
  <2>6. stays => FrameT(g)
    BY <1>7, <2>1, <2>3, <2>4, <2>5 DEF FrameT, ValidateRequest
  <2>7. IF stays THEN g.at \in {"route", "body"} /\ FrameT(g) ELSE g.at = "leave"
    BY <2>3, <2>5, <2>6
  <2>8. PICK v : v = Append(u, g)
    OBVIOUS
  <2>9. stack' = v
    BY <1>7, <2>1, <2>8
  <2>10. TopMoves(stays)
    BY <1>1, <1>4, <2>1, <2>2, <2>3, <2>7, <2>8, <2>9, TopGoesOn
  <2>11. stays \/ ~IsMethod(r)
    BY <1>7, <2>1, <2>5
  <2>12. TopAnswers(stays)
    BY <1>1, <1>4, <1>7, <2>1, <2>4, <2>11, QuietIs
  <2> QED BY <2>10, <2>12 DEF CallOver
<1>8. "app" \in Codes /\ "not_found" \in Codes /\ "invalid" \in Codes /\ "value" \in Answers
  BY DEF Codes, Answers
<1>9. CASE MiddlewareThrows(f)
  BY <1>5, <1>8, <1>9 DEF MiddlewareThrows
<1>10. CASE Extension(f)
  BY <1>5, <1>6, <1>8, <1>10 DEF Extension
<1>11. CASE CallFound(f)
  <2>1. \/ /\ ValidateRequest(Methods[f.name[1]], f.r)
           /\ stack' = Append(Below(f.h), Placed(f, "body")) /\ answer' = answer
        \/ Throws(f, "invalid")
    BY <1>11 DEF CallFound, Placed
  <2> QED BY <1>5, <1>7, <1>8, <2>1
<1>12. CASE NotFound(f)
  <2>1. \/ AnswersInside(f, "value")
        \/ Throws(f, "app")
        \/ AnswersInside(f, ExcHandlers(EHandlers[f.h], "not_found"))
        \/ ~IsMethod(f.r) /\ stack' = Append(Below(f.h), Placed(f, "leave")) /\ answer' = answer
    BY <1>12 DEF NotFound, Placed
  <2>2. CASE AnswersInside(f, ExcHandlers(EHandlers[f.h], "not_found"))
    BY <1>4, <1>6, <1>8, <2>2, ServerErrorIs
  <2> QED BY <1>5, <1>6, <1>7, <1>8, <2>1, <2>2
<1> QED BY <1>2, <1>3, <1>9, <1>10, <1>11, <1>12

\* A handler throws.
LEMMA HandlerThrowsAcc ==
    ASSUME AccountInv, HandlerThrows
    PROVE  \E stays \in BOOLEAN : CallOver(stays)
<1>1. stack # << >> /\ Top.at = "body" /\ Throws(Top, "app") /\ UNCHANGED <<waiting, wraps, rejected>>
  BY DEF HandlerThrows, Running
<1>2. Inside(Top.h)
  BY <1>1, TopFacts DEF Inside, FrameOK, AccountInv, CallsInv
<1>3. PICK f, e : f = Top /\ e = "app" /\ e \in Codes
  BY DEF Codes
<1>4. Inside(f.h) /\ f.r = Top.r /\ Throws(f, e)
  BY <1>1, <1>2, <1>3
<1> QED BY <1>1, <1>3, <1>4, ThrowsAcc

\* A handler returns.
LEMMA HandlerReturnsAcc ==
    ASSUME AccountInv, HandlerReturns
    PROVE  \E stays \in BOOLEAN : CallOver(stays)
<1>1. stack # << >> /\ Top.at = "body" /\ UNCHANGED <<wraps, rejected>>
  BY DEF HandlerReturns, Running
<1>2. PICK f, r, u : f = Top /\ r = f.r /\ u = Front(stack)
  OBVIOUS
<1>3. FrameOK(f) /\ f.at = "body" /\ f.h \in Servers /\ Inside(f.h) /\ f = stack[Len(stack)] /\ Len(stack) \in Nat \ {0}
  BY <1>1, <1>2, TopFacts DEF Inside, FrameOK, AccountInv, CallsInv
<1>4. Under(u)
  BY <1>1, <1>2, UnderIs
<1>5. /\ r \in 1 .. Len(req) /\ r \in Requests /\ waiting[r] = None /\ wraps \in [Requests -> Seq(Servers)]
      /\ IsMethod(r) /\ answer[r] # None => r \in rejected
      /\ r \in rejected => IsMethod(r) /\ answer[r] \in Codes
  BY <1>1, <1>2, TopIs DEF AccountInv, Typed
<1>6. FrameT(f)
  BY <1>3 DEF AccountInv, Typed
<1>7. PICK at, g, v : at = "leave" /\ g = Placed(f, at) /\ v = Append(u, g)
  OBVIOUS
<1>8. g.at = "leave" /\ g.r = r
  BY <1>2, <1>3, <1>7, PlacedOK
<1>9. \/ AnswersInside(f, "value") /\ UNCHANGED waiting
      \/ AnswersInside(f, ExcHandlers(EHandlers[f.h], "app")) /\ UNCHANGED waiting
      \/ stack' = v /\ answer' = answer /\ waiting' = [waiting EXCEPT ![r] = f.h]
      \/ stack' = v /\ answer' = answer /\ waiting' = waiting /\ Methods[f.name[1]].kind = "notify"
  BY <1>2, <1>7 DEF HandlerReturns, Placed
<1>10. ASSUME NEW a \in Answers, AnswersInside(f, a), waiting' = waiting
       PROVE  \E stays \in BOOLEAN : CallOver(stays)
  <2>1. f.at \in {"route", "body"} /\ f.r = Top.r
    BY <1>2, <1>3
  <2> QED BY <1>1, <1>3, <1>10, <2>1, AnswersInsideAcc
<1>11. CASE AnswersInside(f, "value") /\ UNCHANGED waiting
  <2>1. "value" \in Answers
    BY DEF Answers
  <2> QED BY <1>10, <1>11, <2>1
<1>12. CASE AnswersInside(f, ExcHandlers(EHandlers[f.h], "app")) /\ UNCHANGED waiting
  <2>1. "app" \in Codes
    BY DEF Codes
  <2> QED BY <1>3, <1>10, <1>12, <2>1, ServerErrorIs
<1>13. PICK stays \in BOOLEAN : ~stays
  OBVIOUS
<1>14. ASSUME stack' = v PROVE TopMoves(stays)
  BY <1>1, <1>2, <1>4, <1>7, <1>8, <1>13, <1>14, TopGoesOn
<1>15. CASE stack' = v /\ answer' = answer /\ waiting' = [waiting EXCEPT ![r] = f.h]
  <2>1. f.h # None
    BY <1>3, NoneAssumption
  <2>2. /\ waiting' \in [Requests -> Servers \cup {None}] /\ waiting'[r] # None
        /\ \A x \in Requests : x # r => waiting'[x] = waiting[x]
    BY <1>3, <1>5, <1>15, <2>1 DEF AccountInv, Typed
  <2>3. TopAnswers(stays)
    BY <1>1, <1>2, <1>5, <1>13, <1>15, <2>2 DEF TopAnswers, AccountInv, Typed
  <2> QED BY <1>14, <1>15, <2>3 DEF CallOver
<1>16. CASE stack' = v /\ answer' = answer /\ waiting' = waiting /\ Methods[f.name[1]].kind = "notify"
  <2>1. ~IsMethod(r)
    BY <1>2, <1>3, <1>6, <1>16 DEF FrameT
  <2>2. TopAnswers(stays)
    BY <1>1, <1>2, <1>5, <1>13, <1>16, <2>1, QuietIs
  <2> QED BY <1>14, <1>16, <2>2 DEF CallOver
<1> QED BY <1>9, <1>11, <1>12, <1>15, <1>16

-----------------------------------------------------------------------------
\* The other steps.

\* Nothing changes, or a call returns that holds no request.
LEMMA QuietAcc ==
    ASSUME AccountInv, UNCHANGED <<req, answer, currentBatch, waiting, wraps, rejected>>,
           \/ stack' = stack
           \/ stack # << >> /\ stack' = Front(stack) /\ \A x : Held(Top, x) = {}
    PROVE  Typed' /\ \A x \in Requests : Acc(x)'
<1>1. IsStack(stack) /\ Len(stack) \in Nat
  BY StackLen DEF AccountInv, CallsInv, ContextInv, StackOK, FramesOK
<1>2. PICK n, m : n = Len(stack) /\ m = Len(stack')
  OBVIOUS
<1>3. /\ m \in Nat /\ n \in Nat /\ m <= n
      /\ \A j \in 1 .. m : stack'[j] = stack[j]
      /\ \A j \in 1 .. n : j <= m \/ (j = n /\ \A x : Held(stack[j], x) = {})
  <2>1. CASE stack' = stack
    BY <1>1, <1>2, <2>1
  <2>2. CASE stack # << >> /\ stack' = Front(stack) /\ \A x : Held(Top, x) = {}
    <3>1. n \in Nat \ {0} /\ Top = stack[n]
      BY <1>1, <1>2, <2>2, StackLen DEF Top
    <3>2. m = n - 1 /\ \A j \in 1 .. n - 1 : stack'[j] = stack[j]
      BY <1>1, <1>2, <2>2, Popped
    <3> QED BY <2>2, <3>1, <3>2
  <2> QED BY <2>1, <2>2
<1>4. \A j \in 0 .. m : \A x : Slot(stack', currentBatch', j, x) = Slot(stack, currentBatch, j, x)
  BY <1>3 DEF Slot
<1>5. ASSUME NEW x \in Requests PROVE Acc(x)'
  <2>1. Acc(x) /\ One(stack, currentBatch, waiting, x)
    BY DEF AccountInv, Acc
  <2>2. Kept(x)
    <3>1. ASSUME NEW j \in 0 .. m, Slot(stack', currentBatch', j, x) # {}
          PROVE  /\ j \in 0 .. n /\ Slot(stack, currentBatch, j, x) # {}
                 /\ Lone(Slot(stack', currentBatch', j, x))
      <4>1. j \in 0 .. n
        BY <1>3
      <4> QED BY <1>2, <1>4, <2>1, <3>1, <4>1 DEF One
    <3>2. ASSUME NEW j \in 0 .. n, Slot(stack, currentBatch, j, x) # {}
          PROVE  j \in 0 .. m /\ Slot(stack', currentBatch', j, x) # {}
      <4>1. CASE j = 0
        BY <1>3, <1>4, <3>2, <4>1
      <4>2. CASE j # 0
        <5>1. j \in 1 .. n /\ Held(stack[j], x) # {}
          BY <1>3, <3>2, <4>2 DEF Slot
        <5>2. j <= m
          BY <1>3, <5>1
        <5>3. j \in 0 .. m
          BY <1>3, <5>1, <5>2
        <5> QED BY <1>4, <3>2, <5>3
      <4> QED BY <4>1, <4>2
    <3> QED BY <1>2, <3>1, <3>2 DEF Kept
  <2>3. SameRequest(x)
    BY DEF SameRequest
  <2> QED BY <1>2, <1>3, <2>1, <2>2, <2>3, KeptAcc
<1>6. \A f : FrameT(f)' <=> FrameT(f)
  BY DEF FrameT, Sorted, IsMethod
<1>7. \A f, g : Above(f, g)' <=> Above(f, g)
  BY DEF Above, IsMethod
<1>8. ASSUME NEW j \in 1 .. m PROVE FrameT(stack'[j]) /\ (j + 1 <= m => Above(stack'[j], stack'[j + 1]))
  <2>1. j \in 1 .. n /\ (j + 1 <= m => j + 1 \in 1 .. m /\ j + 1 <= n)
    BY <1>3
  <2> QED BY <1>2, <1>3, <2>1 DEF AccountInv, Typed
<1>9. Sorted(currentBatch)'
  BY DEF AccountInv, Typed, Sorted, IsMethod
<1>10. Typed'
  BY <1>2, <1>6, <1>7, <1>8, <1>9 DEF AccountInv, Typed
<1> QED BY <1>5, <1>10

\* batchDone: the frame that returns holds no request.
LEMMA BatchDoneAcc ==
    ASSUME AccountInv, BatchDone
    PROVE  Typed' /\ \A x \in Requests : Acc(x)'
<1>1. /\ stack # << >> /\ Top.at = "batch" /\ Top.batch = EmptyBatch /\ stack' = Front(stack)
      /\ UNCHANGED <<req, answer, currentBatch, waiting, wraps, rejected>>
  BY DEF BatchDone, Running
<1>2. \A x : Held(Top, x) = {}
  BY <1>1, EmptyBatchIs DEF Held
<1> QED BY <1>1, <1>2, QuietAcc

\* DoHandle and continuations return.
LEMMA ReturnsAcc ==
    ASSUME AccountInv, Leave \/ CallbackReturns
    PROVE  Typed' /\ \A x \in Requests : Acc(x)'
<1>1. /\ stack # << >> /\ Top.at \in {"leave", "callback"} /\ stack' = Front(stack)
      /\ UNCHANGED <<req, answer, currentBatch, waiting, wraps, rejected>>
  BY DEF Leave, CallbackReturns, Running, client
<1>2. \A x : Held(Top, x) = {}
  BY <1>1 DEF Held
<1> QED BY <1>1, <1>2, QuietAcc

\* Wrap: the answer of an asynchronous handler.
LEMMA SettleAcc ==
    ASSUME AccountInv, NEW r \in Requests, Settle(r)
    PROVE  Typed' /\ \A x \in Requests : Acc(x)'
<1>1. /\ stack = << >> /\ waiting[r] # None /\ stack' = Continuation(r)
      /\ waiting' = [waiting EXCEPT ![r] = None] /\ UNCHANGED <<req, currentBatch, wraps, rejected>>
  BY DEF Settle, client
<1>2. Acc(r) /\ One(stack, currentBatch, waiting, r) /\ Somewhere(stack, currentBatch, waiting, r) /\ r \in 1 .. Len(req)
  BY <1>1 DEF AccountInv, Acc, Somewhere
<1>3. waiting[r] \in Servers /\ wraps[r] \in Seq(Servers)
  BY <1>1 DEF AccountInv, Typed
<1>4. PICK a \in Answers : Fulfil(r, wraps[r], a)
  <2>1. PICK res \in {"value", "app"}, w \in Servers :
            /\ w = waiting[r]
            /\ Fulfil(r, wraps[r], CASE w \notin alive -> "broken"
                                     [] w \in alive /\ res = "value" -> res
                                     [] OTHER -> ExcHandlers(EHandlers[w], res))
    BY <1>3 DEF Settle
  <2>2. PICK a : a = CASE w \notin alive -> "broken"
                       [] w \in alive /\ res = "value" -> res
                       [] OTHER -> ExcHandlers(EHandlers[w], res)
    OBVIOUS
  <2>3. a \in Answers
    <3>1. "broken" \in Answers /\ "value" \in Answers /\ "app" \in Codes
      BY DEF Answers, Codes
    <3>2. res = "app" => ExcHandlers(EHandlers[w], res) \in Answers
      BY <1>3, <2>1, <3>1, ServerErrorIs
    <3> QED BY <2>2, <3>1, <3>2
  <2> QED BY <2>1, <2>2, <2>3
<1>5. /\ answer' \in [Requests -> Answers \cup {None}]
      /\ \A x \in Requests : x # r => answer'[x] = answer[x]
      /\ IsMethod(r) => answer'[r] # None
      /\ answer[r] # None => answer'[r] = answer[r]
  BY <1>2, <1>3, <1>4, FulfilIs
<1>6. Len(stack) = 0
  BY <1>1, EmptyStack
<1>7. PICK c : c = Callback(r) /\ c.at = "callback"
  <2>1. PICK y : y = r
    OBVIOUS
  <2>2. PICK d : d = Callback(y)
    OBVIOUS
  <2>3. d.at = "callback"
    BY <2>2 DEF Callback
  <2> QED BY <2>1, <2>2, <2>3
<1>8. stack' = stack \/ stack' = Append(stack, c)
  <2>1. << >> \o Continuation(r) = Continuation(r)
    BY DEF Continuation
  <2>2. stack' = stack \o Continuation(r)
    BY <1>1, <2>1
  <2> QED BY <1>1, <1>7, <2>2, EmptyStack, Continued
<1>9. /\ Len(stack') \in {0, 1}
      /\ \A j \in 1 .. Len(stack') : j = 1 /\ stack'[j] = c
  <2>1. PICK t : t = Append(stack, c)
    OBVIOUS
  <2>2. Len(t) = 1 /\ t[1] = c
    <3>1. IsStack(stack) /\ 0 + 1 = 1
      BY <1>1, EmptyStack
    <3> QED BY <1>6, <2>1, <3>1, Pushed
  <2>3. CASE stack' = stack
    BY <1>6, <2>3
  <2>4. CASE stack' = t
    <3>1. Len(stack') = 1 /\ stack'[1] = c
      BY <2>2, <2>4
    <3>2. \A j \in 1 .. 1 : j = 1
      OBVIOUS
    <3> QED BY <3>1, <3>2
  <2> QED BY <1>8, <2>1, <2>3, <2>4
<1>10. \A x : \A j \in 0 .. Len(stack') : IF j = 0 THEN Slot(stack', currentBatch', j, x) = Slot(stack, currentBatch, 0, x)
                                          ELSE Slot(stack', currentBatch', j, x) = {}
  BY <1>1, <1>7, <1>9 DEF Slot, Held
<1>11. ASSUME NEW x \in Requests, x # r PROVE Acc(x)'
  <2>1. Acc(x) /\ One(stack, currentBatch, waiting, x)
    BY DEF AccountInv, Acc
  <2>2. waiting'[x] = waiting[x]
    BY <1>1, <1>11 DEF AccountInv, Typed
  <2>3. Kept(x)
    <3>1. ASSUME NEW j \in 0 .. Len(stack'), Slot(stack', currentBatch', j, x) # {}
          PROVE  /\ j \in 0 .. Len(stack) /\ Slot(stack, currentBatch, j, x) # {}
                 /\ Lone(Slot(stack', currentBatch', j, x))
      <4>1. j = 0 /\ Slot(stack', currentBatch', j, x) = Slot(stack, currentBatch, 0, x)
        BY <1>10, <3>1
      <4>2. 0 \in 0 .. Len(stack)
        BY <1>6
      <4> QED BY <2>1, <3>1, <4>1, <4>2 DEF One
    <3>2. ASSUME NEW j \in 0 .. Len(stack), Slot(stack, currentBatch, j, x) # {}
          PROVE  j \in 0 .. Len(stack') /\ Slot(stack', currentBatch', j, x) # {}
      <4>1. j = 0 /\ 0 \in 0 .. Len(stack')
        BY <1>6, <1>9
      <4> QED BY <1>10, <3>2, <4>1
    <3> QED BY <2>2, <3>1, <3>2 DEF Kept
  <2>4. SameRequest(x)
    BY <1>1 DEF SameRequest
  <2>5. answer'[x] = answer[x] /\ Len(stack) \in Nat /\ Len(stack') \in Nat
    BY <1>5, <1>6, <1>9, <1>11
  <2> QED BY <1>1, <2>1, <2>3, <2>4, <2>5, KeptAcc
<1>12. Acc(r)'
  <2>1. \A j \in 0 .. Len(stack') : Slot(stack', currentBatch', j, r) = {}
    <3>1. 0 \in 0 .. Len(stack)
      BY <1>6
    <3>2. Slot(stack, currentBatch, 0, r) = {}
      BY <1>1, <1>2, <3>1 DEF One
    <3> QED BY <1>10, <3>2
  <2>2. waiting'[r] = None /\ (IsMethod(r)' <=> IsMethod(r)) /\ r \in 1 .. Len(req')
    BY <1>1, <1>2 DEF AccountInv, Typed, IsMethod
  <2>3. r \in rejected' => IsMethod(r)' /\ answer'[r] \in Codes
    <3>1. r \in rejected => IsMethod(r) /\ answer[r] \in Codes
      BY <1>2 DEF Acc
    <3>2. \A e \in Codes : e # None
      BY NoneAssumption DEF Answers
    <3> QED BY <1>1, <1>5, <2>2, <3>1, <3>2
  <2>4. IsMethod(r)' => (answer'[r] # None <=> waiting'[r] = None)
    BY <1>5, <2>2
  <2> QED BY <2>1, <2>2, <2>3, <2>4, GoneAcc
<1>13. FrameT(c) /\ \A j \in 1 .. Len(stack') : stack'[j] = c /\ ~(j + 1 <= Len(stack'))
  BY <1>7, <1>9 DEF FrameT
<1>14. Sorted(currentBatch)'
  BY <1>1 DEF AccountInv, Typed, Sorted, IsMethod
<1>15. waiting' \in [Requests -> Servers \cup {None}]
  BY <1>1 DEF AccountInv, Typed
<1>16. \A f : FrameT(f)' <=> FrameT(f)
  BY <1>1 DEF FrameT, Sorted, IsMethod
<1>17. \A f, g : Above(f, g)' <=> Above(f, g)
  BY <1>1 DEF Above, IsMethod
<1>18. Typed'
  BY <1>1, <1>5, <1>13, <1>14, <1>15, <1>16, <1>17 DEF AccountInv, Typed
<1> QED BY <1>11, <1>12, <1>18

\* BatchGuard::Finish: the batch is handed to SendBatch as it is.
LEMMA FinishAcc ==
    ASSUME AccountInv, Finish
    PROVE  Typed' /\ \A x \in Requests : Acc(x)'
<1>1. UNCHANGED <<req, answer, waiting, wraps, rejected>>
  BY DEF Finish, config
<1>2. CASE ~connected
  BY <1>1, <1>2, QuietAcc DEF Finish
<1>3. CASE connected
  <2>1. PICK cb, f : cb = currentBatch /\ f = BatchFrame(cb)
    OBVIOUS
  <2>2. stack' = Append(stack, f) /\ currentBatch' = EmptyBatch
    BY <1>3, <2>1 DEF Finish
  <2>3. f.at = "batch" /\ f.batch = cb
    BY <2>1 DEF BatchFrame
  <2>4. PICK n \in Nat : n = Len(stack) /\ IsStack(stack)
    BY StackLen DEF AccountInv, CallsInv, ContextInv, StackOK, FramesOK
  <2>5. PICK t : t = Append(stack, f)
    OBVIOUS
  <2>6. IsStack(t) /\ Len(t) = n + 1 /\ t[n + 1] = f /\ \A i \in 1 .. n : t[i] = stack[i]
    BY <2>4, <2>5, Pushed
  <2>7. stack' = t
    BY <2>2, <2>5
  <2>8. \A x : /\ Slot(stack', currentBatch', 0, x) = {}
               /\ Slot(stack', currentBatch', n + 1, x) = Slot(stack, currentBatch, 0, x)
               /\ \A j \in 1 .. n : Slot(stack', currentBatch', j, x) = Slot(stack, currentBatch, j, x)
    <3> SUFFICES ASSUME NEW x
                 PROVE  /\ Slot(stack', currentBatch', 0, x) = {}
                        /\ Slot(stack', currentBatch', n + 1, x) = Slot(stack, currentBatch, 0, x)
                        /\ \A j \in 1 .. n : Slot(stack', currentBatch', j, x) = Slot(stack, currentBatch, j, x)
      OBVIOUS
    <3>1. Slot(stack', currentBatch', 0, x) = {}
      BY <2>2, EmptyBatchIs DEF Slot
    <3>2. Slot(stack', currentBatch', n + 1, x) = Slot(stack, currentBatch, 0, x)
      BY <2>1, <2>3, <2>4, <2>6, <2>7 DEF Slot, Held
    <3>3. \A j \in 1 .. n : Slot(stack', currentBatch', j, x) = Slot(stack, currentBatch, j, x)
      BY <2>4, <2>6, <2>7 DEF Slot
    <3> QED BY <3>1, <3>2, <3>3
  <2>9. Len(stack') = n + 1
    BY <2>6, <2>7
  <2>10. ASSUME NEW x \in Requests PROVE Acc(x)'
    <3>1. Acc(x) /\ One(stack, currentBatch, waiting, x)
      BY DEF AccountInv, Acc
    <3>2. SameRequest(x) /\ (IsMethod(x)' <=> IsMethod(x))
      BY <1>1 DEF SameRequest, IsMethod
    <3>3. \A j \in 0 .. n + 1 : j = 0 \/ j = n + 1 \/ j \in 1 .. n
      BY <2>4
    <3>4. CASE Slot(stack, currentBatch, 0, x) = {}
      <4>1. Kept(x)
        <5>1. ASSUME NEW j \in 0 .. n + 1, Slot(stack', currentBatch', j, x) # {}
              PROVE  /\ j \in 0 .. n /\ Slot(stack, currentBatch, j, x) # {}
                     /\ Lone(Slot(stack', currentBatch', j, x))
          <6>1. j \in 1 .. n /\ j \in 0 .. n
            BY <2>4, <2>8, <3>3, <3>4, <5>1
          <6> QED BY <2>4, <2>8, <3>1, <5>1, <6>1 DEF One
        <5>2. ASSUME NEW j \in 0 .. n, Slot(stack, currentBatch, j, x) # {}
              PROVE  j \in 0 .. n + 1 /\ Slot(stack', currentBatch', j, x) # {}
          <6>1. j \in 1 .. n /\ j \in 0 .. n + 1
            BY <2>4, <3>4, <5>2
          <6> QED BY <2>8, <5>2, <6>1
        <5> QED BY <1>1, <2>4, <2>9, <5>1, <5>2 DEF Kept
      <4>2. Len(stack) \in Nat /\ Len(stack') \in Nat
        BY <2>4, <2>9
      <4> QED BY <1>1, <3>1, <3>2, <4>1, <4>2, KeptAcc
    <3>5. CASE Slot(stack, currentBatch, 0, x) # {}
      <4>1. 0 \in 0 .. n /\ n + 1 \in 0 .. Len(stack')
        BY <2>4, <2>9
      <4>2. \A j \in 1 .. n : Slot(stack, currentBatch, j, x) = {}
        <5> SUFFICES ASSUME NEW j \in 1 .. n PROVE Slot(stack, currentBatch, j, x) = {}
          OBVIOUS
        <5>1. j \in 0 .. n /\ j # 0
          BY <2>4
        <5> QED BY <2>4, <3>1, <3>5, <4>1, <5>1 DEF One
      <4>3. \A j \in 0 .. Len(stack') : Slot(stack', currentBatch', j, x) # {} => j = n + 1
        BY <2>8, <2>9, <3>3, <4>2
      <4>4. Slot(stack', currentBatch', n + 1, x) # {} /\ Lone(Slot(stack', currentBatch', n + 1, x)) /\ waiting[x] = None
        BY <2>4, <2>8, <3>1, <3>5, <4>1 DEF One
      <4>5. Somewhere(stack, currentBatch, waiting, x)
        BY <2>4, <3>5, <4>1 DEF Somewhere
      <4>6. /\ x \in 1 .. Len(req')
            /\ IsMethod(x)' /\ answer'[x] # None => x \in rejected'
            /\ x \in rejected' => IsMethod(x)' /\ answer'[x] \in Codes
        BY <1>1, <3>1, <3>2, <4>5 DEF Acc
      <4> QED BY <1>1, <4>1, <4>3, <4>4, <4>6, HereAcc
    <3> QED BY <3>4, <3>5
  <2>11. \A g : FrameT(g)' <=> FrameT(g)
    BY <1>1 DEF FrameT, Sorted, IsMethod
  <2>12. \A g, k : Above(g, k)' <=> Above(g, k)
    BY <1>1 DEF Above, IsMethod
  <2>13. ASSUME NEW j \in 1 .. n + 1 PROVE FrameT(t[j]) /\ (j + 1 <= n + 1 => Above(t[j], t[j + 1]))
    <3>1. FrameT(f)
      BY <2>1, <2>3 DEF FrameT, AccountInv, Typed
    <3>2. CASE j = n + 1
      BY <2>4, <2>6, <3>1, <3>2
    <3>3. CASE j = n
      <4>1. j \in 1 .. n
        BY <2>4, <3>3
      <4>2. FrameT(t[j])
        BY <2>4, <2>6, <4>1 DEF AccountInv, Typed
      <4>3. Above(t[j], t[j + 1])
        BY <2>3, <2>6, <3>3 DEF Above
      <4> QED BY <4>2, <4>3
    <3>4. CASE j < n
      <4>1. j \in 1 .. n /\ j + 1 \in 1 .. n /\ j + 1 <= n
        BY <2>4, <3>4
      <4> QED BY <2>4, <2>6, <4>1 DEF AccountInv, Typed
    <3> QED BY <2>4, <3>2, <3>3, <3>4
  <2>14. Sorted(EmptyBatch)'
    <3>1. EmptyBatch.methods = << >> /\ EmptyBatch.notifs = << >> /\ DOMAIN << >> = {} /\ EmptyBatch \in Batches
      BY EmptyBatchIs DEF EmptyBatch
    <3> QED BY <3>1 DEF Sorted
  <2>15. Typed'
    <3>1. Sorted(currentBatch)'
      BY <2>2, <2>14 DEF Sorted, IsMethod
    <3>2. \A j \in 1 .. n + 1 : FrameT(stack'[j]) /\ (j + 1 <= n + 1 => Above(stack'[j], stack'[j + 1]))
      BY <2>7, <2>13
    <3> QED BY <1>1, <2>9, <2>11, <2>12, <3>1, <3>2 DEF AccountInv, Typed
  <2> QED BY <2>10, <2>15
<1> QED BY <1>2, <1>3

-----------------------------------------------------------------------------
\* A request is made.

\* Nothing is known of it before.
LEMMA NewIs ==
    ASSUME AccountInv, NEW r \in Requests, r = Len(req) + 1
    PROVE  /\ \A j \in 0 .. Len(stack) : Slot(stack, currentBatch, j, r) = {}
           /\ waiting[r] = None /\ answer[r] = None /\ r \notin rejected /\ r \notin 1 .. Len(req)
<1>1. Len(req) \in Nat
  BY StackLen DEF AccountInv, CallsInv, QueueInv
<1>2. Acc(r) /\ r \notin 1 .. Len(req)
  BY <1>1 DEF AccountInv
<1>3. ~Somewhere(stack, currentBatch, waiting, r)
  BY <1>2 DEF Acc
<1> QED BY <1>2, <1>3 DEF Acc, Somewhere

\* The requests that are held are made, and do not change.
LEMMA OldFrames ==
    ASSUME AccountInv, NEW q, req' = Append(req, q), NEW b, NEW j, j \in 0 .. Len(stack),
           j = 0 => b = currentBatch, j # 0 => stack[j].at = "batch" /\ b = stack[j].batch
    PROVE  Sorted(b) /\ Sorted(b)' /\ \A i \in DOMAIN b.methods : b.methods[i] \in 1 .. Len(req)
<1>1. Len(stack) \in Nat /\ Len(req) \in Nat
  BY StackLen DEF AccountInv, CallsInv, ContextInv, StackOK, FramesOK, QueueInv
<1>2. Sorted(b)
  <2>1. CASE j = 0
    BY <2>1 DEF AccountInv, Typed
  <2>2. CASE j # 0
    <3>1. j \in 1 .. Len(stack)
      BY <1>1, <2>2
    <3>2. FrameT(stack[j])
      BY <3>1 DEF AccountInv, Typed
    <3> QED BY <2>2, <3>2 DEF FrameT
  <2> QED BY <2>1, <2>2
<1>3. \A x \in Requests : InBatch(b, x) # {} => x \in 1 .. Len(req)
  <2> SUFFICES ASSUME NEW x \in Requests, InBatch(b, x) # {} PROVE x \in 1 .. Len(req)
    OBVIOUS
  <2>1. Slot(stack, currentBatch, j, x) = InBatch(b, x)
    BY DEF Slot, Held
  <2>2. Somewhere(stack, currentBatch, waiting, x)
    BY <2>1 DEF Somewhere
  <2> QED BY <2>2 DEF AccountInv, Acc
<1>4. /\ \A i \in DOMAIN b.methods : b.methods[i] \in 1 .. Len(req)
      /\ \A i \in DOMAIN b.notifs : b.notifs[i] \in 1 .. Len(req)
  <2>1. b.methods \in Seq(Requests) /\ b.notifs \in Seq(Requests)
    BY <1>2 DEF Sorted, Batches
  <2>2. ASSUME NEW i \in DOMAIN b.methods PROVE b.methods[i] \in 1 .. Len(req)
    <3>1. b.methods[i] \in Requests
      BY <2>1
    <3>2. At(b.methods, b.methods[i]) # {}
      BY DEF At
    <3> QED BY <1>3, <3>1, <3>2, InBatchIs
  <2>3. ASSUME NEW i \in DOMAIN b.notifs PROVE b.notifs[i] \in 1 .. Len(req)
    <3>1. b.notifs[i] \in Requests
      BY <2>1
    <3>2. At(b.notifs, b.notifs[i]) # {}
      BY DEF At
    <3> QED BY <1>3, <3>1, <3>2, InBatchIs
  <2> QED BY <2>2, <2>3
<1>5. \A x \in 1 .. Len(req) : IsMethod(x)' <=> IsMethod(x)
  <2>1. \A x \in 1 .. Len(req) : req'[x] = req[x]
    BY Pushed DEF AccountInv, CallsInv, QueueInv
  <2> QED BY <2>1 DEF IsMethod
<1> QED BY <1>2, <1>4, <1>5 DEF Sorted

\* The calls and the batch stay well-formed.
LEMMA OldTyped ==
    ASSUME AccountInv, NEW q, req' = Append(req, q), NEW st, st = stack
    PROVE  /\ \A j \in 1 .. Len(stack) : FrameT(st[j])' /\ (j + 1 <= Len(stack) => Above(st[j], st[j + 1])')
           /\ \A x \in 1 .. Len(req) : IsMethod(x)' <=> IsMethod(x)
<1>1. Len(stack) \in Nat /\ Len(req) \in Nat /\ Len(req') = Len(req) + 1
  BY StackLen, Pushed DEF AccountInv, CallsInv, ContextInv, StackOK, FramesOK, QueueInv
<1>2. \A x \in 1 .. Len(req) : IsMethod(x)' <=> IsMethod(x)
  <2>1. \A x \in 1 .. Len(req) : req'[x] = req[x]
    BY Pushed DEF AccountInv, CallsInv, QueueInv
  <2> QED BY <2>1 DEF IsMethod
<1>3. ASSUME NEW j \in 1 .. Len(stack) PROVE FrameT(st[j])'
  <2>1. PICK f : f = st[j]
    OBVIOUS
  <2>2. FrameT(f)
    BY <2>1 DEF AccountInv, Typed
  <2>3. ASSUME f.at = "batch" PROVE Sorted(f.batch)'
    <3>1. PICK b : b = f.batch
      OBVIOUS
    <3>2. j \in 0 .. Len(stack) /\ j # 0 /\ stack[j].at = "batch" /\ b = stack[j].batch
      BY <1>1, <2>1, <2>3, <3>1
    <3>3. Sorted(b)'
      BY <3>2, OldFrames
    <3> QED BY <3>1, <3>3
  <2>4. f.at \in {"route", "body", "leave"} => f.r \in 1 .. Len(req) /\ f.r \in 1 .. Len(req')
    BY <1>1, <2>2 DEF FrameT
  <2>5. FrameT(f)'
    BY <1>2, <2>2, <2>3, <2>4 DEF FrameT
  <2> QED BY <2>1, <2>5
<1>4. ASSUME NEW j \in 1 .. Len(stack), j + 1 <= Len(stack) PROVE Above(st[j], st[j + 1])'
  <2>1. PICK f, g : f = st[j] /\ g = st[j + 1]
    OBVIOUS
  <2>2. j + 1 \in 1 .. Len(stack)
    BY <1>1, <1>4
  <2>3. Above(f, g) /\ FrameT(g)
    BY <1>4, <2>1, <2>2 DEF AccountInv, Typed
  <2>4. Above(f, g)'
    BY <1>2, <2>3 DEF Above, FrameT
  <2> QED BY <2>1, <2>4
<1> QED BY <1>2, <1>3, <1>4

\* The requests that were made before stay where they are.
LEMMA OldAcc ==
    ASSUME AccountInv, NEW q, req' = Append(req, q), NEW r \in Requests, r = Len(req) + 1,
           IsStack(stack'), rejected' = rejected,
           NEW x \in Requests, x # r, Kept(x), answer'[x] = answer[x]
    PROVE  Acc(x)'
<1>1. SameRequest(x)
  <2>1. /\ Len(req) \in Nat /\ Len(req') = Len(req) + 1
        /\ \A i \in 1 .. Len(req) : req'[i] = req[i]
    BY StackLen, Pushed DEF AccountInv, CallsInv, QueueInv
  <2>2. x \in Nat
    BY DEF Requests
  <2> QED BY <2>1, <2>2 DEF SameRequest
<1>2. Len(stack) \in Nat /\ Len(stack') \in Nat /\ Acc(x)
  BY StackLen DEF AccountInv, CallsInv, ContextInv, StackOK, FramesOK
<1> QED BY <1>1, <1>2, KeptAcc

\* What is the same for every new request.
LEMMA NewTyped ==
    ASSUME AccountInv, NEW q, req' = Append(req, q), q.from \in {"client", "peer"},
           NEW r \in Requests, r = Len(req) + 1
    PROVE  /\ r \in 1 .. Len(req') /\ Len(req') <= MaxRequests /\ (IsMethod(r)' <=> ~q.notify)
           /\ \A i \in 1 .. Len(req') : req'[i].from \in {"client", "peer"}
<1>1. /\ Len(req) \in Nat /\ Len(req') = r /\ req'[r] = q /\ r \in Nat
      /\ \A i \in 1 .. r : i = r \/ (i \in 1 .. Len(req) /\ req'[i] = req[i])
  BY StackLen, Requested DEF AccountInv, CallsInv, QueueInv
<1>2. r \in 1 .. r /\ r <= MaxRequests
  BY <1>1, BoundsAssumption DEF Requests
<1>3. \A i \in 1 .. r : req'[i].from \in {"client", "peer"}
  BY <1>1 DEF AccountInv, Typed
<1> QED BY <1>1, <1>2, <1>3 DEF IsMethod

\* It is in a call.
LEMMA EnteredAcc ==
    ASSUME AccountInv, NEW q, req' = Append(req, q), q.from \in {"client", "peer"},
           NEW r \in Requests, r = Len(req) + 1, NEW f, f.at = "route", f.r = r,
           stack' = Append(stack, f), stack # << >> => Top.at # "batch",
           UNCHANGED <<answer, currentBatch, waiting, wraps, rejected>>
    PROVE  Typed' /\ \A x \in Requests : Acc(x)'
<1>1. PICK n \in Nat : n = Len(stack) /\ IsStack(stack)
  BY StackLen DEF AccountInv, CallsInv, ContextInv, StackOK, FramesOK
<1>2. PICK t : t = Append(stack, f)
  OBVIOUS
<1>3. IsStack(t) /\ Len(t) = n + 1 /\ t[n + 1] = f /\ \A i \in 1 .. n : t[i] = stack[i]
  BY <1>1, <1>2, Pushed
<1>4. stack' = t /\ Len(stack') = n + 1
  BY <1>2, <1>3
<1>5. /\ r \in 1 .. Len(req') /\ Len(req') <= MaxRequests
      /\ \A i \in 1 .. Len(req') : req'[i].from \in {"client", "peer"}
  BY NewTyped
<1>6. /\ \A j \in 0 .. n : Slot(stack, currentBatch, j, r) = {}
      /\ waiting[r] = None /\ answer[r] = None /\ r \notin rejected
  BY <1>1, NewIs
<1>7. \A x : /\ Slot(stack', currentBatch', n + 1, x) = IF x = r THEN {"call"} ELSE {}
             /\ \A j \in 0 .. n : Slot(stack', currentBatch', j, x) = Slot(stack, currentBatch, j, x)
  <2>1. \A x : Slot(stack', currentBatch', n + 1, x) = IF x = r THEN {"call"} ELSE {}
    BY <1>1, <1>3, <1>4 DEF Slot, Held
  <2>2. \A x : \A j \in 0 .. n : Slot(stack', currentBatch', j, x) = Slot(stack, currentBatch, j, x)
    BY <1>1, <1>3, <1>4 DEF Slot
  <2> QED BY <2>1, <2>2
<1>8. \A j \in 0 .. n + 1 : j = n + 1 \/ j \in 0 .. n
  BY <1>1
<1>9. ASSUME NEW x \in Requests, x # r PROVE Acc(x)'
  <2>1. One(stack, currentBatch, waiting, x)
    BY DEF AccountInv, Acc
  <2>2. Kept(x)
    <3>1. ASSUME NEW j \in 0 .. n + 1, Slot(stack', currentBatch', j, x) # {}
          PROVE  /\ j \in 0 .. n /\ Slot(stack, currentBatch, j, x) # {}
                 /\ Lone(Slot(stack', currentBatch', j, x))
      <4>1. j \in 0 .. n
        BY <1>7, <1>8, <1>9, <3>1
      <4> QED BY <1>1, <1>7, <2>1, <3>1, <4>1 DEF One
    <3>2. ASSUME NEW j \in 0 .. n, Slot(stack, currentBatch, j, x) # {}
          PROVE  j \in 0 .. n + 1 /\ Slot(stack', currentBatch', j, x) # {}
      BY <1>1, <1>7, <3>2
    <3> QED BY <1>1, <1>4, <3>1, <3>2 DEF Kept
  <2>3. IsStack(stack')
    BY <1>3, <1>4
  <2> QED BY <1>9, <2>2, <2>3, OldAcc
<1>10. Acc(r)'
  <2>1. PICK k : k = n + 1 /\ k \in 0 .. Len(stack') /\ Lone({"call"}) /\ {"call"} # {}
    BY <1>1, <1>4 DEF Lone
  <2>2. \A j \in 0 .. Len(stack') : Slot(stack', currentBatch', j, r) # {} => j = k
    BY <1>4, <1>6, <1>7, <1>8, <2>1
  <2>3. Slot(stack', currentBatch', k, r) = {"call"}
    BY <1>7, <2>1
  <2>4. Slot(stack', currentBatch', k, r) # {} /\ Lone(Slot(stack', currentBatch', k, r))
    BY <2>1, <2>3
  <2>5. /\ waiting'[r] = None
        /\ IsMethod(r)' /\ answer'[r] # None => r \in rejected'
        /\ r \in rejected' => IsMethod(r)' /\ answer'[r] \in Codes
    BY <1>6
  <2> QED BY <1>5, <2>1, <2>2, <2>4, <2>5, HereAcc
<1>11. Typed'
  <2>1. ASSUME NEW j \in 1 .. n + 1 PROVE FrameT(t[j])' /\ (j + 1 <= n + 1 => Above(t[j], t[j + 1])')
    <3>1. PICK st : st = stack
      OBVIOUS
    <3>2. \A i \in 1 .. n : FrameT(st[i])' /\ (i + 1 <= n => Above(st[i], st[i + 1])')
      BY <1>1, <3>1, OldTyped
    <3>3. \A i \in 1 .. n : t[i] = st[i]
      BY <1>3, <3>1
    <3>4. CASE j = n + 1
      <4>1. FrameT(f)'
        BY <1>5 DEF FrameT
      <4> QED BY <1>1, <1>3, <3>4, <4>1
    <3>5. CASE j = n
      <4>1. j \in 1 .. n /\ t[j] = st[j] /\ t[j + 1] = f
        BY <1>1, <1>3, <3>3, <3>5
      <4>2. st[j].at # "batch"
        <5>1. stack # << >> /\ Top = stack[n]
          BY <1>1, <4>1, StackLen DEF Top
        <5> QED BY <3>1, <3>5, <5>1
      <4>3. Above(st[j], f)'
        BY <4>2 DEF Above
      <4> QED BY <3>2, <4>1, <4>3
    <3>6. CASE j < n
      <4>1. j \in 1 .. n /\ j + 1 \in 1 .. n /\ j + 1 <= n
        BY <1>1, <3>6
      <4> QED BY <3>2, <3>3, <4>1
    <3> QED BY <1>1, <3>4, <3>5, <3>6
  <2>2. Sorted(currentBatch)'
    <3>1. PICK b, j : b = currentBatch /\ j = 0 /\ j \in 0 .. Len(stack)
      BY <1>1
    <3>2. Sorted(b)'
      BY <3>1, OldFrames
    <3> QED BY <3>1, <3>2 DEF Sorted, IsMethod
  <2>3. \A j \in 1 .. n + 1 : FrameT(stack[j])' /\ (j + 1 <= n + 1 => Above(stack[j], stack[j + 1])')
    BY <1>4, <2>1
  <2> QED BY <1>4, <1>5, <2>2, <2>3 DEF AccountInv, Typed
<1> QED BY <1>9, <1>10, <1>11

\* Receive: it comes from a peer.
LEMMA ReceiveAcc ==
    ASSUME AccountInv, NEW p, Receive(p)
    PROVE  Typed' /\ \A x \in Requests : Acc(x)'
<1>1. PICK r : r = Len(req) + 1
  OBVIOUS
<1>2. PICK q, name, shield : /\ req' = Append(req, q) /\ q.from = "peer" /\ r \in Requests
                             /\ stack' = <<HandleFrame(r, Main, name, r, shield)>>
  BY <1>1 DEF Receive
<1>3. stack = << >> /\ UNCHANGED <<answer, currentBatch, waiting, wraps, rejected>>
  BY DEF Receive, client
<1>4. PICK f : f = HandleFrame(r, Main, name, r, shield)
  OBVIOUS
<1>5. f.at = "route" /\ f.r = r
  BY <1>4 DEF HandleFrame
<1>6. stack' = Append(stack, f)
  <2>1. Append(<< >>, f) = <<f>>
    OBVIOUS
  <2> QED BY <1>2, <1>3, <1>4, <2>1
<1> QED BY <1>1, <1>2, <1>3, <1>5, <1>6, EnteredAcc

\* sendRequest, NotifyRaw: it joins the batch, or a call, or is broken at once.
LEMMA RequestAcc ==
    ASSUME AccountInv, NEW p, Request(p)
    PROVE  Typed' /\ \A x \in Requests : Acc(x)'
<1>1. PICK r : r = Len(req) + 1
  OBVIOUS
<1>2. PICK q : q = [name |-> AddPref(p.name, prefix), notify |-> p.notify,
                    params |-> p.params, from |-> "client", during |-> Period]
  OBVIOUS
<1>3. /\ req' = Append(req, q) /\ r \in Requests /\ q.from = "client" /\ q.notify = p.notify
      /\ UserCode /\ UNCHANGED <<waiting, wraps, rejected>>
  BY <1>1, <1>2 DEF Request
<1>4. stack # << >> => Top.at # "batch"
  BY <1>3 DEF UserCode
<1>5. /\ r \in 1 .. Len(req') /\ Len(req') <= MaxRequests /\ (IsMethod(r)' <=> ~p.notify)
      /\ \A i \in 1 .. Len(req') : req'[i].from \in {"client", "peer"}
  BY <1>1, <1>3, NewTyped
<1>6. /\ \A j \in 0 .. Len(stack) : Slot(stack, currentBatch, j, r) = {}
      /\ waiting[r] = None /\ answer[r] = None /\ r \notin rejected
  BY <1>1, <1>3, NewIs
<1>7. Len(stack) \in Nat /\ IsStack(stack)
  BY StackLen DEF AccountInv, CallsInv, ContextInv, StackOK, FramesOK
<1>8. ASSUME stack' = stack
      PROVE  /\ \A j \in 1 .. Len(stack') : FrameT(stack[j])'
             /\ \A j \in 1 .. Len(stack') : j + 1 <= Len(stack') => Above(stack[j], stack[j + 1])'
  <2>1. PICK st : st = stack
    OBVIOUS
  <2>2. \A j \in 1 .. Len(stack) : FrameT(st[j])' /\ (j + 1 <= Len(stack) => Above(st[j], st[j + 1])')
    BY <1>3, <2>1, OldTyped
  <2> QED BY <1>8, <2>1, <2>2
<1>9. PICK cb : cb = currentBatch /\ Sorted(cb) /\ Sorted(cb)'
  <2>1. PICK b, j : b = currentBatch /\ j = 0 /\ j \in 0 .. Len(stack)
    BY <1>7
  <2>2. Sorted(b) /\ Sorted(b)'
    BY <1>3, <2>1, OldFrames
  <2> QED BY <2>1, <2>2
<1>10. CASE batchActive
  <2>1. PICK kind : kind = IF p.notify THEN "n" ELSE "m"
    OBVIOUS
  <2>2. PICK b : b = Queued(cb, kind, r)
    OBVIOUS
  <2>3. currentBatch' = b /\ stack' = stack /\ answer' = answer
    BY <1>1, <1>9, <1>10, <2>1, <2>2 DEF Request, Queues, Queued
  <2>4. /\ b \in Batches
        /\ \A x : x # r => InBatch(b, x) = InBatch(cb, x)
        /\ Once(InBatch(b, r))
    <3>1. Slot(stack, currentBatch, 0, r) = {}
      BY <1>6, <1>7
    <3>2. cb \in Batches /\ InBatch(cb, r) = {}
      BY <1>9, <3>1 DEF Slot, Sorted
    <3>3. b \in Batches
      BY <1>3, <2>2, <3>2, QueuedIs
    <3>4. \A x : x # r => InBatch(b, x) = InBatch(cb, x)
      BY <1>3, <2>2, <3>2, QueuedIs
    <3>5. Once(InBatch(b, r))
      BY <1>3, <2>2, <3>2, QueuedIs
    <3> QED BY <3>3, <3>4, <3>5
  <2>5. \A x, j : j # 0 => Slot(stack', currentBatch', j, x) = Slot(stack, currentBatch, j, x)
    BY <2>3 DEF Slot
  <2>6. \A x : x # r => Slot(stack', currentBatch', 0, x) = Slot(stack, currentBatch, 0, x)
    BY <1>9, <2>3, <2>4 DEF Slot
  <2>7. ASSUME NEW x \in Requests, x # r PROVE Acc(x)'
    <3>1. One(stack, currentBatch, waiting, x)
      BY DEF AccountInv, Acc
    <3>2. \A j : Slot(stack', currentBatch', j, x) = Slot(stack, currentBatch, j, x)
      BY <2>5, <2>6, <2>7
    <3>3. Kept(x)
      BY <1>3, <2>3, <3>1, <3>2 DEF Kept, One
    <3> QED BY <1>1, <1>3, <1>7, <2>3, <2>7, <3>3, OldAcc
  <2>8. Acc(r)'
    <3>1. PICK k : k = 0 /\ k \in 0 .. Len(stack')
      BY <1>7, <2>3
    <3>2. Slot(stack', currentBatch', k, r) = InBatch(b, r)
      BY <2>3, <3>1 DEF Slot
    <3>3. Slot(stack', currentBatch', k, r) # {} /\ Lone(Slot(stack', currentBatch', k, r))
      BY <2>4, <3>2 DEF Once, Lone
    <3>4. \A j \in 0 .. Len(stack') : Slot(stack', currentBatch', j, r) # {} => j = k
      BY <1>6, <2>3, <2>5, <3>1
    <3>5. /\ waiting'[r] = None
          /\ IsMethod(r)' /\ answer'[r] # None => r \in rejected'
          /\ r \in rejected' => IsMethod(r)' /\ answer'[r] \in Codes
      BY <1>3, <1>6, <2>3
    <3> QED BY <1>5, <3>1, <3>3, <3>4, <3>5, HereAcc
  <2>9. Sorted(b)'
    <3>1. cb.methods \in Seq(Requests) /\ cb.notifs \in Seq(Requests) /\ DOMAIN cb = {"methods", "notifs"}
      BY <1>9 DEF Sorted, Batches
    <3>2. CASE p.notify
      <4>1. PICK s : s = Append(cb.notifs, r)
        OBVIOUS
      <4>2. b = [cb EXCEPT !.notifs = s]
        BY <2>1, <2>2, <3>2, <4>1 DEF Queued
      <4>3. b.methods = cb.methods /\ b.notifs = s
        BY <3>1, <4>2
      <4>4. \A i \in DOMAIN s : (i \in DOMAIN cb.notifs /\ s[i] = cb.notifs[i]) \/ s[i] = r
        BY <1>3, <3>1, <4>1
      <4> QED BY <1>5, <1>9, <2>4, <3>2, <4>3, <4>4 DEF Sorted
    <3>3. CASE ~p.notify
      <4>1. PICK s : s = Append(cb.methods, r)
        OBVIOUS
      <4>2. kind # "n" /\ b = [cb EXCEPT !.methods = s]
        BY <2>1, <2>2, <3>3, <4>1 DEF Queued
      <4>3. b.notifs = cb.notifs /\ b.methods = s
        BY <3>1, <4>2
      <4>4. \A i \in DOMAIN s : (i \in DOMAIN cb.methods /\ s[i] = cb.methods[i]) \/ s[i] = r
        BY <1>3, <3>1, <4>1
      <4> QED BY <1>5, <1>9, <2>4, <3>3, <4>3, <4>4 DEF Sorted
    <3> QED BY <3>2, <3>3
  <2>10. Typed'
    <3>1. Sorted(currentBatch)'
      BY <2>3, <2>9
    <3> QED BY <1>3, <1>5, <1>8, <2>3, <3>1 DEF AccountInv, Typed
  <2> QED BY <2>7, <2>8, <2>10
<1>11. CASE ~batchActive /\ Reachable
  <2>1. PICK name, shield, f : name = q.name /\ shield = FALSE /\ f = HandleFrame(r, Main, name, None, shield)
    OBVIOUS
  <2>2. f.at = "route" /\ f.r = r
    BY <2>1, RouteFrame
  <2>3. stack' = Append(stack, f) /\ answer' = answer /\ currentBatch' = currentBatch
    BY <1>1, <1>2, <1>11, <2>1 DEF Request, Queues
  <2> QED BY <1>1, <1>3, <1>4, <2>2, <2>3, EnteredAcc
<1>12. CASE ~batchActive /\ ~Reachable
  <2>1. /\ stack' = stack /\ currentBatch' = currentBatch
        /\ answer' = IF p.notify THEN answer ELSE [answer EXCEPT ![r] = "broken"]
    BY <1>1, <1>12 DEF Request, Queues
  <2>2. /\ answer' \in [Requests -> Answers \cup {None}]
        /\ \A x \in Requests : x # r => answer'[x] = answer[x]
        /\ ~p.notify => answer'[r] # None
    <3>1. "broken" \in Answers /\ "broken" # None
      BY NoneAssumption DEF Answers, Codes
    <3>2. answer \in [Requests -> Answers \cup {None}]
      BY DEF AccountInv, Typed
    <3> QED BY <1>3, <2>1, <3>1, <3>2
  <2>3. \A x, j : Slot(stack', currentBatch', j, x) = Slot(stack, currentBatch, j, x)
    BY <2>1
  <2>4. ASSUME NEW x \in Requests, x # r PROVE Acc(x)'
    <3>1. One(stack, currentBatch, waiting, x)
      BY DEF AccountInv, Acc
    <3>2. Kept(x)
      BY <1>3, <2>1, <2>3, <3>1 DEF Kept, One
    <3> QED BY <1>1, <1>3, <1>7, <2>1, <2>2, <2>4, <3>2, OldAcc
  <2>5. Acc(r)'
    <3>1. \A j \in 0 .. Len(stack') : Slot(stack', currentBatch', j, r) = {}
      BY <1>6, <2>1, <2>3
    <3>2. IsMethod(r)' => (answer'[r] # None <=> waiting'[r] = None)
      BY <1>3, <1>5, <1>6, <2>2
    <3>3. r \in rejected' => IsMethod(r)' /\ answer'[r] \in Codes
      BY <1>3, <1>6
    <3> QED BY <1>5, <3>1, <3>2, <3>3, GoneAcc
  <2>6. Typed'
    <3>1. Sorted(currentBatch)'
      BY <1>9, <2>1
    <3> QED BY <1>3, <1>5, <1>8, <2>1, <2>2, <3>1 DEF AccountInv, Typed
  <2> QED BY <2>4, <2>5, <2>6
<1> QED BY <1>10, <1>11, <1>12

-----------------------------------------------------------------------------
\* SendBatch takes the requests out of the batch.

\* The rest of a list.
LEMMA TailIs ==
    ASSUME NEW q \in Seq(Requests), q # << >>, NEW h, h = Head(q), NEW t, t = Tail(q)
    PROVE  /\ t \in Seq(Requests) /\ h \in Requests /\ h = q[1] /\ 1 \in DOMAIN q
           /\ \A i \in DOMAIN t : i + 1 \in DOMAIN q /\ t[i] = q[i + 1]
           /\ \A i \in DOMAIN q : i # 1 => i - 1 \in DOMAIN t /\ q[i] = t[i - 1]
<1>1. Len(q) \in Nat \ {0} /\ DOMAIN q = 1 .. Len(q)
  BY EmptySeq
<1>2. t \in Seq(Requests) /\ Len(t) = Len(q) - 1 /\ h = q[1] /\ h \in Requests
  BY <1>1, HeadTailProperties
<1>3. \A i \in 1 .. Len(t) : t[i] = q[i + 1]
  BY HeadTailProperties
<1>4. DOMAIN t = 1 .. Len(q) - 1
  BY <1>2
<1> QED BY <1>1, <1>2, <1>3, <1>4

\* The positions of a request in the rest.
LEMMA TailAt ==
    ASSUME NEW q \in Seq(Requests), q # << >>, NEW h, h = Head(q), NEW t, t = Tail(q)
    PROVE  /\ \A x : /\ At(t, x) # {} => At(q, x) # {}
                     /\ Lone(At(q, x)) => Lone(At(t, x))
           /\ Lone(At(q, h)) => At(t, h) = {}
           /\ At(q, h) # {}
<1>1. /\ t \in Seq(Requests) /\ h = q[1] /\ 1 \in DOMAIN q
      /\ \A i \in DOMAIN t : i + 1 \in DOMAIN q /\ t[i] = q[i + 1]
      /\ \A i \in DOMAIN q : i # 1 => i - 1 \in DOMAIN t /\ q[i] = t[i - 1]
  BY TailIs
<1>2. DOMAIN t \subseteq Nat \ {0} /\ DOMAIN q \subseteq Nat \ {0}
  BY <1>1
<1>3. \A y : \A i \in At(t, y) : i + 1 \in At(q, y) /\ i + 1 # 1 /\ i \in Nat
  BY <1>1, <1>2 DEF At
<1>4. 1 \in At(q, h)
  BY <1>1 DEF At
<1>5. ASSUME NEW x, Lone(At(q, x)) PROVE Lone(At(t, x))
  <2> SUFFICES ASSUME NEW i \in At(t, x), NEW j \in At(t, x) PROVE i = j
    BY DEF Lone
  <2>1. i + 1 = j + 1 /\ i \in Nat /\ j \in Nat
    BY <1>3, <1>5 DEF Lone
  <2> QED BY <2>1
<1>6. Lone(At(q, h)) => At(t, h) = {}
  BY <1>3, <1>4 DEF Lone
<1> QED BY <1>3, <1>4, <1>5, <1>6

\* One entry in two lists is one entry in one of them.
LEMMA LoneTagged ==
    ASSUME NEW A, NEW B, NEW S, S = Tagged("m", A) \cup Tagged("n", B)
    PROVE  Lone(S) <=> Lone(A) /\ Lone(B) /\ (A = {} \/ B = {})
<1>1. ASSUME Lone(S) PROVE Lone(A) /\ Lone(B) /\ (A = {} \/ B = {})
  <2>1. ASSUME NEW i \in A, NEW j \in A PROVE i = j
    <3>1. <<"m", i>> = <<"m", j>>
      BY <1>1 DEF Lone, Tagged
    <3> QED BY <3>1
  <2>2. ASSUME NEW i \in B, NEW j \in B PROVE i = j
    <3>1. <<"n", i>> = <<"n", j>>
      BY <1>1 DEF Lone, Tagged
    <3> QED BY <3>1
  <2>3. ASSUME NEW i \in A, NEW j \in B PROVE FALSE
    <3>1. <<"m", i>> = <<"n", j>>
      BY <1>1 DEF Lone, Tagged
    <3> QED BY <3>1
  <2> QED BY <2>1, <2>2, <2>3 DEF Lone
<1>2. ASSUME Lone(A), Lone(B), A = {} \/ B = {} PROVE Lone(S)
  BY <1>2 DEF Lone, Tagged
<1> QED BY <1>1, <1>2

\* A request that is in a batch is in one of its lists.
LEMMA InBatchAt ==
    ASSUME NEW b, NEW x
    PROVE  /\ InBatch(b, x) = {} <=> At(b.methods, x) = {} /\ At(b.notifs, x) = {}
           /\ Lone(InBatch(b, x)) <=> /\ Lone(At(b.methods, x)) /\ Lone(At(b.notifs, x))
                                     /\ (At(b.methods, x) = {} \/ At(b.notifs, x) = {})
<1>1. PICK A, B : A = At(b.methods, x) /\ B = At(b.notifs, x)
  OBVIOUS
<1>2. InBatch(b, x) = Tagged("m", A) \cup Tagged("n", B) /\ (InBatch(b, x) = {} <=> A = {} /\ B = {})
  BY <1>1, InBatchIs
<1>3. PICK S : S = InBatch(b, x)
  OBVIOUS
<1>4. Lone(S) <=> Lone(A) /\ Lone(B) /\ (A = {} \/ B = {})
  BY <1>2, <1>3, LoneTagged
<1> QED BY <1>1, <1>2, <1>3, <1>4

\* One step of SendBatch: the first method, or without methods the first
\* notification.
TakesFirst(b, r, rest) ==
    /\ b.methods # << >> \/ b.notifs # << >>
    /\ r = IF b.methods # << >> THEN Head(b.methods) ELSE Head(b.notifs)
    /\ rest = IF b.methods # << >> THEN [b EXCEPT !.methods = Tail(b.methods)]
                                   ELSE [b EXCEPT !.notifs = Tail(b.notifs)]

\* What is left of the batch, and where each request is in it.
LEMMA RestIs ==
    ASSUME NEW b, Sorted(b), NEW r, NEW rest, TakesFirst(b, r, rest)
    PROVE  /\ Sorted(rest) /\ r \in Requests
           /\ ~IsMethod(r) => rest.methods = << >>
           /\ InBatch(b, r) # {} /\ (Lone(InBatch(b, r)) => InBatch(rest, r) = {})
           /\ \A x : /\ InBatch(rest, x) # {} => InBatch(b, x) # {}
                     /\ x # r /\ InBatch(b, x) # {} => InBatch(rest, x) # {}
                     /\ Lone(InBatch(b, x)) => Lone(InBatch(rest, x))
<1>1. b.methods \in Seq(Requests) /\ b.notifs \in Seq(Requests) /\ DOMAIN b = {"methods", "notifs"}
  BY DEF Sorted, Batches
<1>2. CASE b.methods # << >>
  <2>1. PICK q, t : q = b.methods /\ t = Tail(q)
    OBVIOUS
  <2>2. q \in Seq(Requests) /\ q # << >> /\ r = Head(q) /\ rest = [b EXCEPT !.methods = t]
    BY <1>1, <1>2, <2>1 DEF TakesFirst
  <2>3. /\ t \in Seq(Requests) /\ r \in Requests /\ r = q[1] /\ 1 \in DOMAIN q
        /\ \A i \in DOMAIN t : i + 1 \in DOMAIN q /\ t[i] = q[i + 1]
    BY <2>1, <2>2, TailIs
  <2>4. rest.methods = t /\ rest.notifs = b.notifs /\ rest \in Batches
    <3>1. rest.methods = t /\ rest.notifs = b.notifs
      BY <1>1, <2>2
    <3>2. b = [methods |-> b.methods, notifs |-> b.notifs]
      BY DEF Sorted, Batches
    <3>3. rest = [methods |-> t, notifs |-> b.notifs]
      BY <2>2, <3>2
    <3> QED BY <1>1, <2>3, <3>1, <3>3 DEF Batches
  <2>5. IsMethod(r) /\ Sorted(rest)
    BY <2>1, <2>3, <2>4 DEF Sorted
  <2>6. /\ \A x : /\ At(t, x) # {} => At(q, x) # {}
                  /\ x # r /\ At(q, x) # {} => At(t, x) # {}
                  /\ Lone(At(q, x)) => Lone(At(t, x))
        /\ Lone(At(q, r)) => At(t, r) = {}
        /\ At(q, r) # {}
    <3>1. \A x : Lone(At(q, x)) => Lone(At(t, x))
      BY <2>1, <2>2, TailAt
    <3>2. (Lone(At(q, r)) => At(t, r) = {}) /\ At(q, r) # {}
      BY <2>1, <2>2, TailAt
    <3>3. \A x : At(t, x) # {} => At(q, x) # {}
      BY <2>1, <2>2, TailAt
    <3>4. ASSUME NEW x, x # r, At(q, x) # {} PROVE At(t, x) # {}
      <4>1. PICK i \in DOMAIN q : q[i] = x
        BY <3>4 DEF At
      <4>2. i # 1 => i - 1 \in DOMAIN t /\ q[i] = t[i - 1]
        BY <2>1, <2>2, TailIs
      <4> QED BY <2>3, <3>4, <4>1, <4>2 DEF At
    <3> QED BY <3>1, <3>2, <3>3, <3>4
  <2>7. /\ InBatch(b, r) # {} /\ (Lone(InBatch(b, r)) => InBatch(rest, r) = {})
        /\ \A x : /\ InBatch(rest, x) # {} => InBatch(b, x) # {}
                  /\ x # r /\ InBatch(b, x) # {} => InBatch(rest, x) # {}
                  /\ Lone(InBatch(b, x)) => Lone(InBatch(rest, x))
    <3>1. ASSUME NEW x
          PROVE  /\ InBatch(rest, x) # {} => InBatch(b, x) # {}
                 /\ x # r /\ InBatch(b, x) # {} => InBatch(rest, x) # {}
                 /\ Lone(InBatch(b, x)) => Lone(InBatch(rest, x))
      BY <2>1, <2>4, <2>6, InBatchAt
    <3>2. InBatch(b, r) # {} /\ (Lone(InBatch(b, r)) => InBatch(rest, r) = {})
      BY <2>1, <2>4, <2>6, InBatchAt
    <3> QED BY <3>1, <3>2
  <2> QED BY <2>3, <2>5, <2>7
<1>3. CASE b.methods = << >>
  <2>1. PICK q, t : q = b.notifs /\ t = Tail(q)
    OBVIOUS
  <2>2. q \in Seq(Requests) /\ q # << >> /\ r = Head(q) /\ rest = [b EXCEPT !.notifs = t]
    BY <1>1, <1>3, <2>1 DEF TakesFirst
  <2>3. /\ t \in Seq(Requests) /\ r \in Requests /\ r = q[1] /\ 1 \in DOMAIN q
        /\ \A i \in DOMAIN t : i + 1 \in DOMAIN q /\ t[i] = q[i + 1]
    BY <2>1, <2>2, TailIs
  <2>4. rest.notifs = t /\ rest.methods = b.methods /\ rest \in Batches
    <3>1. rest.notifs = t /\ rest.methods = b.methods
      BY <1>1, <2>2
    <3>2. b = [methods |-> b.methods, notifs |-> b.notifs]
      BY DEF Sorted, Batches
    <3>3. rest = [methods |-> b.methods, notifs |-> t]
      BY <2>2, <3>2
    <3> QED BY <1>1, <2>3, <3>1, <3>3 DEF Batches
  <2>5. rest.methods = << >> /\ Sorted(rest)
    BY <1>3, <2>1, <2>3, <2>4 DEF Sorted
  <2>6. /\ \A x : /\ At(t, x) # {} => At(q, x) # {}
                  /\ x # r /\ At(q, x) # {} => At(t, x) # {}
                  /\ Lone(At(q, x)) => Lone(At(t, x))
        /\ Lone(At(q, r)) => At(t, r) = {}
        /\ At(q, r) # {}
    <3>1. \A x : Lone(At(q, x)) => Lone(At(t, x))
      BY <2>1, <2>2, TailAt
    <3>2. (Lone(At(q, r)) => At(t, r) = {}) /\ At(q, r) # {}
      BY <2>1, <2>2, TailAt
    <3>3. \A x : At(t, x) # {} => At(q, x) # {}
      BY <2>1, <2>2, TailAt
    <3>4. ASSUME NEW x, x # r, At(q, x) # {} PROVE At(t, x) # {}
      <4>1. PICK i \in DOMAIN q : q[i] = x
        BY <3>4 DEF At
      <4>2. i # 1 => i - 1 \in DOMAIN t /\ q[i] = t[i - 1]
        BY <2>1, <2>2, TailIs
      <4> QED BY <2>3, <3>4, <4>1, <4>2 DEF At
    <3> QED BY <3>1, <3>2, <3>3, <3>4
  <2>7. /\ InBatch(b, r) # {} /\ (Lone(InBatch(b, r)) => InBatch(rest, r) = {})
        /\ \A x : /\ InBatch(rest, x) # {} => InBatch(b, x) # {}
                  /\ x # r /\ InBatch(b, x) # {} => InBatch(rest, x) # {}
                  /\ Lone(InBatch(b, x)) => Lone(InBatch(rest, x))
    <3>1. ASSUME NEW x
          PROVE  /\ InBatch(rest, x) # {} => InBatch(b, x) # {}
                 /\ x # r /\ InBatch(b, x) # {} => InBatch(rest, x) # {}
                 /\ Lone(InBatch(b, x)) => Lone(InBatch(rest, x))
      BY <2>1, <2>4, <2>6, InBatchAt
    <3>2. InBatch(b, r) # {} /\ (Lone(InBatch(b, r)) => InBatch(rest, r) = {})
      BY <2>1, <2>4, <2>6, InBatchAt
    <3> QED BY <3>1, <3>2
  <2> QED BY <2>3, <2>5, <2>7
<1> QED BY <1>2, <1>3

\* SendBatch hands its first request on: it is in a call, or its promise is broken.
LEMMA SendBatchStepAcc ==
    ASSUME AccountInv, SendBatchStep
    PROVE  Typed' /\ \A x \in Requests : Acc(x)'
<1>1. /\ stack # << >> /\ Top.at = "batch" /\ Top.batch # EmptyBatch
      /\ UNCHANGED <<req, currentBatch, waiting, wraps, rejected>>
  BY DEF SendBatchStep, Running, client
<1>2. PICK n \in Nat : n = Len(stack) /\ n > 0 /\ Top = stack[n] /\ IsStack(stack)
  BY <1>1, TopFacts DEF AccountInv, CallsInv
<1>3. PICK b, u : b = Top.batch /\ u = Front(stack)
  OBVIOUS
<1>4. Sorted(b)
  <2>1. FrameT(Top)
    BY <1>2 DEF AccountInv, Typed
  <2> QED BY <1>1, <1>3, <2>1 DEF FrameT
<1>5. b.methods # << >> \/ b.notifs # << >>
  <2>1. b = [methods |-> b.methods, notifs |-> b.notifs]
    BY <1>4 DEF Sorted, Batches
  <2> QED BY <1>1, <1>3, <2>1 DEF EmptyBatch
<1>6. PICK r, rest : TakesFirst(b, r, rest) /\ Send(Append(u, BatchFrame(rest)), r, req[r].name, Main, FALSE)
  <2>1. PICK r, rest :
            /\ r = IF b.methods # << >> THEN Head(b.methods) ELSE Head(b.notifs)
            /\ rest = IF b.methods # << >> THEN [b EXCEPT !.methods = Tail(b.methods)]
                                           ELSE [b EXCEPT !.notifs = Tail(b.notifs)]
    OBVIOUS
  <2>2. Send(Append(u, BatchFrame(rest)), r, req[r].name, Main, FALSE)
    BY <1>3, <2>1 DEF SendBatchStep
  <2> QED BY <1>5, <2>1, <2>2 DEF TakesFirst
<1>7. /\ Sorted(rest) /\ r \in Requests
      /\ ~IsMethod(r) => rest.methods = << >>
      /\ InBatch(b, r) # {} /\ (Lone(InBatch(b, r)) => InBatch(rest, r) = {})
      /\ \A x : /\ InBatch(rest, x) # {} => InBatch(b, x) # {}
                /\ x # r /\ InBatch(b, x) # {} => InBatch(rest, x) # {}
                /\ Lone(InBatch(b, x)) => Lone(InBatch(rest, x))
  BY <1>4, <1>6, RestIs
<1>8. \A x : Slot(stack, currentBatch, n, x) = InBatch(b, x)
  BY <1>1, <1>2, <1>3 DEF Slot, Held
<1>9. PICK f, v : f = BatchFrame(rest) /\ v = Append(u, f)
  OBVIOUS
<1>10. f.at = "batch" /\ f.batch = rest
  BY <1>9 DEF BatchFrame
<1>11. IsStack(v) /\ Len(v) = n /\ v[n] = f /\ \A j \in 1 .. n - 1 : v[j] = stack[j]
  <2>1. IsStack(u) /\ Len(u) = n - 1 /\ (n - 1) + 1 = n /\ \A j \in 1 .. n - 1 : u[j] = stack[j]
    BY <1>1, <1>2, <1>3, Popped
  <2> QED BY <1>9, <2>1, Pushed
<1>12. PICK name, shield : shield = FALSE /\ Send(v, r, name, Main, shield)
  BY <1>6, <1>9
<1>13. PICK top, m : /\ m = Len(stack') /\ (m = n \/ m = n + 1) /\ (\A j \in 1 .. n : stack'[j] = v[j])
                     /\ m = n + 1 => stack'[n + 1] = top
                     /\ \/ m = n + 1 /\ top.at = "route" /\ top.r = r /\ answer' = answer
                        \/ /\ m = n + 1 => top.at = "callback"
                           /\ Fulfil(r, wraps[r], "broken")
  <2>1. CASE Main \in alive
    <3>1. PICK g : g = HandleFrame(r, Main, name, None, shield)
      OBVIOUS
    <3>2. stack' = Append(v, g) /\ answer' = answer /\ g.at = "route" /\ g.r = r
      BY <1>12, <2>1, <3>1, RouteFrame DEF Send
    <3>3. Len(stack') = n + 1 /\ stack'[n + 1] = g /\ \A j \in 1 .. n : stack'[j] = v[j]
      BY <1>11, <3>2, Pushed
    <3> QED BY <3>2, <3>3
  <2>2. CASE Main \notin alive
    <3>1. stack' = v \o Continuation(r) /\ Fulfil(r, wraps[r], "broken")
      BY <1>12, <2>2 DEF Send
    <3>2. PICK g : g = Callback(r)
      OBVIOUS
    <3>3. g.at = "callback"
      BY <3>2 DEF Callback
    <3>4. stack' = v \/ stack' = Append(v, g)
      BY <1>11, <3>1, <3>2, Continued
    <3>5. CASE stack' = v
      <4>1. Len(stack') = n /\ n # n + 1 /\ \A j \in 1 .. n : stack'[j] = v[j]
        BY <1>2, <1>11, <3>5
      <4> QED BY <3>1, <4>1
    <3>6. CASE stack' = Append(v, g)
      <4>1. Len(stack') = n + 1 /\ stack'[n + 1] = g /\ \A j \in 1 .. n : stack'[j] = v[j]
        BY <1>11, <3>6, Pushed
      <4> QED BY <3>1, <3>3, <4>1
    <3> QED BY <3>4, <3>5, <3>6
  <2> QED BY <2>1, <2>2
<1>14. /\ One(stack, currentBatch, waiting, r) /\ Slot(stack, currentBatch, n, r) # {} /\ n \in 0 .. n
       /\ waiting[r] = None /\ r \in 1 .. Len(req) /\ wraps[r] \in Seq(Servers)
       /\ IsMethod(r) /\ answer[r] # None => r \in rejected
       /\ r \in rejected => IsMethod(r) /\ answer[r] \in Codes
  <2>1. Acc(r) /\ wraps[r] \in Seq(Servers)
    BY <1>7 DEF AccountInv, Typed
  <2>2. Slot(stack, currentBatch, n, r) # {} /\ n \in 0 .. n
    BY <1>2, <1>7, <1>8
  <2>3. Somewhere(stack, currentBatch, waiting, r)
    BY <1>2, <2>2 DEF Somewhere
  <2> QED BY <1>2, <2>1, <2>2, <2>3 DEF Acc, One
<1>15. /\ answer' \in [Requests -> Answers \cup {None}]
       /\ \A x \in Requests : x # r => answer'[x] = answer[x]
       /\ IsMethod(r) /\ top.at # "route" => answer'[r] # None
       /\ answer[r] # None => answer'[r] = answer[r]
       /\ top.at = "route" /\ m = n + 1 => answer'[r] = answer[r]
  <2>1. CASE m = n + 1 /\ top.at = "route" /\ top.r = r /\ answer' = answer
    BY <2>1 DEF AccountInv, Typed
  <2>2. CASE (m = n + 1 => top.at = "callback") /\ Fulfil(r, wraps[r], "broken")
    <3>1. PICK a : a = "broken" /\ a \in Answers /\ Fulfil(r, wraps[r], a)
      BY <2>2 DEF Answers, Codes
    <3>2. /\ answer' \in [Requests -> Answers \cup {None}]
          /\ \A x \in Requests : x # r => answer'[x] = answer[x]
          /\ IsMethod(r) => answer'[r] # None
          /\ answer[r] # None => answer'[r] = answer[r]
      BY <1>7, <1>14, <3>1, FulfilIs
    <3> QED BY <2>2, <3>2
  <2> QED BY <1>13, <2>1, <2>2
<1>16. \A x : /\ \A j \in 0 .. n - 1 : Slot(stack', currentBatch', j, x) = Slot(stack, currentBatch, j, x)
              /\ Slot(stack', currentBatch', n, x) = InBatch(rest, x)
              /\ m = n + 1 => Slot(stack', currentBatch', n + 1, x) =
                                IF top.at = "route" /\ x = r THEN {"call"} ELSE {}
  <2> SUFFICES ASSUME NEW x
               PROVE  /\ \A j \in 0 .. n - 1 : Slot(stack', currentBatch', j, x) = Slot(stack, currentBatch, j, x)
                      /\ Slot(stack', currentBatch', n, x) = InBatch(rest, x)
                      /\ m = n + 1 => Slot(stack', currentBatch', n + 1, x) =
                                        IF top.at = "route" /\ x = r THEN {"call"} ELSE {}
    OBVIOUS
  <2>1. ASSUME NEW j \in 0 .. n - 1 PROVE Slot(stack', currentBatch', j, x) = Slot(stack, currentBatch, j, x)
    <3>1. CASE j = 0
      BY <1>1, <3>1 DEF Slot
    <3>2. CASE j # 0
      <4>1. j \in 1 .. n - 1 /\ j \in 1 .. n
        BY <1>2, <3>2
      <4>2. stack'[j] = stack[j]
        BY <1>11, <1>13, <4>1
      <4> QED BY <3>2, <4>2 DEF Slot
    <3> QED BY <3>1, <3>2
  <2>2. Slot(stack', currentBatch', n, x) = InBatch(rest, x)
    <3>1. n \in 1 .. n /\ n # 0
      BY <1>2
    <3>2. stack'[n] = f
      BY <1>11, <1>13, <3>1
    <3> QED BY <1>10, <3>1, <3>2 DEF Slot, Held
  <2>3. m = n + 1 => Slot(stack', currentBatch', n + 1, x) = IF top.at = "route" /\ x = r THEN {"call"} ELSE {}
    <3>1. n + 1 # 0
      BY <1>2
    <3> QED BY <1>13, <3>1 DEF Slot, Held
  <2> QED BY <2>1, <2>2, <2>3
<1>17. \A j \in 0 .. m : j \in 0 .. n - 1 \/ j = n \/ (j = n + 1 /\ m = n + 1)
  BY <1>2, <1>13
<1>18. ASSUME NEW x \in Requests, x # r PROVE Acc(x)'
  <2>1. Acc(x) /\ One(stack, currentBatch, waiting, x)
    BY DEF AccountInv, Acc
  <2>2. Kept(x)
    <3>1. ASSUME NEW j \in 0 .. m, Slot(stack', currentBatch', j, x) # {}
          PROVE  /\ j \in 0 .. n /\ Slot(stack, currentBatch, j, x) # {}
                 /\ Lone(Slot(stack', currentBatch', j, x))
      <4>1. CASE j \in 0 .. n - 1
        <5>1. j \in 0 .. n /\ Slot(stack', currentBatch', j, x) = Slot(stack, currentBatch, j, x)
          BY <1>2, <1>16, <4>1
        <5> QED BY <1>2, <2>1, <3>1, <5>1 DEF One
      <4>2. CASE j = n
        <5>1. InBatch(rest, x) # {} /\ n \in 0 .. n
          BY <1>2, <1>16, <3>1, <4>2
        <5>2. Slot(stack, currentBatch, n, x) # {}
          BY <1>7, <1>8, <5>1
        <5>3. Lone(InBatch(b, x))
          BY <1>2, <1>8, <2>1, <5>1 DEF One
        <5>4. Lone(InBatch(rest, x))
          BY <1>7, <5>3
        <5> QED BY <1>16, <4>2, <5>1, <5>2, <5>4
      <4>3. CASE j = n + 1 /\ m = n + 1
        BY <1>16, <1>18, <3>1, <4>3
      <4> QED BY <1>17, <4>1, <4>2, <4>3
    <3>2. ASSUME NEW j \in 0 .. n, Slot(stack, currentBatch, j, x) # {}
          PROVE  j \in 0 .. m /\ Slot(stack', currentBatch', j, x) # {}
      <4>1. j \in 0 .. m /\ (j = n \/ j \in 0 .. n - 1)
        BY <1>2, <1>13
      <4>2. CASE j = n
        BY <1>7, <1>8, <1>16, <1>18, <3>2, <4>1, <4>2
      <4>3. CASE j \in 0 .. n - 1
        BY <1>16, <3>2, <4>1, <4>3
      <4> QED BY <4>1, <4>2, <4>3
    <3> QED BY <1>1, <1>2, <1>13, <3>1, <3>2 DEF Kept
  <2>3. SameRequest(x)
    BY <1>1 DEF SameRequest
  <2>4. answer'[x] = answer[x] /\ Len(stack) \in Nat /\ Len(stack') \in Nat
    BY <1>2, <1>13, <1>15, <1>18
  <2> QED BY <1>1, <2>1, <2>2, <2>3, <2>4, KeptAcc
<1>19. Acc(r)'
  <2>1. \A j \in 0 .. n - 1 : Slot(stack', currentBatch', j, r) = {}
    <3> SUFFICES ASSUME NEW j \in 0 .. n - 1 PROVE Slot(stack', currentBatch', j, r) = {}
      OBVIOUS
    <3>1. j \in 0 .. n /\ j # n
      BY <1>2
    <3>2. Slot(stack, currentBatch, j, r) = {}
      BY <1>2, <1>14, <3>1 DEF One
    <3> QED BY <1>16, <3>2
  <2>2. Slot(stack', currentBatch', n, r) = {}
    <3>1. Lone(InBatch(b, r))
      BY <1>2, <1>8, <1>14 DEF One
    <3> QED BY <1>7, <1>16, <3>1
  <2>3. /\ r \in 1 .. Len(req') /\ (IsMethod(r)' <=> IsMethod(r)) /\ waiting'[r] = None
        /\ r \in rejected' => IsMethod(r)' /\ answer'[r] \in Codes
    <3>1. \A e \in Codes : e # None
      BY NoneAssumption DEF Answers
    <3>2. r \in rejected => answer'[r] \in Codes
      BY <1>14, <1>15, <3>1
    <3> QED BY <1>1, <1>14, <3>2 DEF IsMethod
  <2>4. CASE m = n + 1 /\ top.at = "route"
    <3>1. PICK k : k = n + 1 /\ k \in 0 .. Len(stack') /\ Lone({"call"}) /\ {"call"} # {}
      BY <1>2, <1>13, <2>4 DEF Lone
    <3>2. \A j \in 0 .. m : Slot(stack', currentBatch', j, r) # {} => j = k
      BY <1>17, <2>1, <2>2, <3>1
    <3>3. Slot(stack', currentBatch', k, r) = {"call"}
      BY <1>16, <2>4, <3>1
    <3>4. Slot(stack', currentBatch', k, r) # {} /\ Lone(Slot(stack', currentBatch', k, r))
      BY <3>1, <3>3
    <3>5. IsMethod(r)' /\ answer'[r] # None => r \in rejected'
      BY <1>1, <1>14, <1>15, <2>3, <2>4
    <3> QED BY <1>13, <2>3, <3>1, <3>2, <3>4, <3>5, HereAcc
  <2>5. CASE ~(m = n + 1 /\ top.at = "route")
    <3>1. \A j \in 0 .. m : Slot(stack', currentBatch', j, r) = {}
      BY <1>16, <1>17, <2>1, <2>2, <2>5
    <3>2. IsMethod(r)' => (answer'[r] # None <=> waiting'[r] = None)
      <4>1. Fulfil(r, wraps[r], "broken")
        BY <1>13, <2>5
      <4>2. PICK a : a = "broken" /\ a \in Answers /\ Fulfil(r, wraps[r], a)
        BY <4>1 DEF Answers, Codes
      <4>3. IsMethod(r) => answer'[r] # None
        BY <1>7, <1>14, <4>2, FulfilIs
      <4> QED BY <2>3, <4>3
    <3> QED BY <1>13, <2>3, <3>1, <3>2, GoneAcc
  <2> QED BY <2>4, <2>5
<1>20. \A g : FrameT(g)' <=> FrameT(g)
  BY <1>1 DEF FrameT, Sorted, IsMethod
<1>21. \A g, k : Above(g, k)' <=> Above(g, k)
  BY <1>1 DEF Above, IsMethod
<1>22. ASSUME NEW j \in 1 .. m PROVE FrameT(stack'[j]) /\ (j + 1 <= m => Above(stack'[j], stack'[j + 1]))
  <2>1. FrameT(f)
    BY <1>7, <1>10 DEF FrameT
  <2>2. \A i \in 1 .. n - 1 : i \in 1 .. n /\ stack'[i] = stack[i] /\ FrameT(stack[i])
    BY <1>2, <1>11, <1>13 DEF AccountInv, Typed
  <2>3. stack'[n] = f
    BY <1>2, <1>11, <1>13
  <2>4. CASE j < n - 1
    <3>1. j \in 1 .. n /\ j \in 1 .. n - 1 /\ j + 1 \in 1 .. n - 1 /\ j + 1 <= n
      BY <1>2, <2>4
    <3>2. Above(stack[j], stack[j + 1])
      BY <1>2, <3>1 DEF AccountInv, Typed
    <3> QED BY <2>2, <3>1, <3>2
  <2>5. CASE j = n - 1
    <3>1. j \in 1 .. n - 1 /\ j + 1 = n
      BY <1>2, <2>5
    <3>2. Above(stack'[j], f)
      BY <1>10 DEF Above
    <3> QED BY <2>2, <2>3, <3>1, <3>2
  <2>6. CASE j = n
    <3>1. m = n + 1 => Above(f, top)
      <4>1. top.at = "route" /\ top.r = r => Above(f, top)
        BY <1>7, <1>10 DEF Above
      <4>2. top.at = "callback" => Above(f, top)
        BY DEF Above
      <4> QED BY <1>13, <4>1, <4>2
    <3>2. j + 1 <= m => m = n + 1 /\ stack'[j + 1] = top
      BY <1>2, <1>13, <2>6
    <3> QED BY <2>1, <2>3, <2>6, <3>1, <3>2
  <2>7. CASE j = n + 1
    <3>1. m = n + 1 /\ stack'[j] = top /\ ~(j + 1 <= m)
      BY <1>2, <1>13, <2>7
    <3>2. (top.at = "route" /\ top.r = r) \/ top.at = "callback"
      BY <1>13, <3>1
    <3>3. FrameT(top)
      BY <1>14, <3>2 DEF FrameT
    <3> QED BY <3>1, <3>3
  <2> QED BY <1>2, <1>13, <2>4, <2>5, <2>6, <2>7
<1>23. Sorted(currentBatch)'
  BY <1>1 DEF AccountInv, Typed, Sorted, IsMethod
<1>24. Typed'
  BY <1>1, <1>13, <1>15, <1>20, <1>21, <1>22, <1>23 DEF AccountInv, Typed
<1> QED BY <1>18, <1>19, <1>24

-----------------------------------------------------------------------------
\* Every request is accounted for.

\* No request is made at first.
LEMMA InitAccount == Init => AccountInv
<1> SUFFICES ASSUME Init PROVE AccountInv
  OBVIOUS
<1>1. CallsInv
  BY InitCalls
<1>2. stack = << >> /\ Len(stack) = 0 /\ req = << >> /\ Len(req) = 0 /\ currentBatch = EmptyBatch /\ rejected = {}
  BY EmptyStack DEF Init
<1>3. /\ answer = [x \in Requests |-> None] /\ waiting = [x \in Requests |-> None]
      /\ wraps = [x \in Requests |-> << >>]
  BY DEF Init
<1>4. Sorted(currentBatch)
  <2>1. EmptyBatch.methods = << >> /\ EmptyBatch.notifs = << >> /\ DOMAIN << >> = {} /\ EmptyBatch \in Batches
    BY EmptyBatchIs DEF EmptyBatch
  <2> QED BY <1>2, <2>1 DEF Sorted
<1>5. Typed
  <2>1. << >> \in Seq(Servers) /\ 0 <= MaxRequests
    BY BoundsAssumption
  <2> QED BY <1>2, <1>3, <1>4, <2>1 DEF Typed
<1>6. ASSUME NEW x \in Requests PROVE Acc(x)
  <2>1. Slot(stack, currentBatch, 0, x) = {}
    BY <1>2, EmptyBatchIs DEF Slot
  <2>2. \A j \in 0 .. Len(stack) : j = 0
    BY <1>2
  <2>3. One(stack, currentBatch, waiting, x) /\ ~Somewhere(stack, currentBatch, waiting, x)
    BY <1>3, <2>1, <2>2 DEF One, Somewhere, Lone
  <2>4. x \notin 1 .. Len(req)
    BY <1>2
  <2> QED BY <1>2, <1>3, <2>3, <2>4 DEF Acc
<1> QED BY <1>1, <1>5, <1>6 DEF AccountInv

\* Every step keeps every request in its one place.
LEMMA StepAccount == AccountInv /\ [Next]_vars => AccountInv'
<1> SUFFICES ASSUME AccountInv, [Next]_vars PROVE AccountInv'
  OBVIOUS
<1>1. CallsInv'
  BY StepCalls DEF AccountInv
<1>2. SUFFICES Typed' /\ \A x \in Requests : Acc(x)'
  BY <1>1 DEF AccountInv
<1>3. CASE UNCHANGED vars
  BY <1>3, QuietAcc DEF vars, client
<1>4. CASE Idle
  BY <1>4, QuietAcc DEF Idle, vars, client
<1>5. CASE StartBatch
  BY <1>5, QuietAcc DEF StartBatch
<1>6. CASE Finish
  BY <1>6, FinishAcc
<1>7. ASSUME NEW p, Request(p) PROVE Typed' /\ \A x \in Requests : Acc(x)'
  BY <1>7, RequestAcc
<1>8. ASSUME NEW p, Receive(p) PROVE Typed' /\ \A x \in Requests : Acc(x)'
  BY <1>8, ReceiveAcc
<1>9. ASSUME NEW r \in Requests, Settle(r) PROVE Typed' /\ \A x \in Requests : Acc(x)'
  BY <1>9, SettleAcc
<1>10. CASE Reconfigure
  <2>1. UNCHANGED <<req, answer, currentBatch, waiting, wraps, rejected, stack>>
    BY <1>10 DEF Reconfigure, SetTransport, SetPrefix, SetFallback, DestroyServer, SetRoute, RegisterCall,
                 Unregister, Calm
  <2> QED BY <2>1, QuietAcc
<1>11. CASE SendBatchStep
  BY <1>11, SendBatchStepAcc
<1>12. CASE BatchDone
  BY <1>12, BatchDoneAcc
<1>13. CASE Forward
  <2>1. stack # << >> /\ Top.at \in {"route", "body"} /\ UNCHANGED <<req, currentBatch>>
    BY <1>13 DEF Forward, Running
  <2> QED BY <1>13, <2>1, ForwardAcc, CallOverOK
<1>14. CASE ForwardToTransport
  <2>1. stack # << >> /\ Top.at \in {"route", "body"} /\ UNCHANGED <<req, currentBatch>>
    BY <1>14 DEF ForwardToTransport, Running, client
  <2> QED BY <1>14, <2>1, ForwardToTransportAcc, CallOverOK
<1>15. CASE DoHandle
  <2>1. stack # << >> /\ Top.at \in {"route", "body"} /\ UNCHANGED <<req, currentBatch>>
    BY <1>15 DEF DoHandle, Running
  <2> QED BY <1>15, <2>1, DoHandleAcc, CallOverOK
<1>16. CASE HandlerReturns
  <2>1. stack # << >> /\ Top.at \in {"route", "body"} /\ UNCHANGED <<req, currentBatch>>
    BY <1>16 DEF HandlerReturns, Running, client
  <2> QED BY <1>16, <2>1, HandlerReturnsAcc, CallOverOK
<1>17. CASE HandlerThrows
  <2>1. stack # << >> /\ Top.at \in {"route", "body"} /\ UNCHANGED <<req, currentBatch>>
    BY <1>17 DEF HandlerThrows, Running
  <2> QED BY <1>17, <2>1, HandlerThrowsAcc, CallOverOK
<1>18. CASE Leave \/ CallbackReturns
  BY <1>18, ReturnsAcc
<1> QED BY <1>3, <1>4, <1>5, <1>6, <1>7, <1>8, <1>9, <1>10, <1>11, <1>12, <1>13, <1>14, <1>15, <1>16, <1>17,
           <1>18 DEF Next, Return, Handle

\* The parts of Places.
Collected(r) == {<<"queued", p>> : p \in InBatch(currentBatch, r)}
Batching == {i \in DOMAIN stack : stack[i].at = "batch"}
Sent(i, r) == {<<i, p>> : p \in InBatch(stack[i].batch, r)}
BeingSent(r) == UNION {Sent(i, r) : i \in Batching}
Calling(r) == {i \in DOMAIN stack : stack[i].at \in {"route", "body"} /\ stack[i].r = r}
Waiting(r) == IF waiting[r] # None THEN {<<"waiting">>} ELSE {}

\* A place is a slot of the invariant, or the hands of a handler.
LEMMA PlacesAre ==
    ASSUME IsStack(stack), NEW r
    PROVE  \A y : y \in Places(r) <=>
              \/ \E p \in Slot(stack, currentBatch, 0, r) : y = <<"queued", p>>
              \/ \E i \in 1 .. Len(stack) : stack[i].at = "batch" /\ \E p \in Slot(stack, currentBatch, i, r) : y = <<i, p>>
              \/ y \in 1 .. Len(stack) /\ stack[y].at # "batch" /\ Slot(stack, currentBatch, y, r) # {}
              \/ waiting[r] # None /\ y = <<"waiting">>
<1>1. DOMAIN stack = 1 .. Len(stack) /\ Len(stack) \in Nat
  BY StackLen
<1>2. Slot(stack, currentBatch, 0, r) = InBatch(currentBatch, r)
  BY DEF Slot
<1>3. \A i \in 1 .. Len(stack) :
         /\ stack[i].at = "batch" => Slot(stack, currentBatch, i, r) = InBatch(stack[i].batch, r)
         /\ stack[i].at # "batch" => (Slot(stack, currentBatch, i, r) # {} <=> stack[i].at \in {"route", "body"} /\ stack[i].r = r)
  BY <1>1 DEF Slot, Held
<1>4. \A y : y \in Places(r) <=>
         \/ \E p \in InBatch(currentBatch, r) : y = <<"queued", p>>
         \/ \E i \in 1 .. Len(stack) : stack[i].at = "batch" /\ \E p \in InBatch(stack[i].batch, r) : y = <<i, p>>
         \/ y \in 1 .. Len(stack) /\ stack[y].at \in {"route", "body"} /\ stack[y].r = r
         \/ waiting[r] # None /\ y = <<"waiting">>
  <2>1. Places(r) = Collected(r) \cup BeingSent(r) \cup Calling(r) \cup Waiting(r)
    BY DEF Places, Collected, BeingSent, Batching, Sent, Calling, Waiting
  <2>2. \A y : y \in Collected(r) <=> \E p \in InBatch(currentBatch, r) : y = <<"queued", p>>
    BY DEF Collected
  <2>3. \A y : y \in BeingSent(r) <=> \E i \in 1 .. Len(stack) : stack[i].at = "batch" /\ \E p \in InBatch(stack[i].batch, r) : y = <<i, p>>
    <3>1. \A i : i \in Batching <=> i \in 1 .. Len(stack) /\ stack[i].at = "batch"
      BY <1>1 DEF Batching
    <3>2. \A y : y \in BeingSent(r) <=> \E i \in Batching : y \in Sent(i, r)
      BY DEF BeingSent
    <3>3. \A y, i : y \in Sent(i, r) <=> \E p \in InBatch(stack[i].batch, r) : y = <<i, p>>
      BY DEF Sent
    <3>4. \A y : y \in BeingSent(r) <=> \E i \in Batching : \E p \in InBatch(stack[i].batch, r) : y = <<i, p>>
      BY <3>2, <3>3, Zenon
    <3> QED BY <3>1, <3>4, Zenon
  <2>4. \A y : y \in Calling(r) <=> y \in 1 .. Len(stack) /\ stack[y].at \in {"route", "body"} /\ stack[y].r = r
    BY <1>1 DEF Calling
  <2>5. \A y : y \in Waiting(r) <=> waiting[r] # None /\ y = <<"waiting">>
    BY DEF Waiting
  <2>6. \A y : y \in Places(r) <=> y \in Collected(r) \/ y \in BeingSent(r) \/ y \in Calling(r) \/ y \in Waiting(r)
    BY <2>1
  <2> QED BY <2>2, <2>3, <2>4, <2>5, <2>6, Zenon
<1> QED BY <1>2, <1>3, <1>4

\* One slot that holds it once, or the hands of a handler: one place.
LEMMA InvIsAccounted == AccountInv => Accounted
<1> SUFFICES ASSUME AccountInv, NEW r \in Made, IsMethod(r), answer[r] = None
             PROVE  Cardinality(Places(r)) = 1
  BY DEF Accounted
<1>1. PICK n \in Nat : n = Len(stack) /\ IsStack(stack)
  BY StackLen DEF AccountInv, CallsInv, ContextInv, StackOK, FramesOK
<1>2. r \in 1 .. Len(req) /\ r \in Requests
  <2>1. Made = 1 .. Len(req) /\ Len(req) \in Nat /\ Len(req) <= MaxRequests
    BY StackLen DEF AccountInv, CallsInv, QueueInv, Typed, Made
  <2> QED BY <2>1, BoundsAssumption DEF Requests
<1>3. One(stack, currentBatch, waiting, r) /\ Somewhere(stack, currentBatch, waiting, r)
  BY <1>2 DEF AccountInv, Acc
<1>4. ASSUME NEW c, c \in Places(r), \A y : y \in Places(r) => y = c PROVE Cardinality(Places(r)) = 1
  <2>1. Places(r) = {c}
    BY <1>4
  <2> QED BY <2>1, FS_Singleton
<1>5. /\ \A j \in 0 .. n : Slot(stack, currentBatch, j, r) # {} => waiting[r] = None
      /\ \A j \in 0 .. n : \A p, q \in Slot(stack, currentBatch, j, r) : p = q
      /\ \A j, k \in 0 .. n : Slot(stack, currentBatch, j, r) # {} /\ Slot(stack, currentBatch, k, r) # {} => j = k
      /\ waiting[r] # None \/ \E j \in 0 .. n : Slot(stack, currentBatch, j, r) # {}
  BY <1>1, <1>3 DEF One, Somewhere, Lone
<1>6. \A y : y \in Places(r) <=>
         \/ \E p \in Slot(stack, currentBatch, 0, r) : y = <<"queued", p>>
         \/ \E i \in 1 .. n : stack[i].at = "batch" /\ \E p \in Slot(stack, currentBatch, i, r) : y = <<i, p>>
         \/ y \in 1 .. n /\ stack[y].at # "batch" /\ Slot(stack, currentBatch, y, r) # {}
         \/ waiting[r] # None /\ y = <<"waiting">>
  BY <1>1, PlacesAre
<1>7. CASE waiting[r] # None
  <2>1. \A j \in 0 .. n : Slot(stack, currentBatch, j, r) = {} /\ \A p : p \notin Slot(stack, currentBatch, j, r)
    BY <1>5, <1>7
  <2>2. 0 \in 0 .. n /\ \A i \in 1 .. n : i \in 0 .. n
    BY <1>1
  <2>3. PICK c : c = <<"waiting">>
    OBVIOUS
  <2>4. c \in Places(r)
    BY <1>6, <1>7, <2>1, <2>2, <2>3, Zenon
  <2>5. ASSUME NEW y \in Places(r) PROVE y = c
    <3>1. CASE \E q \in Slot(stack, currentBatch, 0, r) : y = <<"queued", q>>
      BY <1>7, <2>1, <2>2, <2>3, <3>1
    <3>2. CASE \E i \in 1 .. n : stack[i].at = "batch" /\ \E q \in Slot(stack, currentBatch, i, r) : y = <<i, q>>
      BY <1>7, <2>1, <2>2, <2>3, <3>2
    <3>3. CASE y \in 1 .. n /\ stack[y].at # "batch" /\ Slot(stack, currentBatch, y, r) # {}
      BY <1>7, <2>1, <2>2, <2>3, <3>3
    <3>4. CASE waiting[r] # None /\ y = <<"waiting">>
      BY <1>7, <2>1, <2>2, <2>3, <3>4
    <3> QED BY <1>6, <3>1, <3>2, <3>3, <3>4, Zenon
  <2> QED BY <1>4, <2>4, <2>5
<1>8. CASE waiting[r] = None
  <2>1. PICK k \in 0 .. n : Slot(stack, currentBatch, k, r) # {}
    BY <1>5, <1>8
  <2>2. PICK p : p \in Slot(stack, currentBatch, k, r)
    BY <2>1
  <2>3. \A q : q \in Slot(stack, currentBatch, k, r) <=> q = p
    BY <1>5, <2>2
  <2>4. \A j \in 0 .. n : j # k => Slot(stack, currentBatch, j, r) = {}
    BY <1>5, <2>1
  <2>5. 0 \in 0 .. n /\ \A i \in 1 .. n : i \in 0 .. n /\ i # 0
    BY <1>1
  <2>6. CASE k = 0
    <3>1. \A i \in 1 .. n : Slot(stack, currentBatch, i, r) = {} /\ \A q : q \notin Slot(stack, currentBatch, i, r)
      BY <2>4, <2>5, <2>6
    <3>2. \A q : q \in Slot(stack, currentBatch, 0, r) <=> q = p
      BY <2>3, <2>6
    <3>3. PICK c : c = <<"queued", p>>
      OBVIOUS
    <3>4. c \in Places(r)
      BY <1>6, <1>8, <3>1, <3>2, <3>3, Zenon
    <3>5. ASSUME NEW y \in Places(r) PROVE y = c
      <4>1. CASE \E q \in Slot(stack, currentBatch, 0, r) : y = <<"queued", q>>
        BY <1>8, <3>1, <3>2, <3>3, <4>1
      <4>2. CASE \E i \in 1 .. n : stack[i].at = "batch" /\ \E q \in Slot(stack, currentBatch, i, r) : y = <<i, q>>
        BY <1>8, <3>1, <3>2, <3>3, <4>2
      <4>3. CASE y \in 1 .. n /\ stack[y].at # "batch" /\ Slot(stack, currentBatch, y, r) # {}
        BY <1>8, <3>1, <3>2, <3>3, <4>3
      <4>4. CASE waiting[r] # None /\ y = <<"waiting">>
        BY <1>8, <3>1, <3>2, <3>3, <4>4
      <4> QED BY <1>6, <4>1, <4>2, <4>3, <4>4, Zenon
    <3> QED BY <1>4, <3>4, <3>5
  <2>7. CASE k # 0
    <3>1. (\A q : q \notin Slot(stack, currentBatch, 0, r)) /\ k \in 1 .. n
      BY <2>4, <2>5, <2>7, <1>1
    <3>2. \A i \in 1 .. n : /\ Slot(stack, currentBatch, i, r) # {} => i = k
                            /\ \A q : q \in Slot(stack, currentBatch, i, r) => i = k
      BY <2>4, <2>5
    <3>3. CASE stack[k].at = "batch"
      <4>1. PICK c : c = <<k, p>>
        OBVIOUS
      <4>2. c \in Places(r)
        BY <1>6, <1>8, <2>3, <3>1, <3>2, <3>3, <4>1, Zenon
      <4>3. ASSUME NEW y \in Places(r) PROVE y = c
        <5>1. CASE \E q \in Slot(stack, currentBatch, 0, r) : y = <<"queued", q>>
          BY <1>8, <2>3, <3>1, <3>2, <3>3, <4>1, <5>1
        <5>2. CASE \E i \in 1 .. n : stack[i].at = "batch" /\ \E q \in Slot(stack, currentBatch, i, r) : y = <<i, q>>
          BY <1>8, <2>3, <3>1, <3>2, <3>3, <4>1, <5>2
        <5>3. CASE y \in 1 .. n /\ stack[y].at # "batch" /\ Slot(stack, currentBatch, y, r) # {}
          BY <1>8, <2>3, <3>1, <3>2, <3>3, <4>1, <5>3
        <5>4. CASE waiting[r] # None /\ y = <<"waiting">>
          BY <1>8, <2>3, <3>1, <3>2, <3>3, <4>1, <5>4
        <5> QED BY <1>6, <5>1, <5>2, <5>3, <5>4, Zenon
      <4> QED BY <1>4, <4>2, <4>3
    <3>4. CASE stack[k].at # "batch"
      <4>1. PICK c : c = k
        OBVIOUS
      <4>2. c \in Places(r)
        BY <1>6, <1>8, <2>1, <2>3, <3>1, <3>2, <3>4, <4>1, Zenon
      <4>3. ASSUME NEW y \in Places(r) PROVE y = c
        <5>1. CASE \E q \in Slot(stack, currentBatch, 0, r) : y = <<"queued", q>>
          BY <1>8, <2>1, <2>3, <3>1, <3>2, <3>4, <4>1, <5>1
        <5>2. CASE \E i \in 1 .. n : stack[i].at = "batch" /\ \E q \in Slot(stack, currentBatch, i, r) : y = <<i, q>>
          BY <1>8, <2>1, <2>3, <3>1, <3>2, <3>4, <4>1, <5>2
        <5>3. CASE y \in 1 .. n /\ stack[y].at # "batch" /\ Slot(stack, currentBatch, y, r) # {}
          BY <1>8, <2>1, <2>3, <3>1, <3>2, <3>4, <4>1, <5>3
        <5>4. CASE waiting[r] # None /\ y = <<"waiting">>
          BY <1>8, <2>1, <2>3, <3>1, <3>2, <3>4, <4>1, <5>4
        <5> QED BY <1>6, <5>1, <5>2, <5>3, <5>4, Zenon
      <4> QED BY <1>4, <4>2, <4>3
    <3> QED BY <3>3, <3>4
  <2> QED BY <2>6, <2>7
<1> QED BY <1>7, <1>8

\* The rejected requests are answered with an error.
LEMMA InvIsRejected == AccountInv => RejectedStaysRejected
BY DEF AccountInv, Typed, Acc, RejectedStaysRejected

\* Client::sendRequest, SendBatch, IHandler::Handle and the handlers: a request
\* whose promise is not fulfilled is in exactly one place, whatever throws, is
\* destroyed, is rerouted or calls back while it is on its way.
THEOREM CallsAccounted == Spec => []Accounted
<1>1. Init => AccountInv
  BY InitAccount
<1>2. AccountInv /\ [Next]_vars => AccountInv'
  BY StepAccount
<1>3. AccountInv => Accounted
  BY InvIsAccounted
<1> QED BY <1>1, <1>2, <1>3, PTL DEF Spec

\* IHandler::Handle with a route middleware that throws: the error it is answered
\* with is what its caller gets, although the request is handed on and its handler
\* may answer it again.
THEOREM CallsRejectedStay == Spec => []RejectedStaysRejected
<1>1. Init => AccountInv
  BY InitAccount
<1>2. AccountInv /\ [Next]_vars => AccountInv'
  BY StepAccount
<1>3. AccountInv => RejectedStaysRejected
  BY InvIsRejected
<1> QED BY <1>1, <1>2, <1>3, PTL DEF Spec

-----------------------------------------------------------------------------
\* Names.

\* Who handles a request that is handed to h, after the transport at the latest.
Home(h) == IF h = Proxy THEN ProxyTarget ELSE h

\* The words lead from Main to the server s, along routes.
Reaches(words, s) ==
    \E path \in [1 .. Len(words) + 1 -> Servers] :
        /\ path[1] = Main /\ path[Len(words) + 1] = s
        /\ \A n \in 1 .. Len(words) : Leads(path[n], words[n], path[n + 1])

\* What is left of the name full has come to h by the words before it.
Routed(full, name, h) ==
    \E pre \in Seq(Parts) : Words(full) = pre \o Words(name) /\ Reaches(pre, Home(h))

Names == {n \in Seq(Parts) : IsName(n)}
Contexts == Requests \cup {None}

\* A call on the way and a handler that runs, for the requests q.
NameOK(f, q) ==
    /\ f.at \in {"route", "body", "leave"} => f.ctx \in Contexts
    /\ f.at \in {"route", "body"} =>
          f.name \in Names /\ f.h \in Servers \cup {Proxy} /\ Routed(q[f.r].name, f.name, f.h)
    /\ f.at = "body" => Len(f.name) = 1 /\ Words(f.name) = f.name

NamedStack(st, q) == IsStack(st) /\ \A j \in 1 .. Len(st) : NameOK(st[j], q)

\* The word of a name of one word.
LEMMA OneWord ==
    ASSUME NEW K, NEW s, s \in Seq(K), Len(s) = 1
    PROVE  s[1] \in K
<1>1. \A n \in 1 .. Len(s) : s[n] \in K
  OBVIOUS
<1> QED BY <1>1

\* A word more.
LEMMA WordMore ==
    ASSUME NEW K, NEW pre \in Seq(K), NEW w \in K, NEW m \in Nat, m = Len(pre)
    PROVE  /\ <<w>> \in Seq(K) /\ Len(<<w>>) = 1 /\ Append(pre, w) \in Seq(K) /\ Append(pre, w) = pre \o <<w>>
           /\ Len(Append(pre, w)) = m + 1 /\ Append(pre, w)[m + 1] = w
           /\ \A n \in 1 .. m : Append(pre, w)[n] = pre[n]
<1>1. <<w>> \in Seq(K) /\ Len(<<w>>) = 1
  OBVIOUS
<1>2. /\ Append(pre, w) \in Seq(K) /\ Len(Append(pre, w)) = m + 1 /\ Append(pre, w)[m + 1] = w
      /\ \A n \in 1 .. m : Append(pre, w)[n] = pre[n]
  BY AppendProperties
<1> QED BY <1>1, <1>2, AppendIsConcat

\* The word before the end.
LEMMA OneMoreWord ==
    ASSUME NEW K, NEW s \in Servers, NEW pre \in Seq(K), Reaches(pre, s), NEW w \in K, NEW to \in Servers,
           Leads(s, w, to)
    PROVE  Reaches(Append(pre, w), to)
<1>1. PICK m \in Nat : m = Len(pre)
  OBVIOUS
<1>2. PICK path \in [1 .. m + 1 -> Servers] :
         /\ path[1] = Main /\ path[m + 1] = s
         /\ \A n \in 1 .. m : Leads(path[n], pre[n], path[n + 1])
  BY <1>1 DEF Reaches
<1>3. PICK u : u = Append(pre, w)
  OBVIOUS
<1>4. Len(u) = m + 1 /\ u[m + 1] = w /\ \A n \in 1 .. m : u[n] = pre[n]
  <2>1. /\ Len(Append(pre, w)) = m + 1 /\ Append(pre, w)[m + 1] = w
        /\ \A n \in 1 .. m : Append(pre, w)[n] = pre[n]
    BY <1>1, WordMore
  <2> QED BY <1>3, <2>1
<1>5. PICK on : on = [n \in 1 .. m + 1 + 1 |-> IF n = m + 1 + 1 THEN to ELSE path[n]]
  OBVIOUS
<1>6. /\ on \in [1 .. m + 1 + 1 -> Servers] /\ on[m + 1 + 1] = to
      /\ \A n \in 1 .. m + 1 : on[n] = path[n]
  <2>1. \A n \in 1 .. m + 1 + 1 : n = m + 1 + 1 \/ n \in 1 .. m + 1
    BY <1>1
  <2>2. m + 1 + 1 \in 1 .. m + 1 + 1 /\ \A n \in 1 .. m + 1 : n \in 1 .. m + 1 + 1 /\ n # m + 1 + 1
    BY <1>1
  <2> QED BY <1>2, <1>5, <2>1, <2>2
<1>7. ASSUME NEW n \in 1 .. m + 1 PROVE Leads(on[n], u[n], on[n + 1])
  <2>1. CASE n = m + 1
    BY <1>2, <1>4, <1>6, <2>1
  <2>2. CASE n # m + 1
    <3>1. n \in 1 .. m /\ n + 1 \in 1 .. m + 1
      BY <1>1, <2>2
    <3> QED BY <1>2, <1>4, <1>6, <3>1
  <2> QED BY <2>1, <2>2
<1>8. on[1] = Main
  <2>1. 1 \in 1 .. m + 1
    BY <1>1
  <2> QED BY <1>2, <1>6, <2>1
<1> QED BY <1>3, <1>4, <1>6, <1>7, <1>8 DEF Reaches

\* Every name comes to Main.
LEMMA AllAhead ==
    ASSUME NEW name \in Names
    PROVE  Routed(name, name, Main)
<1>1. PICK e : e = << >>
  OBVIOUS
<1>2. e \in Seq(Parts) /\ Len(e) = 0
  BY <1>1
<1>3. Reaches(e, Main)
  <2>1. PICK path : path = [n \in 1 .. 0 + 1 |-> Main]
    OBVIOUS
  <2>2. path \in [1 .. 0 + 1 -> Servers] /\ path[1] = Main /\ path[0 + 1] = Main
    BY <2>1, ServersAssumption
  <2> QED BY <1>2, <2>2 DEF Reaches
<1>4. Home(Main) = Main
  BY ServersAssumption DEF Home
<1>5. Words(name) = e \o Words(name)
  <2>1. name \in Seq(Parts)
    BY DEF Names
  <2>2. Words(name) \in Seq(Parts \ {Slash})
    BY <2>1, WordsAre
  <2> QED BY <1>1, <2>2, ConcatEmptySeq
<1> QED BY <1>2, <1>3, <1>4, <1>5 DEF Routed

\* The same words, and the same home.
LEMMA StillRouted ==
    ASSUME NEW full, NEW name, NEW h, Routed(full, name, h), NEW rest, Words(rest) = Words(name),
           NEW to, Home(to) = Home(h)
    PROVE  Routed(full, rest, to)
BY DEF Routed

\* A word less to go.
LEMMA RoutedOn ==
    ASSUME NEW full, NEW name, NEW s \in Servers, Routed(full, name, s), NEW w \in Parts, NEW rest \in Names,
           Words(name) = <<w>> \o Words(rest), NEW h, Home(h) \in Servers, Leads(s, w, Home(h))
    PROVE  Routed(full, rest, h)
<1>1. PICK pre \in Seq(Parts) : Words(full) = pre \o Words(name) /\ Reaches(pre, Home(s))
  BY DEF Routed
<1>2. Home(s) = s
  BY ServersAssumption DEF Home
<1>3. Reaches(Append(pre, w), Home(h))
  BY <1>1, <1>2, OneMoreWord
<1>4. PICK v : v = Words(rest)
  OBVIOUS
<1>5. v \in Seq(Parts)
  <2>1. rest \in Seq(Parts)
    BY DEF Names
  <2>2. v \in Seq(Parts \ {Slash})
    BY <1>4, <2>1, WordsAre
  <2> QED BY <2>2, SeqMonotonic
<1>6. <<w>> \in Seq(Parts) /\ Append(pre, w) \in Seq(Parts) /\ Append(pre, w) = pre \o <<w>>
  <2>1. Len(pre) \in Nat
    OBVIOUS
  <2> QED BY <2>1, WordMore
<1>8. (pre \o <<w>>) \o v = pre \o (<<w>> \o v)
  BY <1>5, <1>6, ConcatAssociative
<1>9. Words(full) = Append(pre, w) \o v
  BY <1>1, <1>4, <1>6, <1>8
<1> QED BY <1>3, <1>4, <1>6, <1>9 DEF Routed

\* The calls that enter, return and are interrupted.
LEMMA NamedPush ==
    ASSUME NEW st, NEW q, NamedStack(st, q), NEW f, NameOK(f, q)
    PROVE  NamedStack(Append(st, f), q)
<1>1. PICK n \in Nat : n = Len(st)
  BY StackLen DEF NamedStack
<1>2. PICK t : t = Append(st, f)
  OBVIOUS
<1>3. IsStack(t) /\ Len(t) = n + 1 /\ t[n + 1] = f /\ \A i \in 1 .. n : t[i] = st[i]
  BY <1>1, <1>2, Pushed DEF NamedStack
<1>4. \A j \in 1 .. n + 1 : j \in 1 .. n \/ j = n + 1
  BY <1>1
<1> QED BY <1>1, <1>2, <1>3, <1>4 DEF NamedStack

LEMMA NamedPop ==
    ASSUME NEW st, NEW q, NamedStack(st, q), st # << >>
    PROVE  NamedStack(Front(st), q)
<1>1. PICK n \in Nat : n = Len(st)
  BY StackLen DEF NamedStack
<1>2. PICK t : t = Front(st)
  OBVIOUS
<1>3. IsStack(t) /\ Len(t) = n - 1 /\ \A i \in 1 .. n - 1 : t[i] = st[i]
  BY <1>1, <1>2, Popped DEF NamedStack
<1>4. \A j \in 1 .. n - 1 : j \in 1 .. n
  BY <1>1
<1> QED BY <1>1, <1>2, <1>3, <1>4 DEF NamedStack

LEMMA NamedContinued ==
    ASSUME NEW st, NEW q, NamedStack(st, q), NEW r
    PROVE  NamedStack(st \o Continuation(r), q)
<1>1. NameOK(Callback(r), q)
  BY DEF NameOK, Callback
<1>2. NamedStack(Append(st, Callback(r)), q)
  BY <1>1, NamedPush
<1> QED BY <1>2, Continued DEF NamedStack

LEMMA NamedBelow ==
    ASSUME NEW q, ContextInv, NamedStack(stack, q), stack # << >>, NEW h
    PROVE  NamedStack(Below(h), q)
<1>1. PICK n \in Nat : n = Len(stack)
  BY StackLen DEF NamedStack
<1>2. PICK t : t = Below(h)
  OBVIOUS
<1>3. /\ IsStack(t) /\ Len(t) = n - 1
      /\ \A i \in 1 .. n - 1 :
            t[i] = IF stack[i].at = "body" /\ stack[i].h = h THEN [stack[i] EXCEPT !.own = FALSE] ELSE stack[i]
  BY <1>1, <1>2, BelowIs DEF NamedStack
<1>4. ASSUME NEW i \in 1 .. n - 1 PROVE NameOK(t[i], q)
  <2>1. PICK f : f = stack[i]
    OBVIOUS
  <2>2. i \in 1 .. n
    BY <1>1
  <2>3. FrameOK(f) /\ NameOK(f, q)
    BY <1>1, <2>1, <2>2 DEF ContextInv, StackOK, FramesOK, NamedStack
  <2>4. CASE f.at = "body" /\ f.h = h
    <3>1. PICK g : g = [f EXCEPT !.own = FALSE]
      OBVIOUS
    <3>2. DOMAIN f = CallFields
      BY <2>3, <2>4 DEF FrameOK
    <3>3. g.at = f.at /\ g.h = f.h /\ g.ctx = f.ctx /\ g.name = f.name /\ g.r = f.r
      BY <3>1, <3>2 DEF CallFields
    <3>4. t[i] = g
      BY <1>3, <2>1, <2>4, <3>1
    <3> QED BY <2>3, <3>3, <3>4 DEF NameOK
  <2>5. CASE ~(f.at = "body" /\ f.h = h)
    BY <1>3, <2>1, <2>3, <2>5
  <2> QED BY <2>4, <2>5
<1> QED BY <1>2, <1>3, <1>4 DEF NamedStack

-----------------------------------------------------------------------------
\* The steps of calls, and the names of the calls.

RequestSet ==
    [name : Names, notify : BOOLEAN, params : {"array", "object"}, from : {"client", "peer"},
     during : Free .. WhileSending]
RequestsOK == \A r \in 1 .. Len(req) : req[r] \in RequestSet

CurrentT == current \in [Servers -> Contexts \cup {FallbackCtx}]

\* What user code can set.
SettingsOK ==
    /\ batchActive \in BOOLEAN /\ guard \in BOOLEAN /\ connected \in BOOLEAN /\ failed \in BOOLEAN
    /\ prefix \in NamePrefixes /\ alive \subseteq Servers /\ fallback \subseteq Servers
    /\ DOMAIN routes = Servers /\ DOMAIN calls = Servers
    /\ \A s \in Servers : routes[s] \subseteq DOMAIN Mounts[s] /\ calls[s] \subseteq DOMAIN Methods
    /\ changes \in 0 .. MaxChanges

NamesInv == AccountInv /\ RequestsOK /\ NamedStack(stack, req) /\ CurrentT /\ SettingsOK

\* After a step of a call.
CallNamed == NamedStack(stack', req) /\ CurrentT'

\* The call at the top.
LEMMA TopNamed ==
    ASSUME NamesInv, stack # << >>
    PROVE  ContextInv /\ FrameOK(Top) /\ NameOK(Top, req) /\ FrameT(Top)
<1>1. ContextInv
  BY DEF NamesInv, AccountInv, CallsInv
<1>2. Len(stack) \in Nat \ {0} /\ FrameOK(Top) /\ Top = stack[Len(stack)]
  BY <1>1, TopFacts
<1>3. Len(stack) \in 1 .. Len(stack)
  BY <1>2
<1> QED BY <1>1, <1>2, <1>3 DEF NamesInv, NamedStack, AccountInv, Typed

\* The call goes on in its frame.
LEMMA PlacedNamed ==
    ASSUME NEW f, FrameOK(f), f.at \in {"route", "body"}, NEW q, NameOK(f, q),
           NEW at \in {"body", "leave"}, at = "body" => Len(f.name) = 1 /\ Words(f.name) = f.name,
           NEW g, g = Placed(f, at)
    PROVE  NameOK(g, q)
<1>1. DOMAIN f = CallFields
  BY DEF FrameOK
<1>2. g.at = at /\ g.h = f.h /\ g.name = f.name /\ g.ctx = f.ctx /\ g.r = f.r
  BY <1>1 DEF Placed, CallFields
<1> QED BY <1>2 DEF NameOK

\* A call with a name that has come so far.
LEMMA HandleNamed ==
    ASSUME NEW r, NEW h \in Servers \cup {Proxy}, NEW name \in Names, NEW ctx \in Contexts, NEW shield,
           NEW q, Routed(q[r].name, name, h), NEW f, f = HandleFrame(r, h, name, ctx, shield)
    PROVE  NameOK(f, q)
<1>1. f.at = "route" /\ f.h = h /\ f.name = name /\ f.ctx = ctx /\ f.r = r
  BY DEF HandleFrame
<1> QED BY <1>1 DEF NameOK

LEMMA SendNamed ==
    ASSUME NEW below, NEW q, NamedStack(below, q), NEW r, NEW name \in Names, NEW h \in Servers \cup {Proxy},
           NEW shield, Routed(q[r].name, name, h), Send(below, r, name, h, shield)
    PROVE  NamedStack(stack', q)
<1>1. CASE h \in alive
  <2>1. PICK f, ctx : ctx = None /\ f = HandleFrame(r, h, name, ctx, shield)
    OBVIOUS
  <2>2. ctx \in Contexts
    BY <2>1 DEF Contexts
  <2>3. NameOK(f, q)
    BY <2>1, <2>2, HandleNamed
  <2>4. stack' = Append(below, f)
    BY <1>1, <2>1 DEF Send
  <2> QED BY <2>3, <2>4, NamedPush
<1>2. CASE h \notin alive
  BY <1>2, NamedContinued DEF Send
<1> QED BY <1>1, <1>2

LEMMA ThrowNotifyNamed ==
    ASSUME NEW below, NEW q, NamedStack(below, q), NEW shield, ThrowNotify(below, shield)
    PROVE  NamedStack(stack', q)
<1>1. CASE ~shield /\ below # << >> /\ below[Len(below)].at = "batch"
  BY <1>1, NamedPop DEF ThrowNotify
<1>2. CASE ~(~shield /\ below # << >> /\ below[Len(below)].at = "batch")
  BY <1>2 DEF ThrowNotify
<1> QED BY <1>1, <1>2

\* IHandler::Handle throws.
LEMMA ThrowsNamed ==
    ASSUME NamesInv, stack # << >>, NEW f, NEW e, Throws(f, e)
    PROVE  CallNamed
<1>1. PICK u : u = Below(f.h)
  OBVIOUS
<1>2. NamedStack(u, req)
  BY <1>1, TopNamed, NamedBelow DEF NamesInv
<1>3. CurrentT'
  BY DEF Throws, LeaveContext, NamesInv, CurrentT
<1>4. CASE IsMethod(f.r)
  <2>1. stack' = u \o Continuation(f.r)
    BY <1>1, <1>4 DEF Throws
  <2> QED BY <1>2, <1>3, <2>1, NamedContinued DEF CallNamed
<1>5. CASE ~IsMethod(f.r)
  <2>1. ThrowNotify(u, f.shield)
    BY <1>1, <1>5 DEF Throws
  <2> QED BY <1>2, <1>3, <2>1, ThrowNotifyNamed DEF CallNamed
<1> QED BY <1>4, <1>5

\* DoHandle answers.
LEMMA AnswersInsideNamed ==
    ASSUME NamesInv, stack # << >>, NEW f, FrameOK(f), f.at \in {"route", "body"}, NameOK(f, req),
           NEW a, AnswersInside(f, a), CurrentT'
    PROVE  CallNamed
<1>1. PICK u, g : u = Below(f.h) /\ g = Placed(f, "leave")
  OBVIOUS
<1>2. NamedStack(u, req)
  BY <1>1, TopNamed, NamedBelow DEF NamesInv
<1>3. NameOK(g, req)
  BY <1>1, PlacedNamed
<1>4. stack' = u \o <<g>> \o Continuation(f.r)
  BY <1>1 DEF AnswersInside, Placed
<1>5. u \o <<g>> = Append(u, g)
  BY <1>2, Joined DEF NamedStack
<1>6. PICK v : v = Append(u, g)
  OBVIOUS
<1>7. NamedStack(v, req) /\ stack' = v \o Continuation(f.r)
  BY <1>2, <1>3, <1>4, <1>5, <1>6, NamedPush
<1> QED BY <1>7, NamedContinued DEF CallNamed

\* The words of a name, in Seq(Parts).
LEMMA NamesAre ==
    ASSUME NEW name \in Names, NEW routing, NEW t, t = TryRoute(routing, name)
    PROVE  /\ t.routed <=> Len(Words(name)) > 1 /\ Words(name)[1] \in DOMAIN routing
           /\ t.routed => Words(name) = <<Words(name)[1]>> \o Words(t.method)
           /\ ~t.routed => /\ Words(t.method) = Words(name)
                           /\ Len(t.method) = 1 => Words(t.method) = t.method
           /\ t.method \in Names
           /\ Words(name) \in Seq(Parts)
<1>1. PICK K : K = Parts
  OBVIOUS
<1>2. Slash \in K /\ name \in Seq(K) /\ IsName(name)
  <2>1. Slash \in Parts
    BY DEF Parts
  <2>2. name \in Seq(Parts) /\ IsName(name)
    BY DEF Names
  <2> QED BY <1>1, <2>1, <2>2
<1>3. Words(name) \in Seq(K \ {Slash})
  BY <1>2, WordsAre
<1>4. Words(name) \in Seq(K)
  BY <1>3, SeqMonotonic
<1> QED BY <1>1, <1>2, <1>4, RoutedByFirstWord DEF Names

\* DoHandle: the handler starts, or there is none to start.
LEMMA DoHandleNamed ==
    ASSUME NamesInv, DoHandle
    PROVE  CallNamed
<1>1. stack # << >> /\ Top.at = "route" /\ Top.h \in Servers
  BY DEF DoHandle, Running
<1>2. PICK t, f : /\ t = TryRoute(LiveRoutes(Top.h), Top.name) /\ ~t.routed /\ f = Renamed(Top, t.method)
                  /\ MiddlewareThrows(f) \/ Extension(f) \/ CallFound(f) \/ NotFound(f)
  BY DEF DoHandle, Renamed
<1>3. ContextInv /\ FrameOK(Top) /\ NameOK(Top, req)
  BY <1>1, TopNamed
<1>4. FrameOK(f) /\ f.at = "route" /\ f.h = Top.h /\ f.ctx = Top.ctx /\ f.r = Top.r
  BY <1>1, <1>2, <1>3, RenamedOK
<1>5. f.name = t.method
  <2>1. DOMAIN Top = CallFields
    BY <1>1, <1>3 DEF FrameOK
  <2> QED BY <1>2, <2>1 DEF Renamed, CallFields
<1>6. f.name \in Names /\ Words(f.name) = Words(Top.name) /\ (Len(f.name) = 1 => Words(f.name) = f.name)
  <2>1. Top.name \in Names
    BY <1>1, <1>3 DEF NameOK
  <2>2. PICK name, routing : name = Top.name /\ routing = LiveRoutes(Top.h)
    OBVIOUS
  <2>3. name \in Names /\ t = TryRoute(routing, name) /\ ~t.routed
    BY <1>2, <2>1, <2>2
  <2>4. /\ t.method \in Names /\ Words(t.method) = Words(name)
        /\ Len(t.method) = 1 => Words(t.method) = t.method
    BY <2>3, NamesAre
  <2> QED BY <1>5, <2>2, <2>4
<1>7. NameOK(f, req)
  <2>1. Routed(req[f.r].name, f.name, f.h)
    BY <1>1, <1>3, <1>4, <1>6, StillRouted DEF NameOK
  <2> QED BY <1>1, <1>3, <1>4, <1>6, <2>1 DEF NameOK
<1>8. ASSUME Enter(f) PROVE CurrentT'
  <2>1. f.ctx \in Contexts
    BY <1>4, <1>7 DEF NameOK
  <2> QED BY <1>8, <2>1 DEF Enter, NamesInv, CurrentT
<1>9. ASSUME NEW e, Throws(f, e) PROVE CallNamed
  BY <1>1, <1>9, ThrowsNamed
<1>10. ASSUME NEW a, Enter(f), AnswersInside(f, a) PROVE CallNamed
  BY <1>1, <1>4, <1>7, <1>8, <1>10, AnswersInsideNamed
<1>11. ASSUME NEW at \in {"body", "leave"}, Enter(f), stack' = Append(Below(f.h), Placed(f, at)),
              at = "body" => Len(f.name) = 1
       PROVE  CallNamed
  <2>1. PICK u, g : u = Below(f.h) /\ g = Placed(f, at)
    OBVIOUS
  <2>2. NamedStack(u, req)
    BY <1>1, <1>3, <2>1, NamedBelow DEF NamesInv
  <2>3. NameOK(g, req)
    BY <1>4, <1>6, <1>7, <1>11, <2>1, PlacedNamed
  <2>4. NamedStack(Append(u, g), req)
    BY <2>2, <2>3, NamedPush
  <2> QED BY <1>8, <1>11, <2>1, <2>4 DEF CallNamed
<1>12. CASE MiddlewareThrows(f)
  BY <1>9, <1>12 DEF MiddlewareThrows
<1>13. CASE Extension(f)
  BY <1>9, <1>10, <1>13 DEF Extension
<1>14. CASE CallFound(f)
  BY <1>9, <1>11, <1>14 DEF CallFound, Found, Placed
<1>15. CASE NotFound(f)
  BY <1>9, <1>10, <1>11, <1>15 DEF NotFound, Placed
<1> QED BY <1>2, <1>12, <1>13, <1>14, <1>15

\* A route is found: the request goes to where the first word of its name leads.
LEMMA ForwardNamed ==
    ASSUME NamesInv, Forward
    PROVE  CallNamed
<1>1. stack # << >> /\ Top.at = "route" /\ Top.h \in Servers /\ current' = current
  BY DEF Forward, Running
<1>2. ContextInv /\ FrameOK(Top) /\ NameOK(Top, req)
  BY <1>1, TopNamed
<1>3. PICK u : u = Front(stack)
  OBVIOUS
<1>4. NamedStack(u, req)
  BY <1>1, <1>3, NamedPop DEF NamesInv
<1>5. PICK name, routing, t, word, h :
         /\ name = Top.name /\ routing = LiveRoutes(Top.h) /\ t = TryRoute(routing, name)
         /\ word = Words(name)[1] /\ h = Mounts[Top.h][word]
  OBVIOUS
<1>6. PICK on, off : on = HandedOn(Top, h, t.method) /\ off = NoContext(on)
  OBVIOUS
<1>7. /\ t.routed
      /\ \/ stack' = Append(u, on)
         \/ stack' = u \o <<off>> \o Continuation(Top.r)
         \/ ThrowNotify(u, Top.shield)
  <2>1. /\ on = [Top EXCEPT !.h = Mounts[Top.h][Words(Top.name)[1]],
                           !.name = TryRoute(LiveRoutes(Top.h), Top.name).method]
        /\ off = [on EXCEPT !.ctx = None]
    BY <1>5, <1>6 DEF HandedOn, NoContext
  <2>2. t = TryRoute(LiveRoutes(Top.h), Top.name)
    BY <1>5
  <2> QED BY <1>3, <2>1, <2>2 DEF Forward
<1>8. name \in Names /\ Routed(req[Top.r].name, name, Top.h) /\ Top.ctx \in Contexts
  BY <1>1, <1>2, <1>5 DEF NameOK
<1>9. /\ t.method \in Names /\ Words(name) = <<word>> \o Words(t.method)
      /\ word \in DOMAIN routing /\ word \in Parts
  <2>1. /\ Len(Words(name)) > 1 /\ Words(name)[1] \in DOMAIN routing
        /\ Words(name) = <<Words(name)[1]>> \o Words(t.method)
        /\ t.method \in Names /\ Words(name) \in Seq(Parts)
    BY <1>5, <1>7, <1>8, NamesAre
  <2>2. PICK K, words : K = Parts /\ words = Words(name) /\ words \in Seq(K) /\ Len(words) > 1
    BY <2>1
  <2>3. words[1] \in K
    BY <2>2
  <2> QED BY <1>5, <2>1, <2>2, <2>3
<1>10. /\ word \in DOMAIN Mounts[Top.h] /\ h \in alive \cup {Proxy}
       /\ h \in Servers \cup {Proxy} /\ Home(h) \in Servers /\ Leads(Top.h, word, Home(h))
  <2>1. word \in routes[Top.h] /\ h \in alive \cup {Proxy}
    BY <1>5, <1>9 DEF LiveRoutes
  <2>2. word \in DOMAIN Mounts[Top.h] /\ alive \subseteq Servers
    BY <1>1, <2>1 DEF NamesInv, SettingsOK
  <2>3. CASE h = Proxy
    BY <1>5, <2>1, <2>2, <2>3, ServersAssumption DEF Home, Leads
  <2>4. CASE h # Proxy
    BY <1>5, <2>1, <2>2, <2>4 DEF Home, Leads
  <2> QED BY <2>3, <2>4
<1>11. PICK full : full = req[Top.r].name
  OBVIOUS
<1>12. Routed(full, t.method, h)
  BY <1>1, <1>8, <1>9, <1>10, <1>11, RoutedOn
<1>13. NameOK(on, req) /\ NameOK(off, req)
  <2>1. DOMAIN Top = CallFields
    BY <1>1, <1>2 DEF FrameOK
  <2>2. /\ on.at = "route" /\ on.h = h /\ on.name = t.method /\ on.ctx = Top.ctx /\ on.r = Top.r
        /\ DOMAIN on = CallFields
    BY <1>1, <1>6, <2>1 DEF HandedOn, CallFields
  <2>3. off.at = "route" /\ off.h = h /\ off.name = t.method /\ off.ctx = None /\ off.r = Top.r
    BY <1>6, <2>2 DEF NoContext, CallFields
  <2> QED BY <1>8, <1>9, <1>10, <1>11, <1>12, <2>2, <2>3 DEF NameOK, Contexts
<1>14. CurrentT'
  BY <1>1 DEF NamesInv, CurrentT
<1>15. CASE stack' = Append(u, on)
  BY <1>4, <1>13, <1>14, <1>15, NamedPush DEF CallNamed
<1>16. CASE stack' = u \o <<off>> \o Continuation(Top.r)
  <2>1. u \o <<off>> = Append(u, off)
    BY <1>4, Joined DEF NamedStack
  <2>2. PICK v : v = Append(u, off)
    OBVIOUS
  <2>3. NamedStack(v, req) /\ stack' = v \o Continuation(Top.r)
    BY <1>4, <1>13, <1>16, <2>1, <2>2, NamedPush
  <2> QED BY <1>14, <2>3, NamedContinued DEF CallNamed
<1>17. CASE ThrowNotify(u, Top.shield)
  BY <1>4, <1>14, <1>17, ThrowNotifyNamed DEF CallNamed
<1> QED BY <1>7, <1>15, <1>16, <1>17

\* The transport takes the rest of the name to the server at its other end.
LEMMA ForwardToTransportNamed ==
    ASSUME NamesInv, ForwardToTransport
    PROVE  CallNamed
<1>1. stack # << >> /\ Top.at = "route" /\ Top.h = Proxy /\ UNCHANGED current
  BY DEF ForwardToTransport, Running
<1>2. NameOK(Top, req)
  BY <1>1, TopNamed
<1>3. PICK u, r, name, shield : u = Front(stack) /\ r = Top.r /\ name = Top.name /\ shield = TRUE
  OBVIOUS
<1>4. NamedStack(u, req) /\ Send(u, r, name, ProxyTarget, shield)
  BY <1>1, <1>3, NamedPop DEF ForwardToTransport, NamesInv
<1>5. name \in Names /\ Routed(req[r].name, name, ProxyTarget) /\ ProxyTarget \in Servers \cup {Proxy}
  <2>1. Home(ProxyTarget) = Home(Proxy)
    BY DEF Home
  <2> QED BY <1>1, <1>2, <1>3, <2>1, StillRouted, ServersAssumption DEF NameOK
<1>6. NamedStack(stack', req)
  BY <1>4, <1>5, SendNamed
<1> QED BY <1>1, <1>6 DEF CallNamed, NamesInv, CurrentT

\* SendBatch sends a request under its own name.
LEMMA SendBatchStepNamed ==
    ASSUME NamesInv, SendBatchStep
    PROVE  CallNamed
<1>1. stack # << >> /\ Top.at = "batch" /\ Top.batch # EmptyBatch /\ UNCHANGED current
  BY DEF SendBatchStep, Running
<1>2. PICK n \in Nat : n = Len(stack) /\ n > 0 /\ Top = stack[n] /\ IsStack(stack)
  BY <1>1, TopFacts DEF NamesInv, AccountInv, CallsInv
<1>3. PICK b, u : b = Top.batch /\ u = Front(stack)
  OBVIOUS
<1>4. Sorted(b)
  BY <1>1, <1>3, TopNamed DEF FrameT
<1>5. b.methods # << >> \/ b.notifs # << >>
  <2>1. b = [methods |-> b.methods, notifs |-> b.notifs]
    BY <1>4 DEF Sorted, Batches
  <2> QED BY <1>1, <1>3, <2>1 DEF EmptyBatch
<1>6. PICK r, rest : TakesFirst(b, r, rest) /\ Send(Append(u, BatchFrame(rest)), r, req[r].name, Main, FALSE)
  <2>1. PICK r, rest :
            /\ r = IF b.methods # << >> THEN Head(b.methods) ELSE Head(b.notifs)
            /\ rest = IF b.methods # << >> THEN [b EXCEPT !.methods = Tail(b.methods)]
                                           ELSE [b EXCEPT !.notifs = Tail(b.notifs)]
    OBVIOUS
  <2>2. Send(Append(u, BatchFrame(rest)), r, req[r].name, Main, FALSE)
    BY <1>3, <2>1 DEF SendBatchStep
  <2> QED BY <1>5, <2>1, <2>2 DEF TakesFirst
<1>7. r \in Requests /\ InBatch(b, r) # {}
  BY <1>4, <1>6, RestIs
<1>8. r \in 1 .. Len(req)
  <2>1. Slot(stack, currentBatch, n, r) # {} /\ n \in 0 .. Len(stack)
    BY <1>1, <1>2, <1>3, <1>7 DEF Slot, Held
  <2>2. Acc(r)
    BY <1>7 DEF NamesInv, AccountInv
  <2> QED BY <2>1, <2>2 DEF Acc, Somewhere
<1>9. PICK name, shield, v : name = req[r].name /\ shield = FALSE /\ v = Append(u, BatchFrame(rest))
  OBVIOUS
<1>10. name \in Names /\ Routed(req[r].name, name, Main) /\ Main \in Servers \cup {Proxy}
  <2>1. name \in Names
    BY <1>8, <1>9 DEF NamesInv, RequestsOK, RequestSet
  <2> QED BY <1>9, <2>1, AllAhead, ServersAssumption
<1>11. NamedStack(v, req)
  <2>1. NamedStack(u, req)
    BY <1>1, <1>3, NamedPop DEF NamesInv
  <2>2. NameOK(BatchFrame(rest), req)
    BY DEF NameOK, BatchFrame
  <2> QED BY <1>9, <2>1, <2>2, NamedPush
<1>12. Send(v, r, name, Main, shield)
  BY <1>6, <1>9
<1>13. NamedStack(stack', req)
  BY <1>10, <1>11, <1>12, SendNamed
<1> QED BY <1>1, <1>13 DEF CallNamed, NamesInv, CurrentT

\* A handler returns.
LEMMA HandlerReturnsNamed ==
    ASSUME NamesInv, HandlerReturns
    PROVE  CallNamed
<1>1. stack # << >> /\ Top.at = "body" /\ UNCHANGED current
  BY DEF HandlerReturns, Running
<1>2. PICK f, u : f = Top /\ u = Front(stack)
  OBVIOUS
<1>3. FrameOK(f) /\ NameOK(f, req) /\ f.at = "body" /\ NamedStack(u, req)
  BY <1>1, <1>2, TopNamed, NamedPop DEF NamesInv
<1>4. CurrentT'
  BY <1>1 DEF NamesInv, CurrentT
<1>5. (\E a : AnswersInside(f, a)) \/ stack' = Append(u, Placed(f, "leave"))
  BY <1>2 DEF HandlerReturns, Placed
<1>6. ASSUME NEW a, AnswersInside(f, a) PROVE CallNamed
  BY <1>1, <1>3, <1>4, <1>6, AnswersInsideNamed
<1>7. CASE stack' = Append(u, Placed(f, "leave"))
  <2>1. NameOK(Placed(f, "leave"), req)
    BY <1>3, PlacedNamed
  <2>2. NamedStack(Append(u, Placed(f, "leave")), req)
    BY <1>3, <2>1, NamedPush
  <2> QED BY <1>4, <1>7, <2>2 DEF CallNamed
<1> QED BY <1>5, <1>6, <1>7

\* DoHandle, a continuation and SendBatch return.
LEMMA ReturnsNamed ==
    ASSUME NamesInv, Leave \/ CallbackReturns \/ BatchDone
    PROVE  CallNamed
<1>1. stack # << >> /\ stack' = Front(stack)
  BY DEF Leave, CallbackReturns, BatchDone, Running
<1>2. CurrentT'
  BY DEF Leave, LeaveContext, CallbackReturns, BatchDone, NamesInv, CurrentT
<1> QED BY <1>1, <1>2, NamedPop DEF CallNamed, NamesInv

\* An asynchronous handler answers.
LEMMA SettleNamed ==
    ASSUME NamesInv, NEW r \in Requests, Settle(r)
    PROVE  CallNamed
<1>1. stack = << >> /\ UNCHANGED current /\ stack' = Continuation(r)
  BY DEF Settle
<1>2. << >> \o Continuation(r) = Continuation(r)
  BY DEF Continuation
<1>3. stack' = stack \o Continuation(r)
  BY <1>1, <1>2
<1> QED BY <1>1, <1>3, NamedContinued DEF CallNamed, NamesInv, CurrentT

\* BatchGuard::Finish.
LEMMA FinishNamed ==
    ASSUME NamesInv, Finish
    PROVE  CallNamed
<1>1. UNCHANGED current /\ (stack' = Append(stack, BatchFrame(currentBatch)) \/ stack' = stack)
  BY DEF Finish
<1>2. NameOK(BatchFrame(currentBatch), req)
  BY DEF NameOK, BatchFrame
<1>3. NamedStack(Append(stack, BatchFrame(currentBatch)), req)
  BY <1>2, NamedPush DEF NamesInv
<1> QED BY <1>1, <1>3 DEF CallNamed, NamesInv, CurrentT

-----------------------------------------------------------------------------
\* New requests.

\* One more request: those that were made keep their names.
LEMMA MadeNamed ==
    ASSUME NamesInv, NEW q \in RequestSet, req' = Append(req, q), NEW r, r = Len(req) + 1
    PROVE  RequestsOK' /\ NamedStack(stack, req') /\ req'[r] = q
<1>1. /\ IsStack(req') /\ Len(req') = r /\ r \in Nat /\ req'[r] = q
      /\ \A x \in 1 .. Len(req) : req'[x] = req[x]
      /\ \A x \in 1 .. r : x \in 1 .. Len(req) \/ x = r
  BY Requested DEF NamesInv, AccountInv
<1>2. RequestsOK'
  BY <1>1 DEF NamesInv, RequestsOK
<1>3. PICK n, all : n = Len(req) /\ all = req'
  OBVIOUS
<1>4. \A j \in 1 .. Len(stack) : stack[j].at \in {"route", "body"} => stack[j].r \in 1 .. n
  BY <1>3 DEF NamesInv, AccountInv, Typed, FrameT
<1>5. NamedStack(stack, all)
  <2>1. (\A x \in 1 .. n : all[x] = req[x]) /\ NamedStack(stack, req)
    BY <1>1, <1>3 DEF NamesInv
  <2>2. PICK st, q0 : st = stack /\ q0 = req
    OBVIOUS
  <2>3. ASSUME NEW j \in 1 .. Len(st) PROVE NameOK(st[j], all)
    <3>1. NameOK(st[j], q0)
      BY <2>1, <2>2, <2>3 DEF NamedStack
    <3>2. st[j].at \in {"route", "body"} => all[st[j].r] = q0[st[j].r]
      BY <1>4, <2>1, <2>2, <2>3
    <3> QED BY <3>1, <3>2 DEF NameOK
  <2>4. IsStack(st) /\ \A j \in 1 .. Len(st) : NameOK(st[j], all)
    BY <2>1, <2>2, <2>3 DEF NamedStack
  <2> QED BY <2>2, <2>4 DEF NamedStack
<1> QED BY <1>1, <1>2, <1>3, <1>5

\* NotifyRaw and sendRequest: the name goes on with the prefix before it.
LEMMA RequestNamed ==
    ASSUME NamesInv, NEW p \in Profiles, Request(p)
    PROVE  RequestsOK' /\ NamedStack(stack', req') /\ CurrentT'
<1>1. PICK r, q : /\ r = Len(req) + 1
                  /\ q = [name |-> AddPref(p.name, prefix), notify |-> p.notify, params |-> p.params,
                          from |-> "client", during |-> Period]
  OBVIOUS
<1>2. req' = Append(req, q) /\ UNCHANGED current
  BY <1>1 DEF Request
<1>3. AddPref(p.name, prefix) \in Names
  <2>1. PICK K, base, pre, name : K = Parts /\ base = p.name /\ pre = prefix /\ name = AddPref(base, pre)
    OBVIOUS
  <2>2. Slash \in K
    BY <2>1 DEF Parts
  <2>3. base \in Seq(K) /\ IsName(base)
    BY <2>1, NamesAssumption
  <2>4. pre \in Seq(K) /\ IsName(pre)
    BY <2>1, NamesAssumption DEF NamesInv, SettingsOK
  <2>5. name \in Seq(K) /\ IsName(name)
    BY <2>1, <2>2, <2>3, <2>4, Prefixed
  <2> QED BY <2>1, <2>5 DEF Names
<1>4. q \in RequestSet
  <2>1. p.notify \in BOOLEAN /\ p.params \in {"array", "object"}
    BY NamesAssumption
  <2>2. Period \in Free .. WhileSending
    <3>1. batches \in 0 .. MaxBatches /\ MaxBatches \in Nat
      BY BoundsAssumption DEF NamesInv, AccountInv, CallsInv, BatchInv
    <3>2. Period \in {batches, WhileSending, Free}
      BY DEF Period
    <3> QED BY <3>1, <3>2 DEF Free, WhileSending
  <2> QED BY <1>1, <1>3, <2>1, <2>2 DEF RequestSet
<1>5. RequestsOK' /\ NamedStack(stack, req') /\ req'[r] = q
  BY <1>1, <1>2, <1>4, MadeNamed
<1>6. PICK ctx, shield, name : ctx = None /\ shield = FALSE /\ name = q.name
  OBVIOUS
<1>7. stack' = stack \/ stack' = Append(stack, HandleFrame(r, Main, name, ctx, shield))
  BY <1>1, <1>6 DEF Request
<1>8. NamedStack(stack', req')
  <2>1. PICK f, all : f = HandleFrame(r, Main, name, ctx, shield) /\ all = req'
    OBVIOUS
  <2>2. name \in Names /\ ctx \in Contexts /\ Main \in Servers \cup {Proxy}
    BY <1>4, <1>6, ServersAssumption DEF RequestSet, Contexts
  <2>3. Routed(all[r].name, name, Main)
    BY <1>5, <1>6, <2>1, <2>2, AllAhead
  <2>4. NameOK(f, all)
    BY <2>1, <2>2, <2>3, HandleNamed
  <2>5. NamedStack(Append(stack, f), all)
    BY <1>5, <2>1, <2>4, NamedPush
  <2> QED BY <1>5, <1>7, <2>1, <2>5
<1> QED BY <1>2, <1>5, <1>8 DEF NamesInv, CurrentT

\* handleServer: the name is read back from the message.
LEMMA ReceiveNamed ==
    ASSUME NamesInv, NEW p \in PeerProfiles, Receive(p)
    PROVE  RequestsOK' /\ NamedStack(stack', req') /\ CurrentT'
<1>1. PICK r, msg, u : /\ r = Len(req) + 1
                       /\ msg = IF p.notify THEN MakeNotify(Proto, p.name, p.params)
                                            ELSE MakeRequest(Proto, r, p.name, p.params)
                       /\ u = ReadRequest(Proto, msg)
  OBVIOUS
<1>2. /\ p.name \in Names /\ p.notify \in BOOLEAN /\ p.params \in {"array", "object"}
  BY NamesAssumption DEF Names
<1>3. u.method = p.name /\ u.notify = p.notify /\ u.params = p.params
  <2>1. Proto \in Protocols
    BY ServersAssumption
  <2>2. CASE p.notify
    <3>1. u = [method |-> p.name, notify |-> TRUE, params |-> p.params]
      BY <1>1, <2>1, <2>2, RequestReadBack
    <3> QED BY <2>2, <3>1
  <2>3. CASE ~p.notify
    <3>1. PICK m, a : m = p.name /\ a = p.params
      OBVIOUS
    <3>2. msg = MakeRequest(Proto, r, m, a)
      BY <1>1, <2>3, <3>1
    <3>3. ReadRequest(Proto, MakeRequest(Proto, r, m, a)) = [method |-> m, notify |-> FALSE, params |-> a]
      BY <2>1, RequestReadBack
    <3>4. u.method = m /\ u.notify = FALSE /\ u.params = a
      BY <1>1, <3>2, <3>3
    <3> QED BY <1>2, <2>3, <3>1, <3>4
  <2> QED BY <2>2, <2>3
<1>4. PICK q, shield, name : /\ shield = TRUE /\ name = p.name
           /\ q = [name |-> name, notify |-> p.notify, params |-> p.params, from |-> "peer", during |-> Free]
  OBVIOUS
<1>5. /\ stack = << >> /\ r \in Requests /\ UNCHANGED current
      /\ req' = Append(req, q) /\ stack' = <<HandleFrame(r, Main, name, r, shield)>>
  BY <1>1, <1>3, <1>4 DEF Receive
<1>6. q \in RequestSet
  <2>1. Free \in Free .. WhileSending
    BY BoundsAssumption DEF Free, WhileSending
  <2> QED BY <1>2, <1>4, <2>1 DEF RequestSet
<1>7. RequestsOK' /\ NamedStack(stack, req') /\ req'[r] = q
  BY <1>1, <1>5, <1>6, MadeNamed
<1>8. NamedStack(stack', req')
  <2>1. PICK f, all : f = HandleFrame(r, Main, name, r, shield) /\ all = req'
    OBVIOUS
  <2>2. name \in Names /\ r \in Contexts /\ Main \in Servers \cup {Proxy}
    BY <1>2, <1>4, <1>5, ServersAssumption DEF Contexts
  <2>3. Routed(all[r].name, name, Main)
    BY <1>4, <1>7, <2>1, <2>2, AllAhead
  <2>4. NameOK(f, all)
    BY <2>1, <2>2, <2>3, HandleNamed
  <2>5. NamedStack(Append(stack, f), all)
    BY <1>7, <2>1, <2>4, NamedPush
  <2>6. stack' = Append(stack, f)
    <3>1. Append(<< >>, f) = <<f>>
      OBVIOUS
    <3> QED BY <1>5, <2>1, <3>1
  <2> QED BY <2>1, <2>5, <2>6
<1> QED BY <1>5, <1>7, <1>8 DEF NamesInv, CurrentT

-----------------------------------------------------------------------------
\* The invariant.

\* User code changes one setting at a time, within what it may set.
LEMMA SettingsKept ==
    ASSUME NamesInv, Next
    PROVE  SettingsOK'
<1> USE DEF NamesInv, SettingsOK
<1>1. CASE StartBatch \/ Finish \/ SendBatchStep \/ BatchDone \/ ForwardToTransport \/ HandlerReturns
           \/ Leave \/ CallbackReturns \/ Idle
  BY <1>1 DEF StartBatch, Finish, SendBatchStep, BatchDone, ForwardToTransport, HandlerReturns, Leave,
              CallbackReturns, Idle, client, config, vars
<1>2. ASSUME NEW p, Request(p) \/ Receive(p) PROVE SettingsOK'
  BY <1>2 DEF Request, Receive, client, config
<1>3. ASSUME NEW r, Settle(r) PROVE SettingsOK'
  BY <1>3 DEF Settle, client, config
<1>4. CASE Forward \/ DoHandle \/ HandlerThrows
  <2>1. UNCHANGED <<batchActive, guard, connected, prefix, alive, routes, calls, fallback, changes>>
    BY <1>4 DEF Forward, DoHandle, HandlerThrows, config
  <2>2. failed' \in BOOLEAN
    <3>1. ASSUME NEW f, NEW e, Throws(f, e) PROVE failed' \in BOOLEAN
      BY <3>1 DEF Throws, ThrowNotify
    <3>2. CASE Forward
      BY <3>2 DEF Forward, ThrowNotify
    <3>3. CASE DoHandle
      BY <3>1, <3>3 DEF DoHandle, MiddlewareThrows, Extension, CallFound, NotFound, Enter
    <3>4. CASE HandlerThrows
      BY <3>1, <3>4 DEF HandlerThrows
    <3> QED BY <1>4, <3>2, <3>3, <3>4
  <2> QED BY <2>1, <2>2
<1>5. CASE Reconfigure
  <2>1. ASSUME Change PROVE changes' \in 0 .. MaxChanges
    BY <2>1, BoundsAssumption DEF Change
  <2>2. CASE SetTransport
    BY <2>1, <2>2 DEF SetTransport, Calm
  <2>3. ASSUME NEW p \in NamePrefixes, SetPrefix(p) PROVE SettingsOK'
    BY <2>1, <2>3 DEF SetPrefix, Calm
  <2>4. ASSUME NEW s \in Servers, SetFallback(s) \/ DestroyServer(s) PROVE SettingsOK'
    BY <2>1, <2>4 DEF SetFallback, DestroyServer, Calm
  <2>5. ASSUME NEW s \in Servers, NEW w \in DOMAIN Mounts[s], SetRoute(s, w) PROVE SettingsOK'
    BY <2>1, <2>5 DEF SetRoute, Calm
  <2>6. ASSUME NEW s \in Servers, NEW m \in DOMAIN Methods, RegisterCall(s, m) \/ Unregister(s, m)
        PROVE  SettingsOK'
    BY <2>1, <2>6 DEF RegisterCall, Unregister, Calm
  <2> QED BY <1>5, <2>2, <2>3, <2>4, <2>5, <2>6 DEF Reconfigure
<1> QED BY <1>1, <1>2, <1>3, <1>4, <1>5 DEF Next, Return, Handle

\* Nothing is asked for at first.
LEMMA InitNames == Init => NamesInv
<1> SUFFICES ASSUME Init PROVE NamesInv
  OBVIOUS
<1>1. AccountInv
  BY InitAccount
<1>2. IsStack(stack) /\ Len(stack) = 0 /\ Len(req) = 0
  BY EmptyStack DEF Init
<1>3. RequestsOK /\ NamedStack(stack, req)
  BY <1>2 DEF RequestsOK, NamedStack
<1>4. CurrentT
  BY DEF Init, CurrentT
<1>5. SettingsOK
  <2>1. << >> \in NamePrefixes /\ 0 \in 0 .. MaxChanges
    BY NamesAssumption, BoundsAssumption
  <2>2. DOMAIN routes = Servers /\ \A s \in Servers : routes[s] = DOMAIN Mounts[s]
    BY DEF Init
  <2>3. DOMAIN calls = Servers /\ \A s \in Servers : calls[s] \subseteq DOMAIN Methods
    BY RegisteredAssumption DEF Init
  <2>4. alive = Servers /\ fallback = {} /\ prefix = << >> /\ changes = 0
    BY DEF Init
  <2>5. batchActive \in BOOLEAN /\ guard \in BOOLEAN /\ connected \in BOOLEAN /\ failed \in BOOLEAN
    BY DEF Init
  <2> QED BY <2>1, <2>2, <2>3, <2>4, <2>5 DEF SettingsOK
<1> QED BY <1>1, <1>3, <1>4, <1>5 DEF NamesInv

\* Every step keeps the names.
LEMMA StepNames == NamesInv /\ [Next]_vars => NamesInv'
<1> SUFFICES ASSUME NamesInv, [Next]_vars PROVE NamesInv'
  OBVIOUS
<1>1. AccountInv'
  BY StepAccount DEF NamesInv
<1>2. SettingsOK'
  <2>1. CASE UNCHANGED vars
    BY <2>1 DEF NamesInv, SettingsOK, vars, client, config
  <2> QED BY <2>1, SettingsKept
<1>3. SUFFICES RequestsOK' /\ NamedStack(stack', req') /\ CurrentT'
  BY <1>1, <1>2 DEF NamesInv
<1>4. ASSUME CallNamed, UNCHANGED req PROVE RequestsOK' /\ NamedStack(stack', req') /\ CurrentT'
  BY <1>4 DEF CallNamed, NamesInv, RequestsOK
<1>5. ASSUME UNCHANGED <<req, stack, current>> PROVE RequestsOK' /\ NamedStack(stack', req') /\ CurrentT'
  BY <1>5 DEF NamesInv, RequestsOK, CurrentT
<1>6. CASE UNCHANGED vars \/ Idle
  BY <1>5, <1>6 DEF vars, Idle
<1>7. CASE StartBatch
  BY <1>5, <1>7 DEF StartBatch
<1>8. CASE Reconfigure
  <2>1. UNCHANGED <<req, stack, current>>
    BY <1>8 DEF Reconfigure, SetTransport, SetPrefix, SetFallback, DestroyServer, SetRoute, RegisterCall,
                Unregister, Calm
  <2> QED BY <1>5, <2>1
<1>9. ASSUME NEW p \in Profiles, Request(p) PROVE RequestsOK' /\ NamedStack(stack', req') /\ CurrentT'
  BY <1>9, RequestNamed
<1>10. ASSUME NEW p \in PeerProfiles, Receive(p) PROVE RequestsOK' /\ NamedStack(stack', req') /\ CurrentT'
  BY <1>10, ReceiveNamed
<1>11. ASSUME NEW r \in Requests, Settle(r) PROVE CallNamed /\ UNCHANGED req
  BY <1>11, SettleNamed DEF Settle
<1>12. CASE Finish
  BY <1>4, <1>12, FinishNamed DEF Finish
<1>13. CASE SendBatchStep
  BY <1>4, <1>13, SendBatchStepNamed DEF SendBatchStep
<1>14. CASE Leave \/ CallbackReturns \/ BatchDone
  <2>1. UNCHANGED req
    BY <1>14 DEF Leave, CallbackReturns, BatchDone
  <2> QED BY <1>4, <1>14, <2>1, ReturnsNamed
<1>15. CASE Forward
  BY <1>4, <1>15, ForwardNamed DEF Forward
<1>16. CASE ForwardToTransport
  BY <1>4, <1>16, ForwardToTransportNamed DEF ForwardToTransport
<1>17. CASE DoHandle
  BY <1>4, <1>17, DoHandleNamed DEF DoHandle
<1>18. CASE HandlerReturns
  BY <1>4, <1>18, HandlerReturnsNamed DEF HandlerReturns
<1>19. CASE HandlerThrows
  BY <1>4, <1>19, ThrowsNamed DEF HandlerThrows, Running
<1> QED BY <1>4, <1>6, <1>7, <1>8, <1>9, <1>10, <1>11, <1>12, <1>13, <1>14, <1>15, <1>16, <1>17, <1>18, <1>19
        DEF Next, Return, Handle

\* A handler's name is the one word that is left, and the words before it lead to
\* its server.
LEMMA InvIsRoutedByName == NamesInv => RoutedByName
<1> SUFFICES ASSUME NamesInv, NEW i \in DOMAIN stack, stack[i].at = "body"
             PROVE  LET words == Words(req[stack[i].r].name)
                    IN  /\ stack[i].name = <<Last(words)>>
                        /\ \E path \in [1 .. Len(words) -> Servers] :
                              /\ path[1] = Main /\ path[Len(words)] = stack[i].h
                              /\ \A n \in 1 .. Len(words) - 1 : Leads(path[n], words[n], path[n + 1])
  BY DEF RoutedByName
<1>1. PICK f, words : f = stack[i] /\ words = Words(req[f.r].name)
  OBVIOUS
<1>2. FrameOK(f) /\ NameOK(f, req)
  <2>1. i \in 1 .. Len(stack)
    BY StackLen DEF NamesInv, NamedStack
  <2> QED BY <1>1, <2>1 DEF NamesInv, NamedStack, AccountInv, CallsInv, ContextInv, StackOK, FramesOK
<1>3. /\ f.name \in Names /\ Len(f.name) = 1 /\ Words(f.name) = f.name
      /\ Routed(req[f.r].name, f.name, f.h) /\ Home(f.h) = f.h
  BY <1>1, <1>2, ServersAssumption DEF NameOK, FrameOK, Home
<1>4. PICK pre \in Seq(Parts) : words = pre \o f.name /\ Reaches(pre, f.h)
  BY <1>1, <1>3 DEF Routed
<1>5. PICK K, w, m : K = Parts /\ w = f.name[1] /\ m = Len(pre) /\ m \in Nat
  BY <1>4
<1>6. w \in K /\ f.name = <<w>> /\ pre \in Seq(K)
  <2>1. PICK name : name = f.name
    OBVIOUS
  <2>2. name \in Seq(K) /\ Len(name) = 1 /\ w = name[1]
    BY <1>3, <1>5, <2>1 DEF Names
  <2>3. w \in K
    BY <2>2, OneWord
  <2>4. PICK one : one = <<w>>
    OBVIOUS
  <2>5. one \in Seq(K) /\ Len(one) = 1 /\ one[1] = w
    BY <2>3, <2>4
  <2>6. \A n \in 1 .. 1 : name[n] = one[n]
    BY <2>2, <2>5
  <2>7. name = one
    BY <2>2, <2>5, <2>6, SeqEqual
  <2> QED BY <1>4, <1>5, <2>1, <2>3, <2>4, <2>7
<1>7. words = Append(pre, w)
  BY <1>4, <1>5, <1>6, WordMore
<1>8. Len(words) = m + 1 /\ words[m + 1] = w /\ \A n \in 1 .. m : words[n] = pre[n]
  BY <1>5, <1>6, <1>7, WordMore
<1>9. Last(words) = w
  BY <1>8 DEF Last
<1>10. PICK path \in [1 .. m + 1 -> Servers] :
          /\ path[1] = Main /\ path[m + 1] = f.h
          /\ \A n \in 1 .. m : Leads(path[n], pre[n], path[n + 1])
  BY <1>4, <1>5 DEF Reaches
<1>11. m + 1 - 1 = m
  BY <1>5
<1>12. \E p \in [1 .. Len(words) -> Servers] :
          /\ p[1] = Main /\ p[Len(words)] = f.h
          /\ \A n \in 1 .. Len(words) - 1 : Leads(p[n], words[n], p[n + 1])
  <2>1. path \in [1 .. Len(words) -> Servers] /\ path[1] = Main /\ path[Len(words)] = f.h
    BY <1>8, <1>10
  <2>2. ASSUME NEW n \in 1 .. Len(words) - 1 PROVE Leads(path[n], words[n], path[n + 1])
    <3>1. n \in 1 .. m
      BY <1>5, <1>8, <2>2
    <3> QED BY <1>8, <1>10, <3>1
  <2> QED BY <2>1, <2>2
<1> QED BY <1>1, <1>6, <1>9, <1>12

\* What the invariants say of the types.
LEMMA InvIsTypeOK == NamesInv => TypeOK
<1> SUFFICES ASSUME NamesInv PROVE TypeOK
  OBVIOUS
<1>1. AccountInv /\ CallsInv /\ ContextInv /\ Typed
  BY DEF NamesInv, AccountInv, CallsInv
<1>2. IsStack(req) /\ IsStack(stack) /\ DOMAIN req = 1 .. Len(req) /\ DOMAIN stack = 1 .. Len(stack)
  BY <1>1, StackLen DEF CallsInv, QueueInv, ContextInv, StackOK, FramesOK
<1>3. req \in Seq(RequestSet)
  <2>0. PICK S : req \in Seq(S)
    BY <1>2 DEF IsStack
  <2>1. PICK q, n : q = req /\ n = Len(req)
    OBVIOUS
  <2>2. q \in Seq(S) /\ n \in Nat /\ q = [x \in 1 .. n |-> q[x]]
    BY <2>0, <2>1
  <2>3. q \in [1 .. n -> RequestSet]
    BY <2>1, <2>2 DEF NamesInv, RequestsOK
  <2>4. PICK T : T = RequestSet
    OBVIOUS
  <2>5. q \in Seq(T)
    BY <2>2, <2>3, <2>4
  <2> QED BY <2>1, <2>4, <2>5
<1>4. req \in Seq([name : Seq(Parts), notify : BOOLEAN, params : {"array", "object"},
                   from : {"client", "peer"}, during : Free .. WhileSending])
  <2>1. PICK S : S = [name : Seq(Parts), notify : BOOLEAN, params : {"array", "object"},
                      from : {"client", "peer"}, during : Free .. WhileSending]
    OBVIOUS
  <2>2. RequestSet \subseteq S
    BY <2>1 DEF RequestSet, Names
  <2> QED BY <1>3, <2>1, <2>2, SeqMonotonic
<1>5. /\ answer \in [Requests -> Answers \cup {None}] /\ waiting \in [Requests -> Servers \cup {None}]
      /\ \A r \in Requests : wraps[r] \in Seq(Servers)
  BY <1>1 DEF Typed
<1>6. currentBatch \in Batches /\ batches \in 0 .. MaxBatches
  BY <1>1 DEF CallsInv, QueueInv, BatchInv
<1>7. rejected \subseteq Made
  BY <1>1, <1>2 DEF AccountInv, Typed, Acc, Made
<1>8. current \in [Servers -> Requests \cup {FallbackCtx, None}]
  <2>1. Contexts \cup {FallbackCtx} = Requests \cup {FallbackCtx, None}
    BY DEF Contexts
  <2> QED BY <2>1 DEF NamesInv, CurrentT
<1>9. \A i \in DOMAIN stack : stack[i].at \in {"batch", "route", "body", "leave", "callback"}
  BY <1>1, <1>2 DEF ContextInv, StackOK, FramesOK, FrameOK
<1>10. SettingsOK
  BY DEF NamesInv
<1> QED BY <1>4, <1>5, <1>6, <1>7, <1>8, <1>9, <1>10 DEF TypeOK, SettingsOK

\* addPref, the wire, sanitizeSlashes, tryRoute and IClientTransport: however a
\* name is slashed and prefixed, and whichever routes come and go, a handler is
\* called under the last word of the name that was asked for, at the server that
\* the words before it lead to.
THEOREM CallsRoutedByName == Spec => []RoutedByName
<1>1. Init => NamesInv
  BY InitNames
<1>2. NamesInv /\ [Next]_vars => NamesInv'
  BY StepNames
<1>3. NamesInv => RoutedByName
  BY InvIsRoutedByName
<1> QED BY <1>1, <1>2, <1>3, PTL DEF Spec

\* The state of a call is what TypeOK says.
THEOREM CallsTypeOK == Spec => []TypeOK
<1>1. Init => NamesInv
  BY InitNames
<1>2. NamesInv /\ [Next]_vars => NamesInv'
  BY StepNames
<1>3. NamesInv => TypeOK
  BY InvIsTypeOK
<1> QED BY <1>1, <1>2, <1>3, PTL DEF Spec

=============================================================================

---------------------------- MODULE RoutingProofs ----------------------------
(***************************************************************************)
(* Theorems about the names and messages of module Routing, for names of   *)
(* any length and for both protocols.                                      *)
(*                                                                         *)
(* sanitizeSlashes and Words are folds over the characters of a name, so   *)
(* the module starts with induction over the natural numbers and with the  *)
(* steps of a left fold over a sequence: what holds of the empty sequence  *)
(* and is kept by Append holds of every sequence.  SqueezedOK is what the  *)
(* loop of sanitizeSlashes keeps: the words so far are those of the part   *)
(* of the name that was read, single slashes are between them, and a slash *)
(* that was read but not written is remembered in lastSlash.               *)
(***************************************************************************)
EXTENDS Routing, SequenceTheorems, WellFoundedInduction, TLAPS

-----------------------------------------------------------------------------
\* Complete induction over the natural numbers, from the well-founded order of the
\* library.

\* A set of natural numbers has a least element.
LEMMA LeastElement ==
    ASSUME NEW T, T \subseteq Nat, T # {}
    PROVE  \E x \in T : \A y \in T : x <= y
<1>1. PICK R : R = OpToRel(<, Nat)
  OBVIOUS
<1>2. IsWellFoundedOn(R, Nat)
  BY <1>1, NatLessThanWellFounded
<1>3. \A a, b \in Nat : a < b => <<a, b>> \in R
  BY <1>1 DEF OpToRel
<1>4. PICK x \in T : \A y \in T : ~ (<<y, x>> \in R)
  BY <1>2, WFMin
<1>5. \A y \in T : ~(y < x)
  BY <1>3, <1>4
<1> QED BY <1>5

\* Induction on a set.
LEMMA Induction ==
    ASSUME NEW S, 0 \in S, \A n \in Nat : n \in S => n + 1 \in S
    PROVE  Nat \subseteq S
<1>1. PICK T : T = Nat \ S
  OBVIOUS
<1>2. SUFFICES ASSUME T # {} PROVE FALSE
  BY <1>1
<1>3. PICK x \in T : \A y \in T : x <= y
  BY <1>1, <1>2, LeastElement
<1>4. x \in Nat /\ x # 0
  BY <1>1, <1>3
<1>5. x - 1 \in Nat /\ ~(x <= x - 1) /\ (x - 1) + 1 = x
  BY <1>4
<1>6. x - 1 \in S
  BY <1>1, <1>3, <1>5
<1> QED BY <1>1, <1>3, <1>5, <1>6

-----------------------------------------------------------------------------
\* Folds from the left, with the step as a function.

\* Max of the library, for the subsets of 1 .. n.
LEMMA MaxIs ==
    ASSUME NEW n \in Nat, NEW s \in SUBSET (1 .. n), s # {}
    PROVE  /\ Max(s) \in s /\ Max(s) \in 1 .. n /\ (\A y \in s : y <= Max(s))
           /\ s \ {Max(s)} \in SUBSET (1 .. Max(s) - 1)
<1>1. PICK T : T = {n - y : y \in s}
  OBVIOUS
<1>2. \A y \in s : y \in 1 .. n /\ n - y \in Nat
  OBVIOUS
<1>3. T \subseteq Nat /\ T # {}
  BY <1>1, <1>2
<1>4. PICK t \in T : \A y \in T : t <= y
  BY <1>3, LeastElement
<1>5. PICK x \in s : t = n - x
  BY <1>1, <1>4
<1>6. \A y \in s : y <= x
  <2> TAKE y \in s
  <2>1. n - x <= n - y
    BY <1>1, <1>4, <1>5
  <2> QED BY <1>2, <1>5, <2>1
<1>7. Max(s) \in s /\ \A y \in s : Max(s) >= y
  BY <1>2, <1>5, <1>6 DEF Max
<1>8. PICK z : z = Max(s)
  OBVIOUS
<1>9. z \in s /\ z \in 1 .. n /\ \A y \in s : y \in 1 .. n /\ z >= y
  BY <1>2, <1>7, <1>8
<1>10. s \ {z} \in SUBSET (1 .. z - 1)
  <2>1. ASSUME NEW y \in s, y # z PROVE y \in 1 .. z - 1
    <3>1. y \in 1 .. n /\ z \in 1 .. n /\ z >= y
      BY <1>9
    <3> QED BY <2>1, <3>1
  <2> QED BY <2>1
<1>11. \A y \in s : y <= z
  <2> TAKE y \in s
  <2>1. y \in 1 .. n /\ z \in 1 .. n /\ z >= y
    BY <1>9
  <2> QED BY <2>1
<1> QED BY <1>8, <1>9, <1>10, <1>11

IsLeftFold(g, n, hs, e, step) ==
    \A s \in SUBSET (1 .. n) : g[s] = IF s = {} THEN e ELSE step[<<g[s \ {Max(s)}], hs[Max(s)]>>]

HasLeftFold(C, n, hs, e, step) == \E g \in [SUBSET (1 .. n) -> C] : IsLeftFold(g, n, hs, e, step)

\* MapThenFoldSet over 1 .. m is the end of such a function.
LEMMA LeftFoldExists ==
    ASSUME NEW K, NEW C, NEW m \in Nat, NEW hs, \A i \in 1 .. m : hs[i] \in K, NEW e \in C, NEW step \in [C \X K -> C]
    PROVE  HasLeftFold(C, m, hs, e, step)
<1>1. PICK S : S = {n \in Nat : n <= m => HasLeftFold(C, n, hs, e, step)}
  OBVIOUS
<1>2. 0 \in S
  <2>1. PICK g : g = [s \in SUBSET (1 .. 0) |-> e]
    OBVIOUS
  <2>2. \A s \in SUBSET (1 .. 0) : s = {}
    OBVIOUS
  <2>3. g \in [SUBSET (1 .. 0) -> C] /\ IsLeftFold(g, 0, hs, e, step)
    BY <2>1, <2>2 DEF IsLeftFold
  <2> QED BY <1>1, <2>3 DEF HasLeftFold
<1>3. ASSUME NEW n \in Nat, n \in S PROVE n + 1 \in S
  <2>1. SUFFICES ASSUME n + 1 <= m PROVE HasLeftFold(C, n + 1, hs, e, step)
    BY <1>1
  <2>2. PICK g \in [SUBSET (1 .. n) -> C] : IsLeftFold(g, n, hs, e, step)
    <3>1. n <= m
      BY <2>1
    <3> QED BY <1>1, <1>3, <3>1 DEF HasLeftFold
  <2>3. PICK D, E : D = SUBSET (1 .. n) /\ E = SUBSET (1 .. n + 1)
    OBVIOUS
  <2>4. D \subseteq E /\ \A s \in E : s # {} => Max(s) \in 1 .. m /\ s \ {Max(s)} \in D
    <3>1. D \subseteq E
      BY <2>3
    <3>2. ASSUME NEW s \in E, s # {} PROVE Max(s) \in 1 .. m /\ s \ {Max(s)} \in D
      <4>1. n + 1 \in Nat /\ s \in SUBSET (1 .. n + 1)
        BY <2>3
      <4>2. Max(s) \in 1 .. n + 1 /\ s \ {Max(s)} \in SUBSET (1 .. Max(s) - 1)
        BY <3>2, <4>1, MaxIs
      <4>3. PICK z : z = Max(s)
        OBVIOUS
      <4>4. z \in 1 .. m /\ 1 .. z - 1 \subseteq 1 .. n
        BY <2>1, <4>2, <4>3
      <4> QED BY <2>3, <4>2, <4>3, <4>4
    <3> QED BY <3>1, <3>2
  <2>5. PICK f : f = [s \in E |-> IF s = {} THEN e ELSE step[<<g[s \ {Max(s)}], hs[Max(s)]>>]]
    OBVIOUS
  <2>6. f \in [E -> C]
    <3>1. ASSUME NEW s \in E PROVE (IF s = {} THEN e ELSE step[<<g[s \ {Max(s)}], hs[Max(s)]>>]) \in C
      <4>1. CASE s # {}
        <5>1. g[s \ {Max(s)}] \in C /\ hs[Max(s)] \in K
          BY <2>2, <2>3, <2>4, <4>1
        <5> QED BY <4>1, <5>1
      <4> QED BY <4>1
    <3> QED BY <2>5, <3>1
  <2>7. \A s \in D : f[s] = g[s]
    BY <2>2, <2>3, <2>4, <2>5 DEF IsLeftFold
  <2>8. ASSUME NEW s \in E PROVE f[s] = IF s = {} THEN e ELSE step[<<f[s \ {Max(s)}], hs[Max(s)]>>]
    <3>1. CASE s # {}
      <4>1. f[s \ {Max(s)}] = g[s \ {Max(s)}]
        BY <2>4, <2>7, <3>1
      <4> QED BY <2>5, <3>1, <4>1
    <3> QED BY <2>5, <3>1
  <2> QED BY <2>3, <2>6, <2>8 DEF IsLeftFold, HasLeftFold
<1>4. m \in S
  BY <1>2, <1>3, Induction
<1> QED BY <1>1, <1>4

\* The results of such a fold after each element.
IsRun(h, m, hs, e, step, C) ==
    /\ h \in [0 .. m -> C] /\ h[0] = e
    /\ \A n \in 0 .. m : n + 1 <= m => h[n + 1] = step[<<h[n], hs[n + 1]>>]

RunsTo(res, m, hs, e, step, C) == \E h : IsRun(h, m, hs, e, step, C) /\ res = h[m]

\* g is the fold wherever its values stay in C.
Follows(g, m, hs, step, C) ==
    \A s \in SUBSET (1 .. m) : s # {} /\ g[s \ {Max(s)}] \in C => g[s] = step[<<g[s \ {Max(s)}], hs[Max(s)]>>]

LEMMA RunIs ==
    ASSUME NEW K, NEW C, NEW hs \in Seq(K), NEW m, m = Len(hs), NEW e \in C, NEW step \in [C \X K -> C],
           NEW g, g[{}] = e, Follows(g, m, hs, step, C)
    PROVE  RunsTo(g[1 .. m], m, hs, e, step, C)
<1>0. m \in Nat /\ \A i \in 1 .. m : hs[i] \in K
  OBVIOUS
<1>1. ASSUME NEW n \in Nat, n + 1 <= m, g[1 .. n] \in C
      PROVE  g[1 .. n + 1] = step[<<g[1 .. n], hs[n + 1]>>] /\ g[1 .. n + 1] \in C
  <2>1. PICK s : s = 1 .. n + 1
    OBVIOUS
  <2>2. s \in SUBSET (1 .. m) /\ s # {} /\ s \in SUBSET (1 .. n + 1) /\ n + 1 \in s /\ n + 1 \in Nat
    <3>1. n + 1 \in 1 .. n + 1 /\ n + 1 \in Nat /\ \A y \in 1 .. n + 1 : y \in 1 .. m
      BY <1>0, <1>1
    <3> QED BY <2>1, <3>1
  <2>3. PICK z : z = Max(s)
    OBVIOUS
  <2>4. z \in s /\ z \in 1 .. n + 1 /\ \A y \in s : y <= z
    BY <2>2, <2>3, MaxIs
  <2>5. z = n + 1
    BY <2>1, <2>2, <2>4
  <2>6. s \ {z} = 1 .. n
    BY <2>1, <2>5
  <2>7. g[s] = step[<<g[1 .. n], hs[n + 1]>>]
    BY <1>1, <2>2, <2>3, <2>5, <2>6 DEF Follows
  <2>8. hs[n + 1] \in K
    BY <1>0, <1>1
  <2> QED BY <1>1, <2>1, <2>7, <2>8
<1>2. PICK S : S = {n \in Nat : n <= m => g[1 .. n] \in C}
  OBVIOUS
<1>3. 0 \in S
  <2>1. 1 .. 0 = {}
    OBVIOUS
  <2> QED BY <1>2, <2>1
<1>4. \A n \in Nat : n \in S => n + 1 \in S
  <2> SUFFICES ASSUME NEW n \in Nat, n \in S, n + 1 <= m PROVE g[1 .. n + 1] \in C
    BY <1>2
  <2>1. n <= m
    BY <1>0
  <2> QED BY <1>1, <1>2, <2>1
<1>5. \A n \in 0 .. m : g[1 .. n] \in C
  <2>1. Nat \subseteq S
    BY <1>3, <1>4, Induction
  <2> QED BY <1>0, <1>2, <2>1
<1>6. PICK h : h = [n \in 0 .. m |-> g[1 .. n]]
  OBVIOUS
<1>7. h \in [0 .. m -> C] /\ h[m] = g[1 .. m]
  BY <1>0, <1>5, <1>6
<1>8. h[0] = e
  <2>1. 1 .. 0 = {}
    OBVIOUS
  <2> QED BY <1>0, <1>6, <2>1
<1>9. ASSUME NEW n \in 0 .. m, n + 1 <= m PROVE h[n + 1] = step[<<h[n], hs[n + 1]>>]
  <2>1. n \in Nat /\ n + 1 \in 0 .. m
    BY <1>0, <1>9
  <2>2. h[n] = g[1 .. n] /\ h[n + 1] = g[1 .. n + 1]
    BY <1>6, <2>1
  <2> QED BY <1>1, <1>5, <1>9, <2>1, <2>2
<1> QED BY <1>7, <1>8, <1>9 DEF IsRun, RunsTo

\* One more element is one more step.
LEMMA RunsOn ==
    ASSUME NEW C, NEW e, NEW step, NEW m \in Nat, NEW hs, NEW ks, \A i \in 1 .. m : hs[i] = ks[i],
           NEW a, RunsTo(a, m, hs, e, step, C), NEW b, RunsTo(b, m + 1, ks, e, step, C)
    PROVE  a \in C /\ b = step[<<a, ks[m + 1]>>]
<1>1. PICK h : IsRun(h, m, hs, e, step, C) /\ a = h[m]
  BY DEF RunsTo
<1>2. PICK j : IsRun(j, m + 1, ks, e, step, C) /\ b = j[m + 1]
  BY DEF RunsTo
<1>3. PICK S : S = {n \in Nat : n <= m => h[n] = j[n]}
  OBVIOUS
<1>4. 0 \in S
  BY <1>1, <1>2, <1>3 DEF IsRun
<1>5. \A n \in Nat : n \in S => n + 1 \in S
  <2> SUFFICES ASSUME NEW n \in Nat, n \in S, n + 1 <= m PROVE h[n + 1] = j[n + 1]
    BY <1>3
  <2>1. n \in 0 .. m /\ n \in 0 .. m + 1 /\ n + 1 \in 1 .. m /\ n + 1 <= m + 1 /\ n <= m
    OBVIOUS
  <2>2. h[n + 1] = step[<<h[n], hs[n + 1]>>] /\ j[n + 1] = step[<<j[n], ks[n + 1]>>]
    BY <1>1, <1>2, <2>1 DEF IsRun
  <2> QED BY <1>3, <2>1, <2>2
<1>6. h[m] = j[m]
  <2>1. Nat \subseteq S
    BY <1>4, <1>5, Induction
  <2> QED BY <1>3, <2>1
<1>7. m \in 0 .. m /\ m \in 0 .. m + 1 /\ m + 1 <= m + 1
  OBVIOUS
<1> QED BY <1>1, <1>2, <1>6, <1>7 DEF IsRun

\* Induction over sequences that are built from the left.
LEMMA BuiltUp ==
    ASSUME NEW K, NEW T, << >> \in T, \A s \in Seq(K), c \in K : s \in T => Append(s, c) \in T
    PROVE  Seq(K) \subseteq T
<1>1. PICK S : S = {n \in Nat : \A s \in Seq(K) : Len(s) = n => s \in T}
  OBVIOUS
<1>2. 0 \in S
  BY <1>1, EmptySeq
<1>3. ASSUME NEW n \in Nat, n \in S PROVE n + 1 \in S
  <2> SUFFICES ASSUME NEW s \in Seq(K), Len(s) = n + 1 PROVE s \in T
    BY <1>1
  <2>1. s # << >>
    BY EmptySeq
  <2>2. PICK u \in Seq(K), c \in K : s = Append(u, c)
    BY <2>1, SequenceEmptyOrAppend
  <2>3. Len(u) = n
    BY <2>2
  <2> QED BY <1>1, <1>3, <2>2, <2>3
<1>4. Nat \subseteq S
  BY <1>2, <1>3, Induction
<1> QED BY <1>1, <1>4

-----------------------------------------------------------------------------
\* The words of a name.

Wording(K) == [p \in Seq(K) \X K |-> AddWord(p[1], p[2])]
IsWording(g, name) ==
    g = [s \in SUBSET DOMAIN name |-> IF s = {} THEN << >> ELSE AddWord(g[s \ {Max(s)}], name[Max(s)])]

\* Words are collected one by one.
LEMMA WordsRun ==
    ASSUME NEW K, NEW name \in Seq(K)
    PROVE  RunsTo(Words(name), Len(name), name, << >>, Wording(K), Seq(K))
<1>1. PICK g0 : g0 = CHOOSE g : IsWording(g, name)
  OBVIOUS
<1>2. Words(name) = g0[DOMAIN name]
  <2>1. Words(name) = (CHOOSE g : IsWording(g, name))[DOMAIN name]
    BY Zenon DEF Words, FoldLeft, MapThenFoldSet, IsWording
  <2> QED BY <1>1, <2>1
<1>3. PICK m \in Nat : m = Len(name)
  OBVIOUS
<1>4. DOMAIN name = 1 .. m /\ (\A i \in 1 .. m : name[i] \in K) /\ << >> \in Seq(K)
  BY <1>3
<1>5. PICK C, step : C = Seq(K) /\ step = Wording(K)
  OBVIOUS
<1>6. \A w \in C, c \in K : AddWord(w, c) \in C /\ step[<<w, c>>] = AddWord(w, c)
  BY <1>5 DEF Wording, AddWord
<1>7. step \in [C \X K -> C]
  <2>1. ASSUME NEW p \in C \X K PROVE AddWord(p[1], p[2]) \in C
    BY <1>6
  <2> QED BY <1>5, <2>1 DEF Wording
<1>8. PICK g1 \in [SUBSET (1 .. m) -> C] : IsLeftFold(g1, m, name, << >>, step)
  BY <1>4, <1>5, <1>7, LeftFoldExists DEF HasLeftFold
<1>9. IsWording(g1, name)
  <2>1. ASSUME NEW s \in SUBSET (1 .. m) PROVE g1[s] = IF s = {} THEN << >> ELSE AddWord(g1[s \ {Max(s)}], name[Max(s)])
    <3>1. CASE s # {}
      <4>1. Max(s) \in 1 .. m /\ s \ {Max(s)} \in SUBSET (1 .. m)
        BY <3>1, MaxIs
      <4>2. name[Max(s)] \in K /\ g1[s \ {Max(s)}] \in C
        BY <1>4, <1>8, <4>1
      <4>3. g1[s] = step[<<g1[s \ {Max(s)}], name[Max(s)]>>]
        BY <1>8, <3>1 DEF IsLeftFold
      <4> QED BY <1>6, <3>1, <4>2, <4>3
    <3> QED BY <1>8, <3>1 DEF IsLeftFold
  <2> QED BY <1>4, <1>8, <2>1 DEF IsWording
<1>10. IsWording(g0, name)
  BY <1>1, <1>9
<1>11. \A s \in SUBSET (1 .. m) : g0[s] = IF s = {} THEN << >> ELSE AddWord(g0[s \ {Max(s)}], name[Max(s)])
  BY <1>4, <1>10 DEF IsWording
<1>12. g0[{}] = << >>
  BY <1>11
<1>13. ASSUME NEW s \in SUBSET (1 .. m), s # {}, g0[s \ {Max(s)}] \in C
       PROVE  g0[s] = step[<<g0[s \ {Max(s)}], name[Max(s)]>>]
  <2>1. name[Max(s)] \in K
    BY <1>4, <1>13, MaxIs
  <2> QED BY <1>6, <1>11, <1>13, <2>1
<1>14. PICK e : e = << >>
  OBVIOUS
<1>15. RunsTo(g0[1 .. m], m, name, e, step, C)
  <2>1. e \in C /\ g0[{}] = e
    BY <1>4, <1>5, <1>12, <1>14
  <2>2. Follows(g0, m, name, step, C)
    BY <1>13 DEF Follows
  <2> QED BY <1>3, <1>7, <2>1, <2>2, RunIs
<1> QED BY <1>2, <1>3, <1>4, <1>5, <1>14, <1>15

LEMMA WordsAre ==
    ASSUME NEW K
    PROVE  /\ Words(<< >>) = << >>
           /\ \A s \in Seq(K), c \in K : Words(Append(s, c)) = AddWord(Words(s), c)
           /\ \A s \in Seq(K) : Words(s) \in Seq(K \ {Slash})
<1>1. Words(<< >>) = << >>
  <2>1. PICK s : s = << >>
    OBVIOUS
  <2>2. s \in Seq(K) /\ Len(s) = 0
    BY <2>1
  <2>3. RunsTo(Words(s), 0, s, << >>, Wording(K), Seq(K))
    BY <2>2, WordsRun
  <2> QED BY <2>1, <2>3 DEF RunsTo, IsRun
<1>2. ASSUME NEW s \in Seq(K), NEW c \in K PROVE Words(Append(s, c)) = AddWord(Words(s), c)
  <2>1. PICK t : t = Append(s, c)
    OBVIOUS
  <2>2. PICK m \in Nat : m = Len(s)
    OBVIOUS
  <2>3. t \in Seq(K) /\ Len(t) = m + 1 /\ t[m + 1] = c /\ \A i \in 1 .. m : s[i] = t[i]
    BY <2>1, <2>2, AppendProperties
  <2>4. PICK C, step, e, a, b : C = Seq(K) /\ step = Wording(K) /\ e = << >> /\ a = Words(s) /\ b = Words(t)
    OBVIOUS
  <2>5. RunsTo(a, m, s, e, step, C) /\ RunsTo(b, m + 1, t, e, step, C)
    BY <2>2, <2>3, <2>4, WordsRun
  <2>6. a \in C /\ b = step[<<a, t[m + 1]>>]
    BY <2>2, <2>3, <2>5, RunsOn
  <2> QED BY <2>1, <2>3, <2>4, <2>6 DEF Wording
<1>3. ASSUME NEW s \in Seq(K) PROVE Words(s) \in Seq(K \ {Slash})
  <2>1. PICK T : T = {t \in Seq(K) : Words(t) \in Seq(K \ {Slash})}
    OBVIOUS
  <2>2. << >> \in T
    <3>1. << >> \in Seq(K) /\ << >> \in Seq(K \ {Slash})
      OBVIOUS
    <3> QED BY <1>1, <2>1, <3>1
  <2>3. ASSUME NEW t \in Seq(K), NEW c \in K, t \in T PROVE Append(t, c) \in T
    <3>1. Words(t) \in Seq(K \ {Slash})
      BY <2>1, <2>3
    <3>2. AddWord(Words(t), c) \in Seq(K \ {Slash})
      BY <3>1 DEF AddWord
    <3> QED BY <1>2, <2>1, <3>2
  <2> QED BY <2>1, <2>2, <2>3, BuiltUp
<1> QED BY <1>1, <1>2, <1>3

\* The words of two names, one after the other.
LEMMA WordsConcat ==
    ASSUME NEW K, NEW s \in Seq(K), NEW t \in Seq(K)
    PROVE  Words(s \o t) = Words(s) \o Words(t)
<1>1. PICK T : T = {u \in Seq(K) : Words(s \o u) = Words(s) \o Words(u)}
  OBVIOUS
<1>2. << >> \in T
  <2>1. << >> \in Seq(K) /\ s \o << >> = s /\ Words(s) \o << >> = Words(s)
    BY WordsAre, ConcatEmptySeq
  <2> QED BY <1>1, <2>1, WordsAre
<1>3. ASSUME NEW u \in Seq(K), NEW c \in K, u \in T PROVE Append(u, c) \in T
  <2>1. s \o Append(u, c) = Append(s \o u, c) /\ s \o u \in Seq(K) /\ Append(u, c) \in Seq(K)
    <3>1. /\ Append(u, c) = u \o <<c>> /\ <<c>> \in Seq(K) /\ s \o u \in Seq(K)
          /\ Append(s \o u, c) = (s \o u) \o <<c>>
      BY AppendIsConcat, ConcatProperties
    <3> QED BY <3>1, ConcatAssociative, AppendProperties
  <2>2. PICK v, x, y : v = s \o u /\ x = Words(s) /\ y = Words(u)
    OBVIOUS
  <2>3. Words(v) = x \o y /\ v \in Seq(K)
    BY <1>1, <1>3, <2>1, <2>2
  <2>4. Words(Append(v, c)) = AddWord(x \o y, c) /\ Words(Append(u, c)) = AddWord(y, c)
    BY <2>2, <2>3, WordsAre
  <2>5. AddWord(x \o y, c) = x \o AddWord(y, c)
    <3>1. x \in Seq(K \ {Slash}) /\ y \in Seq(K \ {Slash})
      BY <2>2, WordsAre
    <3>2. CASE c = Slash
      BY <3>2 DEF AddWord
    <3>3. CASE c # Slash
      <4>1. <<c>> \in Seq(K \ {Slash}) /\ c \in K \ {Slash} /\ x \o y \in Seq(K \ {Slash})
        BY <3>1, <3>3, ConcatProperties
      <4>2. Append(x \o y, c) = (x \o y) \o <<c>> /\ Append(y, c) = y \o <<c>>
        BY <3>1, <4>1, AppendIsConcat
      <4>3. (x \o y) \o <<c>> = x \o (y \o <<c>>)
        BY <3>1, <4>1, ConcatAssociative
      <4> QED BY <3>3, <4>2, <4>3 DEF AddWord
    <3> QED BY <3>2, <3>3
  <2> QED BY <1>1, <2>1, <2>2, <2>4, <2>5
<1>4. t \in T
  BY <1>2, <1>3, BuiltUp
<1> QED BY <1>1, <1>4

\* Two characters.
LEMMA PairIs ==
    ASSUME NEW K, NEW c \in K, NEW d \in K
    PROVE  Append(<<c>>, d) = <<c, d>> /\ <<c>> \o <<d>> = <<c, d>>
<1>1. PICK u, v : u = <<c>> /\ v = Append(u, d)
  OBVIOUS
<1>2. u \in Seq(K) /\ Len(u) = 1 /\ u[1] = c
  BY <1>1
<1>3. v \in Seq(K) /\ Len(v) = Len(u) + 1 /\ v[Len(u) + 1] = d /\ \A i \in 1 .. Len(u) : v[i] = u[i]
  BY <1>1, <1>2, AppendProperties
<1>4. Len(v) = 2 /\ v[1] = c /\ v[2] = d
  BY <1>2, <1>3
<1>5. PICK w : w = <<c, d>>
  OBVIOUS
<1>6. w \in Seq(K) /\ Len(w) = 2 /\ w[1] = c /\ w[2] = d
  BY <1>5
<1>7. \A i \in 1 .. Len(v) : v[i] = w[i]
  BY <1>4, <1>6
<1>8. v = w
  BY <1>3, <1>4, <1>6, <1>7, SeqEqual
<1>9. Append(u, d) = u \o <<d>>
  BY <1>2, AppendIsConcat
<1> QED BY <1>1, <1>5, <1>8, <1>9

\* The words of short names.
LEMMA WordsShort ==
    ASSUME NEW K, NEW c \in K, NEW d \in K
    PROVE  Words(<<c>>) = AddWord(<< >>, c) /\ Words(<<c, d>>) = AddWord(AddWord(<< >>, c), d)
<1>1. PICK e : e = << >>
  OBVIOUS
<1>2. e \in Seq(K) /\ Words(e) = e
  <2>1. e \in Seq(K)
    BY <1>1
  <2>2. Words(<< >>) = << >>
    BY WordsAre
  <2> QED BY <1>1, <2>1, <2>2
<1>3. PICK u, v : u = Append(e, c) /\ v = Append(u, d)
  OBVIOUS
<1>4. u \in Seq(K) /\ u = <<c>>
  <2>1. u = e \o <<c>> /\ <<c>> \in Seq(K)
    BY <1>2, <1>3, AppendIsConcat
  <2>2. e \o <<c>> = <<c>>
    BY <1>1, <2>1, ConcatEmptySeq
  <2> QED BY <2>1, <2>2
<1>5. v = <<c, d>>
  BY <1>3, <1>4, PairIs
<1>6. Words(u) = AddWord(e, c)
  BY <1>2, <1>3, WordsAre
<1>7. Words(v) = AddWord(Words(u), d)
  BY <1>3, <1>4, WordsAre
<1> QED BY <1>1, <1>4, <1>5, <1>6, <1>7

-----------------------------------------------------------------------------
\* sanitizeSlashes.

Unsqueezed == [storage |-> << >>, lastSlash |-> FALSE]
Squeezed(name) == FoldLeft(SanitizeStep, Unsqueezed, name)
Outputs(K) == [storage : Seq(K), lastSlash : BOOLEAN]
Squeezing(K) == [p \in Outputs(K) \X K |-> SanitizeStep(p[1], p[2])]
IsSqueezing(g, name) ==
    g = [s \in SUBSET DOMAIN name |-> IF s = {} THEN Unsqueezed ELSE SanitizeStep(g[s \ {Max(s)}], name[Max(s)])]

\* A step writes a slash and a word, a word, or nothing.
LEMMA StepIs ==
    ASSUME NEW K, Slash \in K, NEW o \in Outputs(K), NEW c \in K
    PROVE  /\ SanitizeStep(o, c) \in Outputs(K)
           /\ SanitizeStep(o, c).lastSlash <=> c = Slash
           /\ c = Slash => SanitizeStep(o, c).storage = o.storage
           /\ c # Slash => SanitizeStep(o, c).storage =
                              IF o.lastSlash THEN Append(Append(o.storage, Slash), c) ELSE Append(o.storage, c)
<1>1. PICK t : t = o.storage
  OBVIOUS
<1>2. t \in Seq(K) /\ o.lastSlash \in BOOLEAN
  BY <1>1 DEF Outputs
<1>3. CASE c = Slash
  <2>1. SanitizeStep(o, c) = [o EXCEPT !.lastSlash = TRUE]
    BY <1>3 DEF SanitizeStep
  <2>2. [o EXCEPT !.lastSlash = TRUE] \in Outputs(K)
    BY DEF Outputs
  <2> QED BY <1>3, <2>1, <2>2 DEF Outputs
<1>4. CASE c # Slash
  <2>1. PICK new : new = t \o (IF o.lastSlash THEN <<Slash, c>> ELSE <<c>>)
    OBVIOUS
  <2>2. SanitizeStep(o, c) = [storage |-> new, lastSlash |-> FALSE]
    BY <1>1, <1>4, <2>1 DEF SanitizeStep
  <2>3. new = (IF o.lastSlash THEN Append(Append(t, Slash), c) ELSE Append(t, c)) /\ new \in Seq(K)
    <3>1. CASE ~o.lastSlash
      BY <1>2, <2>1, <3>1, AppendIsConcat, AppendProperties
    <3>2. CASE o.lastSlash
      <4>1. /\ Append(t, Slash) = t \o <<Slash>> /\ Append(t, Slash) \in Seq(K)
            /\ Append(Append(t, Slash), c) = Append(t, Slash) \o <<c>> /\ Append(Append(t, Slash), c) \in Seq(K)
        BY <1>2, AppendIsConcat, AppendProperties
      <4>2. <<Slash>> \in Seq(K) /\ <<c>> \in Seq(K)
        OBVIOUS
      <4>3. (t \o <<Slash>>) \o <<c>> = t \o (<<Slash>> \o <<c>>)
        BY <1>2, <4>2, ConcatAssociative
      <4>4. <<Slash>> \o <<c>> = <<Slash, c>>
        BY PairIs
      <4> QED BY <2>1, <3>2, <4>1, <4>3, <4>4
    <3> QED BY <3>1, <3>2
  <2> QED BY <1>1, <1>4, <2>2, <2>3 DEF Outputs
<1> QED BY <1>3, <1>4

\* A name is squeezed character by character.
LEMMA SqueezedRun ==
    ASSUME NEW K, Slash \in K, NEW name \in Seq(K)
    PROVE  RunsTo(Squeezed(name), Len(name), name, Unsqueezed, Squeezing(K), Outputs(K))
<1>1. PICK g0 : g0 = CHOOSE g : IsSqueezing(g, name)
  OBVIOUS
<1>2. Squeezed(name) = g0[DOMAIN name]
  <2>1. Squeezed(name) = (CHOOSE g : IsSqueezing(g, name))[DOMAIN name]
    BY Zenon DEF Squeezed, FoldLeft, MapThenFoldSet, IsSqueezing
  <2> QED BY <1>1, <2>1
<1>3. PICK m \in Nat : m = Len(name)
  OBVIOUS
<1>4. PICK e : e = Unsqueezed
  OBVIOUS
<1>5. DOMAIN name = 1 .. m /\ (\A i \in 1 .. m : name[i] \in K) /\ e \in Outputs(K)
  BY <1>3, <1>4 DEF Unsqueezed, Outputs
<1>6. PICK C, step : C = Outputs(K) /\ step = Squeezing(K)
  OBVIOUS
<1>7. \A o \in C, c \in K : SanitizeStep(o, c) \in C /\ step[<<o, c>>] = SanitizeStep(o, c)
  BY <1>6, StepIs DEF Squeezing
<1>8. step \in [C \X K -> C]
  <2>1. ASSUME NEW p \in C \X K PROVE SanitizeStep(p[1], p[2]) \in C
    BY <1>7
  <2> QED BY <1>6, <2>1 DEF Squeezing
<1>9. PICK g1 \in [SUBSET (1 .. m) -> C] : IsLeftFold(g1, m, name, e, step)
  BY <1>3, <1>5, <1>6, <1>8, LeftFoldExists DEF HasLeftFold
<1>10. IsSqueezing(g1, name)
  <2>1. ASSUME NEW s \in SUBSET (1 .. m) PROVE g1[s] = IF s = {} THEN e ELSE SanitizeStep(g1[s \ {Max(s)}], name[Max(s)])
    <3>1. CASE s # {}
      <4>1. Max(s) \in 1 .. m /\ s \ {Max(s)} \in SUBSET (1 .. m)
        BY <3>1, MaxIs
      <4>2. name[Max(s)] \in K /\ g1[s \ {Max(s)}] \in C
        BY <1>5, <1>9, <4>1
      <4>3. g1[s] = step[<<g1[s \ {Max(s)}], name[Max(s)]>>]
        BY <1>9, <3>1 DEF IsLeftFold
      <4> QED BY <1>7, <3>1, <4>2, <4>3
    <3> QED BY <1>9, <3>1 DEF IsLeftFold
  <2> QED BY <1>4, <1>5, <1>9, <2>1 DEF IsSqueezing
<1>11. IsSqueezing(g0, name)
  BY <1>1, <1>10
<1>12. \A s \in SUBSET (1 .. m) : g0[s] = IF s = {} THEN e ELSE SanitizeStep(g0[s \ {Max(s)}], name[Max(s)])
  BY <1>4, <1>5, <1>11 DEF IsSqueezing
<1>13. ASSUME NEW s \in SUBSET (1 .. m), s # {}, g0[s \ {Max(s)}] \in C
       PROVE  g0[s] = step[<<g0[s \ {Max(s)}], name[Max(s)]>>]
  <2>1. name[Max(s)] \in K
    BY <1>5, <1>13, MaxIs
  <2> QED BY <1>7, <1>12, <1>13, <2>1
<1>14. RunsTo(g0[1 .. m], m, name, e, step, C)
  <2>1. e \in C /\ g0[{}] = e
    BY <1>5, <1>6, <1>12
  <2>2. Follows(g0, m, name, step, C)
    BY <1>13 DEF Follows
  <2> QED BY <1>3, <1>8, <2>1, <2>2, RunIs
<1> QED BY <1>2, <1>3, <1>4, <1>5, <1>6, <1>14

LEMMA SqueezedAre ==
    ASSUME NEW K, Slash \in K
    PROVE  /\ Squeezed(<< >>) = Unsqueezed
           /\ \A s \in Seq(K) : Squeezed(s) \in Outputs(K)
           /\ \A s \in Seq(K), c \in K : Squeezed(Append(s, c)) = SanitizeStep(Squeezed(s), c)
<1>1. Squeezed(<< >>) = Unsqueezed
  <2>1. PICK s : s = << >>
    OBVIOUS
  <2>2. s \in Seq(K) /\ Len(s) = 0
    BY <2>1
  <2>3. RunsTo(Squeezed(s), 0, s, Unsqueezed, Squeezing(K), Outputs(K))
    BY <2>2, SqueezedRun
  <2> QED BY <2>1, <2>3 DEF RunsTo, IsRun
<1>2. ASSUME NEW s \in Seq(K) PROVE Squeezed(s) \in Outputs(K)
  <2>1. RunsTo(Squeezed(s), Len(s), s, Unsqueezed, Squeezing(K), Outputs(K)) /\ Len(s) \in 0 .. Len(s)
    BY SqueezedRun
  <2> QED BY <2>1 DEF RunsTo, IsRun
<1>3. ASSUME NEW s \in Seq(K), NEW c \in K PROVE Squeezed(Append(s, c)) = SanitizeStep(Squeezed(s), c)
  <2>1. PICK t : t = Append(s, c)
    OBVIOUS
  <2>2. PICK m \in Nat : m = Len(s)
    OBVIOUS
  <2>3. t \in Seq(K) /\ Len(t) = m + 1 /\ t[m + 1] = c /\ \A i \in 1 .. m : s[i] = t[i]
    BY <2>1, <2>2, AppendProperties
  <2>4. PICK C, step, e, a, b :
           C = Outputs(K) /\ step = Squeezing(K) /\ e = Unsqueezed /\ a = Squeezed(s) /\ b = Squeezed(t)
    OBVIOUS
  <2>5. RunsTo(a, m, s, e, step, C) /\ RunsTo(b, m + 1, t, e, step, C)
    BY <2>2, <2>3, <2>4, SqueezedRun
  <2>6. a \in C /\ b = step[<<a, t[m + 1]>>]
    BY <2>2, <2>3, <2>5, RunsOn
  <2> QED BY <2>1, <2>3, <2>4, <2>6 DEF Squeezing
<1> QED BY <1>1, <1>2, <1>3

\* Words and slashes take turns.
Alternates(name) == \A i \in 1 .. Len(name) - 1 : name[i] = Slash <=> name[i + 1] # Slash

LEMMA AlternatesOn ==
    ASSUME NEW K, NEW t \in Seq(K), Alternates(t), NEW c \in K,
           t = << >> \/ (t[Len(t)] = Slash <=> c # Slash)
    PROVE  Alternates(Append(t, c))
<1>1. PICK u, m : u = Append(t, c) /\ m = Len(t)
  OBVIOUS
<1>2. m \in Nat /\ (m = 0 <=> t = << >>) /\ Len(u) = m + 1 /\ u[m + 1] = c /\ \A i \in 1 .. m : u[i] = t[i]
  BY <1>1, AppendProperties, EmptySeq
<1>3. ASSUME NEW i \in 1 .. m PROVE u[i] = Slash <=> u[i + 1] # Slash
  <2>1. CASE i = m
    BY <1>1, <1>2, <2>1
  <2>2. CASE i # m
    <3>1. i \in 1 .. Len(t) - 1 /\ i + 1 \in 1 .. m
      BY <1>1, <1>2, <2>2
    <3> QED BY <1>2, <3>1 DEF Alternates
  <2> QED BY <2>1, <2>2
<1> QED BY <1>1, <1>2, <1>3 DEF Alternates

\* A name that goes on was one before.
LEMMA NamesGrow ==
    ASSUME NEW K, NEW s \in Seq(K), NEW c \in K, IsName(Append(s, c))
    PROVE  IsName(s) /\ (s = << >> \/ s[Len(s)] = Slash \/ c = Slash)
<1>1. PICK u, m : u = Append(s, c) /\ m = Len(s)
  OBVIOUS
<1>2. m \in Nat /\ (m = 0 <=> s = << >>) /\ Len(u) = m + 1 /\ u[m + 1] = c /\ \A i \in 1 .. m : u[i] = s[i]
  BY <1>1, AppendProperties, EmptySeq
<1>3. \A i \in 1 .. m : u[i] = Slash \/ u[i + 1] = Slash
  BY <1>1, <1>2 DEF IsName
<1>4. IsName(s)
  <2> SUFFICES ASSUME NEW i \in 1 .. m - 1 PROVE s[i] = Slash \/ s[i + 1] = Slash
    BY <1>1 DEF IsName
  <2>1. i \in 1 .. m /\ i + 1 \in 1 .. m
    BY <1>2
  <2> QED BY <1>2, <1>3, <2>1
<1>5. m # 0 => m \in 1 .. m
  BY <1>2
<1> QED BY <1>1, <1>2, <1>3, <1>4, <1>5

\* What the loop of sanitizeSlashes has written after the characters s.
SqueezedOK(s, o) ==
    /\ Alternates(o.storage)
    /\ o.storage # << >> => o.storage[Len(o.storage)] # Slash
    /\ Words(o.storage) = Words(s)
    /\ o.lastSlash <=> s # << >> /\ s[Len(s)] = Slash
    /\ s = << >> => o.storage = << >>

LEMMA SqueezedStep ==
    ASSUME NEW K, Slash \in K, NEW s \in Seq(K), NEW c \in K, s = << >> \/ s[Len(s)] = Slash \/ c = Slash,
           NEW o \in Outputs(K), SqueezedOK(s, o), NEW u, u = SanitizeStep(o, c)
    PROVE  SqueezedOK(Append(s, c), u)
<1>1. PICK t, n : t = o.storage /\ n = Append(s, c)
  OBVIOUS
<1>2. t \in Seq(K) /\ n \in Seq(K) /\ n # << >> /\ Len(n) = Len(s) + 1 /\ n[Len(n)] = c
  BY <1>1, AppendProperties DEF Outputs
<1>3. Words(n) = AddWord(Words(s), c) /\ Words(t) = Words(s)
  BY <1>1, WordsAre DEF SqueezedOK
<1>4. CASE c = Slash
  <2>1. u.storage = t /\ u.lastSlash
    BY <1>1, <1>4, StepIs
  <2>2. Words(n) = Words(s)
    BY <1>3, <1>4 DEF AddWord
  <2> QED BY <1>1, <1>2, <1>3, <1>4, <2>1, <2>2 DEF SqueezedOK
<1>5. CASE c # Slash
  <2>1. u.storage = (IF o.lastSlash THEN Append(Append(t, Slash), c) ELSE Append(t, c)) /\ ~u.lastSlash
    BY <1>1, <1>5, StepIs
  <2>2. Words(n) = Append(Words(s), c)
    BY <1>3, <1>5 DEF AddWord
  <2>3. CASE ~o.lastSlash
    <3>1. s = << >> /\ t = << >>
      BY <1>1, <1>5, <2>3 DEF SqueezedOK
    <3>2. PICK v : v = Append(t, c)
      OBVIOUS
    <3>3. v \in Seq(K) /\ v # << >> /\ v[Len(v)] = c /\ Words(v) = AddWord(Words(t), c)
      <4>1. t \in Seq(K) /\ c \in K /\ v = Append(t, c)
        BY <1>2, <3>2
      <4>2. v \in Seq(K) /\ v # << >> /\ v[Len(v)] = c
        BY <4>1, AppendProperties
      <4>3. Words(Append(t, c)) = AddWord(Words(t), c)
        BY <4>1, WordsAre
      <4> QED BY <4>1, <4>2, <4>3
    <3>4. Alternates(v)
      BY <1>1, <1>2, <3>1, <3>2, AlternatesOn DEF SqueezedOK
    <3>5. u.storage = v
      BY <2>1, <2>3, <3>2
    <3> QED BY <1>1, <1>2, <1>3, <1>5, <2>1, <3>3, <3>4, <3>5 DEF SqueezedOK
  <2>4. CASE o.lastSlash
    <3>1. PICK v, w : v = Append(t, Slash) /\ w = Append(v, c)
      OBVIOUS
    <3>2. v \in Seq(K) /\ v[Len(v)] = Slash /\ Words(v) = Words(t)
      <4>1. v \in Seq(K) /\ v[Len(v)] = Slash
        BY <1>2, <3>1, AppendProperties
      <4>2. Words(v) = AddWord(Words(t), Slash)
        BY <1>2, <3>1, WordsAre
      <4> QED BY <4>1, <4>2 DEF AddWord
    <3>3. w \in Seq(K) /\ w # << >> /\ w[Len(w)] = c /\ Words(w) = AddWord(Words(v), c)
      <4>1. v \in Seq(K) /\ c \in K /\ w = Append(v, c)
        BY <3>1, <3>2
      <4>2. w \in Seq(K) /\ w # << >> /\ w[Len(w)] = c
        BY <4>1, AppendProperties
      <4>3. Words(Append(v, c)) = AddWord(Words(v), c)
        BY <4>1, WordsAre
      <4> QED BY <4>1, <4>2, <4>3
    <3>4. Alternates(v)
      BY <1>1, <1>2, <3>1, AlternatesOn DEF SqueezedOK
    <3>5. Alternates(w)
      BY <1>5, <3>1, <3>2, <3>4, AlternatesOn
    <3>6. u.storage = w
      BY <2>1, <2>4, <3>1
    <3> QED BY <1>1, <1>2, <1>3, <1>5, <2>1, <3>2, <3>3, <3>5, <3>6 DEF SqueezedOK
  <2> QED BY <2>3, <2>4
<1> QED BY <1>4, <1>5

LEMMA SqueezedIs ==
    ASSUME NEW K, Slash \in K, NEW name \in Seq(K), IsName(name)
    PROVE  SqueezedOK(name, Squeezed(name))
<1>1. PICK T : T = {s \in Seq(K) : IsName(s) => SqueezedOK(s, Squeezed(s))}
  OBVIOUS
<1>2. << >> \in T
  <2>1. PICK e, o : e = << >> /\ o = Squeezed(e)
    OBVIOUS
  <2>2. e \in Seq(K) /\ Len(e) = 0
    BY <2>1
  <2>3. o.storage = e /\ ~o.lastSlash
    BY <2>1, SqueezedAre DEF Unsqueezed
  <2>4. Alternates(e)
    BY <2>2 DEF Alternates
  <2>5. SqueezedOK(e, o)
    BY <2>1, <2>3, <2>4 DEF SqueezedOK
  <2> QED BY <1>1, <2>1, <2>2, <2>5
<1>3. ASSUME NEW s \in Seq(K), NEW c \in K, s \in T PROVE Append(s, c) \in T
  <2> SUFFICES ASSUME IsName(Append(s, c)) PROVE SqueezedOK(Append(s, c), Squeezed(Append(s, c)))
    BY <1>1, AppendProperties
  <2>1. SqueezedOK(s, Squeezed(s)) /\ (s = << >> \/ s[Len(s)] = Slash \/ c = Slash)
    BY <1>1, <1>3, NamesGrow
  <2>2. PICK o : o = Squeezed(s)
    OBVIOUS
  <2>3. o \in Outputs(K) /\ Squeezed(Append(s, c)) = SanitizeStep(o, c)
    BY <2>2, SqueezedAre
  <2> QED BY <2>1, <2>2, <2>3, SqueezedStep
<1>4. name \in T
  BY <1>2, <1>3, BuiltUp
<1> QED BY <1>1, <1>4

\* sanitizeSlashes and the comment above it: what it returns has the words of the
\* name, with single slashes between them and none around them.
THEOREM SanitizedAsPromised ==
    ASSUME NEW K, Slash \in K, NEW name \in Seq(K), IsName(name)
    PROVE  LET raw == SanitizeSlashes(name)
           IN  /\ raw \in Seq(K) /\ Words(raw) = Words(name) /\ Alternates(raw)
               /\ raw # << >> => raw[1] # Slash /\ raw[Len(raw)] # Slash
<1>1. PICK o, t, raw : o = Squeezed(name) /\ t = o.storage /\ raw = SanitizeSlashes(name)
  OBVIOUS
<1>2. raw = IF t # << >> /\ t[1] = Slash THEN Tail(t) ELSE t
  BY <1>1 DEF SanitizeSlashes, Squeezed, Unsqueezed
<1>3. t \in Seq(K) /\ Alternates(t) /\ (t # << >> => t[Len(t)] # Slash) /\ Words(t) = Words(name)
  BY <1>1, SqueezedAre, SqueezedIs DEF SqueezedOK, Outputs
<1>4. CASE t # << >> /\ t[1] = Slash
  <2>1. PICK m \in Nat : m = Len(t)
    BY <1>3
  <2>2. m > 1 /\ raw \in Seq(K) /\ Len(raw) = m - 1 /\ \A i \in 1 .. m - 1 : raw[i] = t[i + 1]
    <3>1. m # 0 /\ m # 1
      BY <1>3, <1>4, <2>1, EmptySeq
    <3> QED BY <1>2, <1>3, <1>4, <2>1, <3>1, HeadTailProperties
  <2>3. 1 \in 1 .. m - 1 /\ m - 1 \in 1 .. m - 1
    BY <2>1, <2>2
  <2>4. raw[1] # Slash /\ raw[Len(raw)] # Slash
    <3>1. t[1] = Slash <=> t[1 + 1] # Slash
      BY <1>3, <2>1, <2>3 DEF Alternates
    <3>2. raw[1] = t[1 + 1] /\ raw[m - 1] = t[m]
      BY <2>1, <2>2, <2>3
    <3> QED BY <1>3, <1>4, <2>1, <2>2, <3>1, <3>2
  <2>5. Alternates(raw)
    <3> SUFFICES ASSUME NEW i \in 1 .. m - 1 - 1 PROVE raw[i] = Slash <=> raw[i + 1] # Slash
      BY <2>2 DEF Alternates
    <3>1. i \in 1 .. m - 1 /\ i + 1 \in 1 .. m - 1
      BY <2>1
    <3>2. t[i + 1] = Slash <=> t[i + 1 + 1] # Slash
      BY <1>3, <2>1, <3>1 DEF Alternates
    <3> QED BY <2>2, <3>1, <3>2
  <2>6. Words(t) = Words(raw)
    <3>1. t = <<Slash>> \o raw
      BY <1>2, <1>3, <1>4
    <3>2. <<Slash>> \in Seq(K) /\ Words(<<Slash>>) = << >>
      <4>1. Words(<<Slash>>) = AddWord(<< >>, Slash)
        BY WordsShort
      <4> QED BY <4>1 DEF AddWord
    <3>3. Words(t) = << >> \o Words(raw)
      BY <2>2, <3>1, <3>2, WordsConcat
    <3>4. Words(raw) \in Seq(K \ {Slash})
      BY <2>2, WordsAre
    <3> QED BY <3>3, <3>4, ConcatEmptySeq
  <2> QED BY <1>1, <1>3, <2>2, <2>4, <2>5, <2>6
<1>5. CASE ~(t # << >> /\ t[1] = Slash)
  BY <1>1, <1>2, <1>3, <1>5
<1> QED BY <1>4, <1>5

\* One sequence after another, with their lengths named.
Joins(w, u, v, a, b) ==
    /\ Len(w) = a + b
    /\ \A i \in 1 .. a + b : w[i] = IF i <= a THEN u[i] ELSE v[i - a]

LEMMA JoinIs ==
    ASSUME NEW K, NEW u \in Seq(K), NEW v \in Seq(K), NEW a, a = Len(u), NEW b, b = Len(v)
    PROVE  u \o v \in Seq(K) /\ Joins(u \o v, u, v, a, b)
BY ConcatProperties DEF Joins

-----------------------------------------------------------------------------
\* tryRoute.

\* A name that is not empty is its first character and the rest.
LEMMA CutFirst ==
    ASSUME NEW K, NEW raw \in Seq(K), raw # << >>, raw[1] # Slash
    PROVE  /\ Len(raw) \in Nat \ {0} /\ raw[1] \in K /\ SubSeq(raw, 2, Len(raw)) \in Seq(K)
           /\ raw = <<raw[1]>> \o SubSeq(raw, 2, Len(raw))
           /\ Words(raw) = <<raw[1]>> \o Words(SubSeq(raw, 2, Len(raw)))
<1>1. PICK m \in Nat : m = Len(raw)
  OBVIOUS
<1>2. m # 0
  BY <1>1, EmptySeq
<1>3. PICK w, u, rest : w = raw[1] /\ u = <<w>> /\ rest = SubSeq(raw, 2, m)
  OBVIOUS
<1>4. w \in K /\ u \in Seq(K) /\ Len(u) = 1 /\ u[1] = w /\ \A i \in 1 .. m : raw[i] \in K
  BY <1>1, <1>2, <1>3
<1>5. rest \in Seq(K) /\ Len(rest) = m - 1 /\ \A i \in 1 .. m - 1 : rest[i] = raw[i + 1]
  <2>1. \A i \in 2 .. m : raw[i] \in K
    BY <1>1, <1>4
  <2>2. /\ rest \in Seq(K) /\ Len(rest) = (IF 2 <= m THEN m - 2 + 1 ELSE 0)
        /\ \A i \in 1 .. m - 2 + 1 : rest[i] = raw[2 + i - 1]
    BY <1>1, <1>3, <2>1, SubSeqProperties
  <2>3. m - 2 + 1 = m - 1 /\ (IF 2 <= m THEN m - 2 + 1 ELSE 0) = m - 1 /\ \A i \in 1 .. m - 1 : 2 + i - 1 = i + 1
    BY <1>1, <1>2
  <2> QED BY <2>2, <2>3
<1>6. PICK v : v = u \o rest
  OBVIOUS
<1>7. v = raw
  <2>1. v \in Seq(K) /\ Len(v) = m /\ \A i \in 1 .. m : v[i] = IF i <= 1 THEN u[i] ELSE rest[i - 1]
    <3>1. PICK n \in Nat : n = m - 1
      BY <1>1, <1>2
    <3>2. v \in Seq(K) /\ Joins(v, u, rest, 1, n)
      BY <1>4, <1>5, <1>6, <3>1, JoinIs
    <3>3. 1 + n = m
      BY <3>1
    <3> QED BY <3>2, <3>3 DEF Joins
  <2>2. ASSUME NEW i \in 1 .. m PROVE v[i] = raw[i]
    <3>1. CASE i = 1
      BY <1>3, <1>4, <2>1, <3>1
    <3>2. CASE i # 1
      <4>1. i - 1 \in 1 .. m - 1 /\ i - 1 + 1 = i /\ ~(i <= 1)
        BY <1>1, <3>2
      <4> QED BY <1>5, <2>1, <4>1
    <3> QED BY <3>1, <3>2
  <2> QED BY <1>1, <2>1, <2>2, SeqEqual
<1>8. Words(raw) = u \o Words(rest)
  <2>1. Words(u) = AddWord(<< >>, w)
    BY <1>3, <1>4, WordsShort
  <2>2. AddWord(<< >>, w) = u
    BY <1>3 DEF AddWord
  <2>3. Words(raw) = Words(u) \o Words(rest)
    BY <1>4, <1>5, <1>6, <1>7, WordsConcat
  <2> QED BY <2>1, <2>2, <2>3
<1> QED BY <1>1, <1>2, <1>3, <1>4, <1>5, <1>6, <1>7, <1>8

\* What follows the first slash of a name whose words and slashes take turns.
LEMMA CutSlash ==
    ASSUME NEW K, Slash \in K, NEW raw \in Seq(K), Len(raw) > 1, Alternates(raw), raw[1] # Slash, raw[Len(raw)] # Slash,
           NEW rest, rest = SubSeq(raw, 3, Len(raw))
    PROVE  /\ rest \in Seq(K) /\ Alternates(rest) /\ rest # << >> /\ rest[1] # Slash
           /\ Words(raw) = <<raw[1]>> \o Words(rest)
<1>1. PICK m \in Nat : m = Len(raw)
  OBVIOUS
<1>2. raw[2] = Slash /\ m > 2
  <2>1. 1 \in 1 .. Len(raw) - 1
    BY <1>1
  <2>2. raw[1] = Slash <=> raw[1 + 1] # Slash
    BY <2>1 DEF Alternates
  <2>3. m # 2
    BY <1>1, <2>2
  <2> QED BY <1>1, <2>2, <2>3
<1>3. /\ rest \in Seq(K) /\ Len(rest) = m - 2 /\ \A i \in 1 .. m - 2 : rest[i] = raw[i + 2]
  <2>1. \A i \in 3 .. m : raw[i] \in K
    BY <1>1
  <2>2. /\ rest \in Seq(K) /\ Len(rest) = (IF 3 <= m THEN m - 3 + 1 ELSE 0)
        /\ \A i \in 1 .. m - 3 + 1 : rest[i] = raw[3 + i - 1]
    BY <1>1, <2>1, SubSeqProperties
  <2>3. m - 3 + 1 = m - 2 /\ (IF 3 <= m THEN m - 3 + 1 ELSE 0) = m - 2 /\ \A i \in 1 .. m - 2 : 3 + i - 1 = i + 2
    BY <1>1, <1>2
  <2> QED BY <2>2, <2>3
<1>4. Alternates(rest)
  <2> SUFFICES ASSUME NEW i \in 1 .. m - 2 - 1 PROVE rest[i] = Slash <=> rest[i + 1] # Slash
    BY <1>3 DEF Alternates
  <2>1. i \in 1 .. m - 2 /\ i + 1 \in 1 .. m - 2 /\ i + 2 \in 1 .. m - 1 /\ i + 2 + 1 = i + 1 + 2
    BY <1>1
  <2>2. raw[i + 2] = Slash <=> raw[i + 2 + 1] # Slash
    BY <1>1, <2>1 DEF Alternates
  <2> QED BY <1>3, <2>1, <2>2
<1>5. rest # << >> /\ rest[1] # Slash
  <2>1. 1 \in 1 .. m - 2 /\ 2 \in 1 .. Len(raw) - 1
    BY <1>1, <1>2
  <2>2. raw[2] = Slash <=> raw[2 + 1] # Slash
    BY <2>1 DEF Alternates
  <2>3. rest[1] = raw[2 + 1]
    BY <1>3, <2>1
  <2> QED BY <1>1, <1>2, <1>3, <2>2, <2>3, EmptySeq
<1>6. PICK tail : tail = SubSeq(raw, 2, m)
  OBVIOUS
<1>7. tail \in Seq(K) /\ Words(raw) = <<raw[1]>> \o Words(tail)
  <2>1. raw # << >>
    BY <1>1, <1>2, EmptySeq
  <2> QED BY <1>1, <1>6, <2>1, CutFirst
<1>8. tail = <<Slash>> \o rest
  <2>1. \A i \in 2 .. m : raw[i] \in K
    BY <1>1
  <2>2. /\ Len(tail) = (IF 2 <= m THEN m - 2 + 1 ELSE 0)
        /\ \A i \in 1 .. m - 2 + 1 : tail[i] = raw[2 + i - 1]
    BY <1>1, <1>6, <2>1, SubSeqProperties
  <2>3. m - 2 + 1 = m - 1 /\ (IF 2 <= m THEN m - 2 + 1 ELSE 0) = m - 1 /\ \A i \in 1 .. m - 1 : 2 + i - 1 = i + 1
    BY <1>1, <1>2
  <2>4. Len(tail) = m - 1 /\ \A i \in 1 .. m - 1 : tail[i] = raw[i + 1]
    BY <2>2, <2>3
  <2>5. PICK u, v : u = <<Slash>> /\ v = u \o rest
    OBVIOUS
  <2>6. u \in Seq(K) /\ Len(u) = 1 /\ u[1] = Slash
    BY <2>5
  <2>7. v \in Seq(K) /\ Len(v) = m - 1 /\ \A i \in 1 .. m - 1 : v[i] = IF i <= 1 THEN u[i] ELSE rest[i - 1]
    <3>1. Len(u) + Len(rest) = m - 1
      BY <1>1, <1>3, <2>6
    <3> QED BY <1>3, <2>5, <2>6, <3>1, ConcatProperties
  <2>8. ASSUME NEW i \in 1 .. m - 1 PROVE v[i] = tail[i]
    <3>1. CASE i = 1
      BY <1>2, <2>4, <2>6, <2>7, <3>1
    <3>2. CASE i # 1
      <4>1. i - 1 \in 1 .. m - 2 /\ i - 1 + 2 = i + 1 /\ ~(i <= 1)
        BY <1>1, <3>2
      <4> QED BY <1>3, <2>4, <2>7, <4>1
    <3> QED BY <3>1, <3>2
  <2> QED BY <1>7, <2>4, <2>5, <2>7, <2>8, SeqEqual
<1>9. Words(tail) = Words(rest)
  <2>1. Words(<<Slash>>) = AddWord(<< >>, Slash) /\ <<Slash>> \in Seq(K)
    <3>1. Words(<<Slash>>) = AddWord(<< >>, Slash)
      BY WordsShort
    <3> QED BY <3>1
  <2>2. Words(<<Slash>>) = << >>
    BY <2>1 DEF AddWord
  <2>3. Words(tail) = << >> \o Words(rest)
    BY <1>3, <1>8, <2>1, <2>2, WordsConcat
  <2>4. Words(rest) \in Seq(K \ {Slash})
    BY <1>3, WordsAre
  <2> QED BY <2>3, <2>4, ConcatEmptySeq
<1> QED BY <1>3, <1>4, <1>5, <1>7, <1>9

\* Turns of words and slashes make a name.
LEMMA AlternatesIsName ==
    ASSUME NEW name, Alternates(name)
    PROVE  IsName(name)
BY DEF Alternates, IsName

\* tryRoute: a name is routed if it has two words or more and the first is the
\* word of a route; the handler gets the words after it.  Another name keeps all
\* of its words, and if it is but one word it is that word.
THEOREM RoutedByFirstWord ==
    ASSUME NEW K, Slash \in K, NEW name \in Seq(K), IsName(name), NEW routes, NEW t, t = TryRoute(routes, name)
    PROVE  /\ t.routed <=> Len(Words(name)) > 1 /\ Words(name)[1] \in DOMAIN routes
           /\ t.routed => Words(name) = <<Words(name)[1]>> \o Words(t.method)
           /\ ~t.routed => /\ Words(t.method) = Words(name)
                           /\ Len(t.method) = 1 => Words(t.method) = t.method
           /\ t.method \in Seq(K) /\ IsName(t.method)
<1>1. PICK raw : raw = SanitizeSlashes(name)
  OBVIOUS
<1>2. /\ raw \in Seq(K) /\ Words(raw) = Words(name) /\ Alternates(raw)
      /\ raw # << >> => raw[1] # Slash /\ raw[Len(raw)] # Slash
  BY <1>1, SanitizedAsPromised
<1>3. PICK words : words = Words(name)
  OBVIOUS
<1>4. PICK goes \in BOOLEAN : goes <=> Len(raw) > 1 /\ raw[1] \in DOMAIN routes
  OBVIOUS
<1>5. /\ t.routed <=> goes
      /\ t.method = IF goes THEN SubSeq(raw, 3, Len(raw)) ELSE raw
  BY <1>1, <1>4 DEF TryRoute
<1>6. CASE raw = << >>
  <2>1. words = << >> /\ Len(raw) = 0 /\ Len(words) = 0
    <3>1. Words(<< >>) = << >> /\ Len(<< >>) = 0
      BY WordsAre, EmptySeq
    <3> QED BY <1>2, <1>3, <1>6, <3>1
  <2>2. ~goes
    BY <1>4, <2>1
  <2> QED BY <1>2, <1>3, <1>5, <2>1, <2>2, AlternatesIsName
<1>7. CASE raw # << >> /\ Len(raw) = 1
  <2>1. PICK w : w = raw[1]
    OBVIOUS
  <2>2. w \in K /\ w # Slash /\ raw = <<w>>
    BY <1>2, <1>7, <2>1
  <2>3. words = <<w>>
    <3>1. Words(<<w>>) = AddWord(<< >>, w)
      BY <2>2, WordsShort
    <3>2. AddWord(<< >>, w) = <<w>>
      BY <2>2 DEF AddWord
    <3> QED BY <1>2, <1>3, <2>2, <3>1, <3>2
  <2>4. ~goes /\ Len(words) = 1
    BY <1>4, <1>7, <2>3
  <2> QED BY <1>2, <1>3, <1>5, <2>2, <2>3, <2>4, AlternatesIsName
<1>8. CASE Len(raw) > 1
  <2>1. raw # << >> /\ Len(raw) # 1
    BY <1>2, <1>8, EmptySeq
  <2>2. PICK rest, w : rest = SubSeq(raw, 3, Len(raw)) /\ w = raw[1]
    OBVIOUS
  <2>3. /\ rest \in Seq(K) /\ Alternates(rest) /\ rest # << >> /\ rest[1] # Slash
        /\ Words(raw) = <<w>> \o Words(rest)
    BY <1>2, <1>8, <2>1, <2>2, CutSlash
  <2>4. w \in K /\ w # Slash
    BY <1>2, <1>8, <2>1, <2>2
  <2>5. PICK u, v : u = <<w>> /\ v = Words(rest)
    OBVIOUS
  <2>6. u \in Seq(K) /\ Len(u) = 1 /\ u[1] = w /\ v \in Seq(K) /\ Len(v) > 0
    <3>1. v \in Seq(K)
      <4>1. v \in Seq(K \ {Slash})
        BY <2>3, <2>5, WordsAre
      <4> QED BY <4>1, SeqMonotonic
    <3>2. PICK x, y : x = <<rest[1]>> /\ y = Words(SubSeq(rest, 2, Len(rest)))
      OBVIOUS
    <3>3. v = x \o y /\ rest[1] \in K /\ SubSeq(rest, 2, Len(rest)) \in Seq(K)
      BY <2>3, <2>5, <3>2, CutFirst
    <3>4. x \in Seq(K) /\ Len(x) = 1
      BY <3>2, <3>3
    <3>5. y \in Seq(K)
      <4>1. y \in Seq(K \ {Slash})
        BY <3>2, <3>3, WordsAre
      <4> QED BY <4>1, SeqMonotonic
    <3>6. PICK n \in Nat : n = Len(y)
      BY <3>5
    <3>7. Joins(v, x, y, 1, n)
      BY <3>3, <3>4, <3>5, <3>6, JoinIs
    <3>8. Len(v) = 1 + n
      BY <3>7 DEF Joins
    <3> QED BY <2>4, <2>5, <3>1, <3>6, <3>8
  <2>7. words = u \o v
    BY <1>2, <1>3, <2>3, <2>5
  <2>8. Len(words) > 1 /\ words[1] = w
    <3>1. PICK n \in Nat : n = Len(v)
      BY <2>6
    <3>2. Joins(words, u, v, 1, n)
      BY <2>6, <2>7, <3>1, JoinIs
    <3>3. 1 + n > 1 /\ 1 \in 1 .. 1 + n
      BY <2>6, <3>1
    <3> QED BY <2>6, <3>2, <3>3 DEF Joins
  <2>9. IsName(rest) /\ IsName(raw)
    BY <1>2, <2>3, AlternatesIsName
  <2> QED BY <1>2, <1>3, <1>4, <1>5, <1>8, <2>1, <2>2, <2>3, <2>5, <2>7, <2>8, <2>9
<1>9. Len(raw) \in Nat /\ (raw # << >> => Len(raw) # 0)
  BY <1>2, EmptySeq
<1>10. raw = << >> \/ (raw # << >> /\ Len(raw) = 1) \/ Len(raw) > 1
  <2>1. PICK n \in Nat : n = Len(raw)
    BY <1>9
  <2>2. n = 0 \/ n = 1 \/ n > 1
    OBVIOUS
  <2> QED BY <1>9, <2>1, <2>2
<1> QED BY <1>6, <1>7, <1>8, <1>10

\* addPref: the words of the prefix come before those of the name.
LEMMA Prefixed ==
    ASSUME NEW K, Slash \in K, NEW base \in Seq(K), IsName(base), NEW prefix \in Seq(K), IsName(prefix),
           NEW name, name = AddPref(base, prefix)
    PROVE  name \in Seq(K) /\ IsName(name) /\ Words(name) = Words(prefix) \o Words(base)
<1>1. CASE prefix = << >>
  <2>1. name = base
    BY <1>1 DEF AddPref
  <2>2. Words(base) \in Seq(K \ {Slash})
    BY WordsAre
  <2>3. Words(prefix) = << >>
    BY <1>1, WordsAre
  <2>4. << >> \o Words(base) = Words(base)
    BY <2>2, ConcatEmptySeq
  <2> QED BY <2>1, <2>3, <2>4
<1>2. CASE prefix # << >>
  <2>1. PICK u, v : u = <<Slash>> /\ v = prefix \o u
    OBVIOUS
  <2>2. name = v \o base
    BY <1>2, <2>1 DEF AddPref
  <2>3. PICK m \in Nat, n \in Nat, l \in Nat : m = Len(prefix) /\ n = Len(base) /\ l = m + 1
    OBVIOUS
  <2>4. u \in Seq(K) /\ Len(u) = 1 /\ u[1] = Slash
    BY <2>1
  <2>5. /\ v \in Seq(K) /\ Len(v) = m + 1
        /\ \A i \in 1 .. m + 1 : v[i] = IF i <= m THEN prefix[i] ELSE u[i - m]
    <3>1. v \in Seq(K) /\ Joins(v, prefix, u, m, 1)
      BY <2>1, <2>3, <2>4, JoinIs
    <3> QED BY <3>1 DEF Joins
  <2>6. /\ name \in Seq(K) /\ Len(name) = l + n
        /\ \A i \in 1 .. l + n : name[i] = IF i <= l THEN v[i] ELSE base[i - l]
    <3>0. l = Len(v)
      BY <2>3, <2>5
    <3>1. v \in Seq(K) /\ n = Len(base)
      BY <2>3, <2>5
    <3>2. v \o base \in Seq(K) /\ Joins(v \o base, v, base, l, n)
      BY <3>0, <3>1, JoinIs
    <3>3. name \in Seq(K) /\ Joins(name, v, base, l, n)
      BY <2>2, <3>2
    <3> QED BY <3>3 DEF Joins
  <2>7. ASSUME NEW i \in 1 .. l + n - 1 PROVE name[i] = Slash \/ name[i + 1] = Slash
    <3>0. i \in Nat /\ i >= 1 /\ i \in 1 .. l + n /\ i + 1 \in 1 .. l + n
      BY <2>3
    <3>1. CASE i < m
      <4>1. i \in 1 .. m - 1 /\ i <= m /\ i + 1 <= m /\ i <= l /\ i + 1 <= l /\ i \in 1 .. m + 1 /\ i + 1 \in 1 .. m + 1
        BY <2>3, <3>0, <3>1
      <4>2. name[i] = prefix[i] /\ name[i + 1] = prefix[i + 1]
        BY <2>5, <2>6, <3>0, <4>1
      <4> QED BY <2>3, <4>1, <4>2 DEF IsName
    <3>2. CASE i = m \/ i = l
      <4>1. m + 1 \in 1 .. m + 1 /\ m + 1 \in 1 .. l + n /\ ~(m + 1 <= m) /\ m + 1 - m = 1 /\ m + 1 <= l
        BY <2>3
      <4>2. name[l] = v[l] /\ v[m + 1] = u[1]
        <5>1. v[m + 1] = u[m + 1 - m]
          BY <2>5, <4>1
        <5>2. l \in 1 .. l + n /\ l <= l
          BY <2>3
        <5> QED BY <2>6, <4>1, <5>1, <5>2
      <4>3. name[l] = Slash /\ (i = m => i + 1 = l)
        BY <2>3, <2>4, <4>2
      <4> QED BY <3>2, <4>3
    <3>3. CASE i > l
      <4>1. /\ i - l \in 1 .. n - 1 /\ ~(i <= l) /\ ~(i + 1 <= l)
            /\ i + 1 - l = i - l + 1
        BY <2>3, <3>0, <3>3
      <4>2. name[i] = base[i - l] /\ name[i + 1] = base[i - l + 1]
        BY <2>6, <3>0, <4>1
      <4> QED BY <2>3, <4>1, <4>2 DEF IsName
    <3> QED BY <2>3, <3>0, <3>1, <3>2, <3>3
  <2>8. IsName(name)
    BY <2>6, <2>7 DEF IsName
  <2>9. Words(name) = Words(prefix) \o Words(base)
    <3>1. Words(u) = AddWord(<< >>, Slash)
      BY <2>1, WordsShort
    <3>2. Words(u) = << >>
      BY <3>1 DEF AddWord
    <3>3. Words(prefix) \in Seq(K \ {Slash}) /\ Words(v) = Words(prefix) \o Words(u)
      BY <2>1, <2>4, WordsAre, WordsConcat
    <3>4. Words(v) = Words(prefix)
      BY <3>2, <3>3, ConcatEmptySeq
    <3> QED BY <2>2, <2>5, <3>4, WordsConcat
  <2> QED BY <2>6, <2>8, <2>9
<1> QED BY <1>1, <1>2

-----------------------------------------------------------------------------
\* Messages.

\* A field of a message that is made of pairs with different keys.
LEMMA ObjectField ==
    ASSUME NEW pairs, NEW k, NEW v, <<k, v>> \in pairs, \A p \in pairs : p[1] = k => p = <<k, v>>
    PROVE  k \in DOMAIN Object(pairs) /\ Object(pairs)[k] = v
<1>1. PICK q : q = CHOOSE p \in pairs : p[1] = k
  OBVIOUS
<1>2. q = <<k, v>>
  <2>1. <<k, v>>[1] = k
    OBVIOUS
  <2> QED BY <1>1, <2>1
<1>3. k \in {p[1] : p \in pairs}
  BY <1>2
<1> QED BY <1>1, <1>2, <1>3 DEF Object

\* Formatter makes a response: Receive does not take it for a request, and
\* UnpackSingleResponce reads it back as it was.
THEOREM ResponseReadBack ==
    ASSUME NEW proto \in Protocols, NEW r, NEW v
    PROVE  /\ ~IsRequest(proto, MakeResponce(proto, r, v)) /\ ~IsRequest(proto, MakeError(proto, r, v))
           /\ UnpackSingleResponce(proto, MakeResponce(proto, r, v)) = v
           /\ UnpackSingleResponce(proto, MakeError(proto, r, v)) = v
<1>1. PICK F : F = Fields(proto)
  OBVIOUS
<1>3. /\ F.Result \in {"result", "r"} /\ F.Error \in {"error", "e"}
      /\ F.Result # F.Error /\ F.Method \in {"method", "m"}
  BY <1>1 DEF Fields, Protocols
<1>4. Tag(proto) \subseteq {<<"jsonrpc", "2.0">>}
  BY DEF Tag
<1>5. PICK res : res = {<<"id", r>>, <<F.Result, v>>} \cup Tag(proto)
  OBVIOUS
<1>6. F.Result \in DOMAIN Object(res) /\ Object(res)[F.Result] = v
  <2>1. <<F.Result, v>> \in res
    BY <1>5
  <2>2. \A p \in res : p[1] = F.Result => p = <<F.Result, v>>
    BY <1>3, <1>4, <1>5
  <2> QED BY <2>1, <2>2, ObjectField
<1>7. PICK err : err = {<<"id", r>>, <<F.Error, v>>} \cup Tag(proto)
  OBVIOUS
<1>8. F.Error \in DOMAIN Object(err) /\ Object(err)[F.Error] = v
  <2>1. <<F.Error, v>> \in err
    BY <1>7
  <2>2. \A p \in err : p[1] = F.Error => p = <<F.Error, v>>
    BY <1>3, <1>4, <1>7
  <2> QED BY <2>1, <2>2, ObjectField
<1>9. F.Result \notin DOMAIN Object(err)
  <2>1. \A p \in err : p[1] # F.Result
    BY <1>3, <1>4, <1>7
  <2> QED BY <2>1 DEF Object
<1>10. F.Method \notin DOMAIN Object(res) /\ F.Method \notin DOMAIN Object(err)
  <2>1. (\A p \in res : p[1] # F.Method) /\ (\A p \in err : p[1] # F.Method)
    BY <1>3, <1>4, <1>5, <1>7
  <2> QED BY <2>1 DEF Object
<1> QED BY <1>1, <1>5, <1>6, <1>7, <1>8, <1>9, <1>10
        DEF UnpackSingleResponce, MakeResponce, MakeError, IsRequest

\* Formatter makes a request or a notification; handleServer recognises it, knows
\* one from the other by the id, and reads back the method and the parameters.
THEOREM RequestReadBack ==
    ASSUME NEW proto \in Protocols, NEW r, NEW m, NEW a
    PROVE  /\ IsRequest(proto, MakeRequest(proto, r, m, a)) /\ IsRequest(proto, MakeNotify(proto, m, a))
           /\ ReadRequest(proto, MakeRequest(proto, r, m, a)) = [method |-> m, notify |-> FALSE, params |-> a]
           /\ ReadRequest(proto, MakeNotify(proto, m, a)) = [method |-> m, notify |-> TRUE, params |-> a]
<1>1. PICK F : F = Fields(proto)
  OBVIOUS
<1>2. F.Method \in {"method", "m"} /\ F.Params \in {"params", "p"}
  BY <1>1 DEF Fields, Protocols
<1>3. Tag(proto) \subseteq {<<"jsonrpc", "2.0">>}
  BY DEF Tag
<1>4. PICK asks : asks = {<<"id", r>>, <<F.Method, m>>, <<F.Params, a>>} \cup Tag(proto)
  OBVIOUS
<1>5. PICK tells : tells = {<<F.Method, m>>, <<F.Params, a>>} \cup Tag(proto)
  OBVIOUS
<1>6. /\ F.Method \in DOMAIN Object(asks) /\ Object(asks)[F.Method] = m
      /\ F.Params \in DOMAIN Object(asks) /\ Object(asks)[F.Params] = a /\ "id" \in DOMAIN Object(asks)
  <2>1. <<F.Method, m>> \in asks /\ <<F.Params, a>> \in asks /\ <<"id", r>> \in asks
    BY <1>4
  <2>2. /\ \A p \in asks : p[1] = F.Method => p = <<F.Method, m>>
        /\ \A p \in asks : p[1] = F.Params => p = <<F.Params, a>>
        /\ \A p \in asks : p[1] = "id" => p = <<"id", r>>
    BY <1>2, <1>3, <1>4
  <2> QED BY <2>1, <2>2, ObjectField
<1>7. /\ F.Method \in DOMAIN Object(tells) /\ Object(tells)[F.Method] = m
      /\ F.Params \in DOMAIN Object(tells) /\ Object(tells)[F.Params] = a
  <2>1. <<F.Method, m>> \in tells /\ <<F.Params, a>> \in tells
    BY <1>5
  <2>2. /\ \A p \in tells : p[1] = F.Method => p = <<F.Method, m>>
        /\ \A p \in tells : p[1] = F.Params => p = <<F.Params, a>>
    BY <1>2, <1>3, <1>5
  <2> QED BY <2>1, <2>2, ObjectField
<1>8. "id" \notin DOMAIN Object(tells)
  <2>1. \A p \in tells : p[1] # "id"
    BY <1>2, <1>3, <1>5
  <2> QED BY <2>1 DEF Object
<1>9. MakeRequest(proto, r, m, a) = Object(asks) /\ MakeNotify(proto, m, a) = Object(tells)
  BY <1>1, <1>4, <1>5 DEF MakeRequest, MakeNotify
<1> QED BY <1>1, <1>6, <1>7, <1>8, <1>9 DEF IsRequest, ReadRequest
=============================================================================

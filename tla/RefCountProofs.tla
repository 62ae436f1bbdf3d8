--------------------------- MODULE RefCountProofs ---------------------------
(***************************************************************************)
(* Theorems about module RefCount, for any threads and objects.            *)
(*                                                                         *)
(* The argument counts references as a set: the handles to an object, the  *)
(* members that point to it and the Unref calls that have not subtracted   *)
(* yet.  Every step of the code moves one reference, makes one or ends     *)
(* one, so refs stays the size of the set, and the call that takes it to   *)
(* zero is alone: it is the one that deletes.                              *)
(*                                                                         *)
(* For Weak::lock the invariant adds what a held lock of a block means     *)
(* (LockInv): its holder is inside of Unref or lock() on that object, and  *)
(* the block cannot go, because the holder has a Weak to it, a reference   *)
(* is left, or the holder itself is the one that has yet to delete.        *)
(*                                                                         *)
(* All of it holds until a lock() meets the drop of the last reference     *)
(* (`raced`), which the Unref of DefaultBase does not prevent and the one  *)
(* of WeakableVirtual does (RefLockNeverRaces): SafeInv.                   *)
(***************************************************************************)
EXTENDS RefCount, FiniteSetTheorems, SequenceTheorems, TLAPS

Steps == {"copy", "member", "lock", "sub", "unlock", "delete", "clear", "take", "grab"}
CallSet == [at : Steps, o : Objects]
MaybeObjects == Objects \cup {None}

TypeInv ==
    /\ mode \in {"exact", "derived"}
    /\ slot \in [Threads -> Seq(MaybeObjects)] /\ \A t \in Threads : Len(slot[t]) = 2
    /\ next \in [Objects -> MaybeObjects]
    /\ refs \in [Objects -> Nat]
    /\ life \in [Objects -> {"none", "alive", "dying", "dead"}]
    /\ weak \in [Threads -> MaybeObjects]
    /\ block \in [Objects -> {"none", "made", "freed"}]
    /\ blockRefs \in [Objects -> Nat]
    /\ data \in [Objects -> BOOLEAN]
    /\ sync \in [Objects -> Threads \cup {None}]
    /\ todo \in [Threads -> Seq(CallSet)]
    /\ crashed \in BOOLEAN

Hold(o) == {h \in Threads \X (1 .. 2) : slot[h[1]][h[2]] = o}
Links(o) == {p \in Objects : next[p] = o}
Pend(o) == Calls(o, "lock") \cup Calls(o, "sub")
Ends(o) == Calls(o, "delete") \cup Calls(o, "clear")
Watch(o) == {t \in Threads : weak[t] = o}
Here(o) == life[o] \in {"alive", "dying"}

\* n is the number of references in three sets.
Counted(n, A, B, C) ==
    /\ IsFiniteSet(A) /\ IsFiniteSet(B) /\ IsFiniteSet(C)
    /\ n = Cardinality(A) + Cardinality(B) + Cardinality(C)

CountOK(o) == Counted(refs[o], Hold(o), Links(o), Pend(o))

CountInv == \A o \in Objects : CountOK(o)

\* An object without references is deleted once; one that is referred to lives.
EndOK(o) ==
    /\ refs[o] = 0 /\ Here(o) => \E d : Ends(o) = {d}
    /\ ~(refs[o] = 0 /\ Here(o)) => Ends(o) = {}
    /\ refs[o] > 0 => life[o] = "alive"
    /\ Calls(o, "delete") # {} => life[o] = "alive"

EndInv == \A o \in Objects : EndOK(o)

\* Which calls are where on a stack, and what they hold on to.
StackInv ==
    \A t \in Threads : \A i \in DOMAIN todo[t] :
        LET c == todo[t][i] IN
        /\ c.at \in {"copy", "member"} => slot[t][1] = c.o
        /\ c.at \in {"copy", "member", "take", "grab"} => i = 1 /\ slot[t][2] = None
        /\ c.at \in {"lock", "take", "grab", "sub", "unlock"} => i = Len(todo[t])
        /\ c.at = "lock" => mode = "exact"
        /\ c.at \in {"take", "grab", "unlock"} \/ (c.at = "sub" /\ mode = "exact") => sync[c.o] = t

\* lock() has read the address of the object and is about to count itself.
Grabs(t) == todo[t] # << >> /\ todo[t][Len(todo[t])].at = "grab"

\* What a thread has that holds the lock of a block.
Pinned(t, o) ==
    \/ weak[t] = o
    \/ refs[o] > 0
    \/ \E i \in DOMAIN todo[t] : todo[t][i] = Call("delete", o)

LockOK(t, o) ==
    /\ todo[t] # << >> /\ todo[t][Len(todo[t])].o = o
    /\ todo[t][Len(todo[t])].at \in {"take", "grab", "sub", "unlock"}
    /\ Grabs(t) => refs[o] > 0
    /\ todo[t][Len(todo[t])].at = "sub" => mode = "exact"
    /\ mode # "exact" => weak[t] = o
    /\ block[o] # "none" /\ Pinned(t, o)

LockInv == \A o \in Objects : \A t \in Threads : sync[o] = t => LockOK(t, o)

\* The references to a block are the Weaks and the object itself.
BlockOK(o) ==
    /\ IsFiniteSet(Watch(o))
    /\ block[o] = "none" => Watch(o) = {} /\ ~data[o]
    /\ block[o] # "none" => blockRefs[o] = Cardinality(Watch(o)) + IF Here(o) THEN 1 ELSE 0
    /\ block[o] = "freed" => blockRefs[o] = 0
    /\ block[o] = "made" => blockRefs[o] > 0
    /\ life[o] = "none" => block[o] = "none"

BlockInv == \A o \in Objects : BlockOK(o)

DataOK(o) == data[o] => Here(o) /\ (mode = "exact" => refs[o] > 0)

DataInv == \A o \in Objects : DataOK(o)

RefInv == TypeInv /\ CountInv /\ EndInv /\ StackInv /\ LockInv /\ BlockInv /\ DataInv

-----------------------------------------------------------------------------
\* References.

\* The three sets are alike.
LEMMA CountedTurns ==
    ASSUME NEW n, NEW A, NEW B, NEW C, Counted(n, A, B, C)
    PROVE  Counted(n, B, C, A) /\ n \in Nat
<1>1. Cardinality(A) \in Nat /\ Cardinality(B) \in Nat /\ Cardinality(C) \in Nat
  BY FS_CardinalityType DEF Counted
<1> QED BY <1>1 DEF Counted

LEMMA CountedAdds ==
    ASSUME NEW n, NEW A, NEW B, NEW C, Counted(n, A, B, C), NEW x, x \notin A
    PROVE  Counted(n + 1, A \cup {x}, B, C)
<1>1. PICK a, b, c \in Nat : a = Cardinality(A) /\ b = Cardinality(B) /\ c = Cardinality(C)
  BY FS_CardinalityType DEF Counted
<1>2. IsFiniteSet(A \cup {x}) /\ Cardinality(A \cup {x}) = a + 1
  BY <1>1, FS_AddElement DEF Counted
<1>3. n = a + b + c
  BY <1>1 DEF Counted
<1>4. n + 1 = (a + 1) + b + c
  BY <1>3
<1> QED BY <1>1, <1>2, <1>4 DEF Counted

LEMMA CountedLoses ==
    ASSUME NEW n, NEW A, NEW B, NEW C, Counted(n, A, B, C), NEW x \in A
    PROVE  Counted(n - 1, A \ {x}, B, C) /\ n > 0 /\ n - 1 \in Nat
<1>1. PICK a, b, c \in Nat : a = Cardinality(A) /\ b = Cardinality(B) /\ c = Cardinality(C)
  BY FS_CardinalityType DEF Counted
<1>2. IsFiniteSet(A \ {x}) /\ Cardinality(A \ {x}) = a - 1
  BY <1>1, FS_RemoveElement DEF Counted
<1>3. PICK d \in Nat : d = a - 1
  BY <1>2, FS_CardinalityType
<1>4. n = a + b + c
  BY <1>1 DEF Counted
<1>5. n - 1 = d + b + c /\ n > 0 /\ n - 1 \in Nat
  BY <1>3, <1>4
<1> QED BY <1>1, <1>2, <1>3, <1>5 DEF Counted

\* A reference moves from one set to another.
LEMMA CountedMoves ==
    ASSUME NEW n, NEW A, NEW B, NEW C, Counted(n, A, B, C), NEW x \in A, NEW y, y \notin B
    PROVE  Counted(n, A \ {x}, B \cup {y}, C)
<1>1. PICK m \in Nat : m = n - 1 /\ n = m + 1
  <2>1. n \in Nat /\ n - 1 \in Nat
    BY CountedTurns, CountedLoses
  <2> QED BY <2>1
<1>2. PICK A2, B2 : A2 = A \ {x} /\ B2 = B \cup {y}
  OBVIOUS
<1>3. Counted(m, A2, B, C)
  BY <1>1, <1>2, CountedLoses
<1>4. Counted(m, B, C, A2)
  BY <1>3, CountedTurns
<1>5. Counted(n, B2, C, A2)
  BY <1>1, <1>2, <1>4, CountedAdds
<1>6. Counted(n, C, A2, B2)
  BY <1>5, CountedTurns
<1>7. Counted(n, A2, B2, C)
  BY <1>6, CountedTurns
<1> QED BY <1>2, <1>7

LEMMA CountedSwaps ==
    ASSUME NEW n, NEW A, NEW B, NEW C, Counted(n, A, B, C)
    PROVE  Counted(n, A, C, B)
<1>1. PICK a, b, c \in Nat : a = Cardinality(A) /\ b = Cardinality(B) /\ c = Cardinality(C)
  BY FS_CardinalityType DEF Counted
<1>2. n = a + b + c
  BY <1>1 DEF Counted
<1>3. n = a + c + b
  BY <1>2
<1> QED BY <1>1, <1>3 DEF Counted

\* A member of one of the sets is a reference.
LEMMA CountedSome ==
    ASSUME NEW n, NEW A, NEW B, NEW C, Counted(n, A, B, C), A \cup B \cup C # {}
    PROVE  n \in Nat /\ n > 0
<1>1. n \in Nat
  BY CountedTurns
<1>2. Counted(n, B, C, A) /\ Counted(n, C, A, B)
  BY CountedTurns
<1>3. PICK x : x \in A \/ x \in B \/ x \in C
  OBVIOUS
<1>4. n > 0
  BY <1>2, <1>3, CountedLoses
<1> QED BY <1>1, <1>4

-----------------------------------------------------------------------------
\* Variables of threads.

LEMMA SlotFacts ==
    ASSUME TypeInv, NEW t \in Threads
    PROVE  /\ slot[t] \in Seq(MaybeObjects) /\ Len(slot[t]) = 2 /\ DOMAIN slot[t] = 1 .. 2
           /\ \A i \in 1 .. 2 : slot[t][i] \in MaybeObjects
<1>1. slot[t] \in Seq(MaybeObjects) /\ Len(slot[t]) = 2
  BY DEF TypeInv
<1> QED BY <1>1

\* A Strong variable is written.
Sets(t, i, v) == slot' = [slot EXCEPT ![t][i] = v]
Written(t, i, v) ==
    \A u \in Threads, j \in 1 .. 2 : slot'[u][j] = IF u = t /\ j = i THEN v ELSE slot[u][j]

LEMMA SlotSet ==
    ASSUME TypeInv, NEW t \in Threads, NEW i \in 1 .. 2, NEW v \in MaybeObjects,
           Sets(t, i, v)
    PROVE  /\ slot' \in [Threads -> Seq(MaybeObjects)] /\ \A u \in Threads : Len(slot'[u]) = 2
           /\ Written(t, i, v)
<1>1. PICK s \in Seq(MaybeObjects) : s = slot[t] /\ Len(s) = 2 /\ DOMAIN s = 1 .. 2
  BY SlotFacts
<1>2. PICK r : r = [s EXCEPT ![i] = v]
  OBVIOUS
<1>3. /\ r \in Seq(MaybeObjects) /\ Len(r) = 2
      /\ \A j \in 1 .. 2 : r[j] = IF j = i THEN v ELSE s[j]
  BY <1>1, <1>2, ExceptSeq
<1>4. slot \in [Threads -> Seq(MaybeObjects)]
  BY DEF TypeInv
<1>5. slot' = [slot EXCEPT ![t] = r]
  BY <1>1, <1>2, <1>4 DEF Sets
<1>6. \A u \in Threads : slot'[u] = IF u = t THEN r ELSE slot[u]
  BY <1>4, <1>5
<1>7. slot' \in [Threads -> Seq(MaybeObjects)]
  BY <1>3, <1>4, <1>5
<1>8. \A u \in Threads : Len(slot'[u]) = 2
  BY <1>3, <1>6, SlotFacts
<1>9. Written(t, i, v)
  BY <1>1, <1>3, <1>6 DEF Written
<1> QED BY <1>7, <1>8, <1>9

\* Hold, point by point.
LEMMA HoldIs ==
    ASSUME NEW o
    PROVE  \A t, i : <<t, i>> \in Hold(o) <=> t \in Threads /\ i \in 1 .. 2 /\ slot[t][i] = o
BY DEF Hold

-----------------------------------------------------------------------------
\* Stacks of calls.

\* The first n calls of t stay, at most one more leaves, and cs come on top.
Stacked(t, n, cs) ==
    /\ n \in Nat /\ cs \in Seq(CallSet)
    /\ todo' \in [Threads -> Seq(CallSet)]
    /\ \A u \in Threads : u # t => todo'[u] = todo[u]
    /\ Len(todo'[t]) = n + Len(cs)
    /\ \A i \in 1 .. n : todo'[t][i] = todo[t][i]
    /\ \A k \in 1 .. Len(cs) : todo'[t][n + k] = cs[k]
    /\ n <= Len(todo[t]) /\ Len(todo[t]) <= n + 1 /\ (n = 0 \/ n < Len(todo[t]))

LEMMA StartStacked ==
    ASSUME TypeInv, NEW t \in Threads, todo[t] = << >>, NEW cs \in Seq(CallSet),
           todo' = [todo EXCEPT ![t] = cs]
    PROVE  Stacked(t, 0, cs)
<1>1. todo \in [Threads -> Seq(CallSet)]
  BY DEF TypeInv
<1>2. /\ todo' \in [Threads -> Seq(CallSet)]
      /\ \A u \in Threads : u # t => todo'[u] = todo[u]
      /\ todo'[t] = cs
  BY <1>1
<1>3. Len(cs) \in Nat /\ Len(todo[t]) = 0
  OBVIOUS
<1>4. Len(todo'[t]) = 0 + Len(cs) /\ \A k \in 1 .. Len(cs) : todo'[t][0 + k] = cs[k]
  BY <1>2, <1>3
<1> QED BY <1>2, <1>3, <1>4 DEF Stacked

LEMMA BecomeStacked ==
    ASSUME TypeInv, NEW t \in Threads, todo[t] # << >>, NEW cs \in Seq(CallSet), Become(t, cs)
    PROVE  \E n \in Nat :
              /\ Len(todo[t]) = n + 1 /\ n + 1 \in DOMAIN todo[t] /\ Last(todo[t]) = todo[t][n + 1]
              /\ todo[t][n + 1] \in CallSet
              /\ Stacked(t, n, cs)
<1>1. todo \in [Threads -> Seq(CallSet)]
  BY DEF TypeInv
<1>2. PICK s \in Seq(CallSet) : s = todo[t] /\ s # << >>
  BY <1>1
<1>3. PICK n \in Nat : Len(s) = n + 1 /\ DOMAIN s = 1 .. n + 1
  <2>1. Len(s) \in Nat /\ Len(s) # 0 /\ DOMAIN s = 1 .. Len(s)
    BY <1>2, EmptySeq
  <2>2. Len(s) - 1 \in Nat /\ Len(s) = (Len(s) - 1) + 1
    BY <2>1
  <2> QED BY <2>1, <2>2
<1>4. PICK b : b = Front(s)
  OBVIOUS
<1>5. b \in Seq(CallSet) /\ Len(b) = n /\ \A i \in 1 .. n : b[i] = s[i]
  <2>1. b = SubSeq(s, 1, n)
    BY <1>3, <1>4 DEF Front
  <2>2. \A i \in 1 .. n : s[i] \in CallSet
    BY <1>2, <1>3
  <2>3. /\ SubSeq(s, 1, n) \in Seq(CallSet)
        /\ Len(SubSeq(s, 1, n)) = IF 1 <= n THEN n - 1 + 1 ELSE 0
        /\ \A i \in 1 .. n - 1 + 1 : SubSeq(s, 1, n)[i] = s[1 + i - 1]
    BY <2>2, SubSeqProperties
  <2>4. \A i \in 1 .. n : i \in 1 .. n - 1 + 1 /\ 1 + i - 1 = i
    OBVIOUS
  <2>5. Len(b) = n
    BY <2>1, <2>3
  <2> QED BY <2>1, <2>3, <2>4, <2>5
<1>6. PICK r : r = b \o cs
  OBVIOUS
<1>7. /\ r \in Seq(CallSet) /\ Len(r) = Len(b) + Len(cs)
      /\ \A i \in 1 .. Len(b) + Len(cs) : r[i] = IF i <= Len(b) THEN b[i] ELSE cs[i - Len(b)]
  BY <1>5, <1>6, ConcatProperties
<1>8. PICK l \in Nat : l = Len(cs)
  OBVIOUS
<1>9. /\ Len(r) = n + l
      /\ \A i \in 1 .. n : r[i] = s[i]
      /\ \A k \in 1 .. l : r[n + k] = cs[k]
  <2>1. Len(r) = n + l /\ \A i \in 1 .. n + l : r[i] = IF i <= n THEN b[i] ELSE cs[i - n]
    BY <1>5, <1>7, <1>8
  <2>2. \A i \in 1 .. n : i \in 1 .. n + l /\ i <= n
    OBVIOUS
  <2>3. \A k \in 1 .. l : n + k \in 1 .. n + l /\ ~(n + k <= n) /\ n + k - n = k
    OBVIOUS
  <2>4. \A i \in 1 .. n : r[i] = s[i]
    BY <1>5, <2>1, <2>2
  <2>5. \A k \in 1 .. l : r[n + k] = cs[k]
    BY <2>1, <2>3
  <2> QED BY <2>1, <2>4, <2>5
<1>10. todo' = [todo EXCEPT ![t] = r]
  BY <1>1, <1>2, <1>4, <1>6 DEF Become
<1>11. /\ todo' \in [Threads -> Seq(CallSet)]
       /\ \A u \in Threads : u # t => todo'[u] = todo[u]
       /\ todo'[t] = r
  BY <1>1, <1>7, <1>10
<1>12. n <= Len(s) /\ Len(s) <= n + 1 /\ n < Len(s)
  BY <1>3
<1>13. Stacked(t, n, cs)
  BY <1>2, <1>8, <1>9, <1>11, <1>12 DEF Stacked
<1>14. n + 1 \in 1 .. n + 1 /\ Last(s) = s[n + 1]
  BY <1>3 DEF Last
<1>15. s[n + 1] \in CallSet
  BY <1>2, <1>3, <1>14
<1> QED BY <1>2, <1>3, <1>13, <1>14, <1>15

\* The calls about an object that are at one of some steps.
Is(c, o, ats) == c.o = o /\ c.at \in ats
CallsOf(o, ats) == UNION {Calls(o, at) : at \in ats}

LEMMA CallsOfIs ==
    ASSUME TypeInv, NEW o, NEW ats
    PROVE  /\ \A t, i : <<t, i>> \in CallsOf(o, ats) <=>
                  t \in Threads /\ i \in DOMAIN todo[t] /\ Is(todo[t][i], o, ats)
           /\ \A h \in CallsOf(o, ats) : \E t \in Threads, i \in Nat : h = <<t, i>>
<1>1. ASSUME NEW t \in Threads, NEW i \in DOMAIN todo[t]
      PROVE  todo[t][i] \in CallSet /\ i \in Nat
  BY DEF TypeInv
<1>2. \A at : \A c \in CallSet : c = Call(at, o) <=> c.at = at /\ c.o = o
  BY DEF CallSet, Call
<1>3. \A h, at : h \in Calls(o, at) <=>
          \E t \in Threads : \E i \in DOMAIN todo[t] : h = <<t, i>> /\ todo[t][i] = Call(at, o)
  BY DEF Calls
<1>4. \A h : h \in CallsOf(o, ats) <=>
          \E t \in Threads : \E i \in DOMAIN todo[t] : h = <<t, i>> /\ Is(todo[t][i], o, ats)
  <2>1. \A h : h \in CallsOf(o, ats) <=> \E at \in ats : h \in Calls(o, at)
    BY DEF CallsOf
  <2> QED BY <1>1, <1>2, <1>3, <2>1 DEF Is
<1> QED BY <1>1, <1>4

LEMMA NamedCalls ==
    ASSUME NEW o
    PROVE  /\ Pend(o) = CallsOf(o, {"lock", "sub"}) /\ Pend(o)' = CallsOf(o, {"lock", "sub"})'
           /\ Ends(o) = CallsOf(o, {"delete", "clear"}) /\ Ends(o)' = CallsOf(o, {"delete", "clear"})'
           /\ \A at : Calls(o, at) = CallsOf(o, {at})
           /\ \A at : Calls(o, at)' = CallsOf(o, {at})'
<1>1. \A a, b : {Calls(o, at) : at \in {a, b}} = {Calls(o, a), Calls(o, b)}
  OBVIOUS
<1>2. \A a, b : {Calls(o, at)' : at \in {a, b}} = {Calls(o, a)', Calls(o, b)'}
  OBVIOUS
<1>3. Pend(o) = CallsOf(o, {"lock", "sub"}) /\ Ends(o) = CallsOf(o, {"delete", "clear"})
  BY <1>1 DEF Pend, Ends, CallsOf
<1>4. Pend(o)' = CallsOf(o, {"lock", "sub"})' /\ Ends(o)' = CallsOf(o, {"delete", "clear"})'
  BY <1>2 DEF Pend, Ends, CallsOf
<1>5. \A at : Calls(o, at) = CallsOf(o, {at})
  BY DEF CallsOf
<1>6. \A at : Calls(o, at)' = CallsOf(o, {at})'
  BY DEF CallsOf
<1> QED BY <1>3, <1>4, <1>5, <1>6

\* Where the calls of cs stand that are about o and at one of ats.
Marks(t, n, cs, o, ats) == {<<t, n + k>> : k \in {k \in 1 .. Len(cs) : Is(cs[k], o, ats)}}

\* What a change of the stack makes of these sets.
LEMMA StepCalls ==
    ASSUME TypeInv, NEW t \in Threads, NEW n, NEW cs, Stacked(t, n, cs), NEW o, NEW ats
    PROVE  /\ CallsOf(o, ats)' = (CallsOf(o, ats) \ {<<t, n + 1>>}) \cup Marks(t, n, cs, o, ats)
           /\ \A k \in Nat : k > 1 => <<t, n + k>> \notin CallsOf(o, ats)
           /\ <<t, n + 1>> \in CallsOf(o, ats) <=> n + 1 = Len(todo[t]) /\ Is(todo[t][n + 1], o, ats)
<1>1. PICK S : S = CallsOf(o, ats)
  OBVIOUS
<1>2. PICK T : T = CallsOf(o, ats)'
  OBVIOUS
<1>3. PICK new : new = {<<t, n + k>> : k \in {k \in 1 .. Len(cs) : Is(cs[k], o, ats)}}
  OBVIOUS
<1>4. /\ \A u, i : <<u, i>> \in S <=> u \in Threads /\ i \in DOMAIN todo[u] /\ Is(todo[u][i], o, ats)
      /\ \A h \in S : \E u \in Threads, i \in Nat : h = <<u, i>>
  BY <1>1, CallsOfIs
<1>5. /\ \A u, i : <<u, i>> \in T <=> u \in Threads /\ i \in DOMAIN todo'[u] /\ Is(todo'[u][i], o, ats)
      /\ \A h \in T : \E u \in Threads, i \in Nat : h = <<u, i>>
  <2>1. \A h, at : h \in Calls(o, at)' <=>
            \E u \in Threads : \E i \in DOMAIN todo'[u] : h = <<u, i>> /\ todo'[u][i] = Call(at, o)
    BY DEF Calls
  <2>2. \A at : \A c \in CallSet : c = Call(at, o) <=> c.at = at /\ c.o = o
    BY DEF CallSet, Call
  <2>3. \A u \in Threads : \A i \in DOMAIN todo'[u] : todo'[u][i] \in CallSet /\ i \in Nat
    BY DEF Stacked
  <2>4. \A h : h \in T <=> \E at \in ats : h \in Calls(o, at)'
    BY <1>2 DEF CallsOf
  <2>5. \A h : h \in T <=> \E u \in Threads : \E i \in DOMAIN todo'[u] : h = <<u, i>> /\ Is(todo'[u][i], o, ats)
    BY <2>1, <2>2, <2>3, <2>4 DEF Is
  <2> QED BY <2>3, <2>5
<1>6. PICK m \in Nat : m = Len(cs)
  BY DEF Stacked
<1>7. DOMAIN todo[t] \in {1 .. n, 1 .. n + 1} /\ (n + 1 \in DOMAIN todo[t] <=> Len(todo[t]) = n + 1)
      /\ 1 .. n \subseteq DOMAIN todo[t]
  <2>1. PICK l \in Nat : l = Len(todo[t]) /\ DOMAIN todo[t] = 1 .. l /\ n <= l /\ l <= n + 1 /\ n \in Nat
    BY DEF Stacked, TypeInv
  <2>2. l = n \/ l = n + 1
    BY <2>1
  <2> QED BY <2>1, <2>2
<1>8. DOMAIN todo'[t] = 1 .. n + m /\ n \in Nat
  BY <1>6 DEF Stacked
<1>9. ASSUME NEW u \in Threads, NEW i \in Nat
      PROVE  <<u, i>> \in T <=> <<u, i>> \in (S \ {<<t, n + 1>>}) \cup new
  <2>1. CASE u # t
    BY <1>3, <1>4, <1>5, <2>1 DEF Stacked
  <2>2. CASE u = t /\ i \in 1 .. n
    <3>1. i \in DOMAIN todo[t] /\ i \in DOMAIN todo'[t] /\ todo'[t][i] = todo[t][i] /\ i # n + 1
      <4>1. i \in DOMAIN todo[t]
        BY <1>7, <2>2
      <4>2. i \in 1 .. n + m /\ i # n + 1
        BY <1>8, <2>2
      <4>3. todo'[t][i] = todo[t][i]
        BY <2>2 DEF Stacked
      <4> QED BY <1>8, <4>1, <4>2, <4>3
    <3>2. <<t, i>> \notin new
      BY <1>3, <1>8, <2>2
    <3> QED BY <1>4, <1>5, <2>2, <3>1, <3>2
  <2>3. CASE u = t /\ i \notin 1 .. n
    <3>1. <<t, i>> \in S => i = n + 1
      BY <1>4, <1>7, <1>8, <2>3
    <3>2. <<t, i>> \in T => <<t, i>> \in new
      <4>1. SUFFICES ASSUME <<t, i>> \in T PROVE <<t, i>> \in new
        OBVIOUS
      <4>2. i \in 1 .. n + m /\ Is(todo'[t][i], o, ats)
        BY <1>5, <1>8, <4>1
      <4>3. PICK k \in 1 .. m : i = n + k
        <5>1. i - n \in 1 .. m /\ i = n + (i - n)
          BY <1>8, <2>3, <4>2
        <5> QED BY <5>1
      <4>4. todo'[t][i] = cs[k]
        BY <1>6, <4>3 DEF Stacked
      <4> QED BY <1>3, <1>6, <4>2, <4>3, <4>4
    <3>3. <<t, i>> \in new => <<t, i>> \in T
      <4>1. SUFFICES ASSUME <<t, i>> \in new PROVE <<t, i>> \in T
        OBVIOUS
      <4>2. PICK k \in 1 .. m : i = n + k /\ Is(cs[k], o, ats)
        BY <1>3, <1>6, <4>1
      <4>3. todo'[t][i] = cs[k] /\ i \in 1 .. n + m
        BY <1>6, <1>8, <4>2 DEF Stacked
      <4> QED BY <1>5, <1>8, <4>2, <4>3
    <3> QED BY <2>3, <3>1, <3>2, <3>3
  <2> QED BY <2>1, <2>2, <2>3
<1>10. \A h \in new : \E i \in Nat : h = <<t, i>>
  BY <1>3, <1>8
<1>11. T = (S \ {<<t, n + 1>>}) \cup new
  BY <1>4, <1>5, <1>9, <1>10
<1>12. \A k \in Nat : k > 1 => <<t, n + k>> \notin S
  BY <1>4, <1>7, <1>8
<1>13. <<t, n + 1>> \in S <=> n + 1 = Len(todo[t]) /\ Is(todo[t][n + 1], o, ats)
  BY <1>4, <1>7
<1>14. new = Marks(t, n, cs, o, ats)
  BY <1>3 DEF Marks
<1> QED BY <1>1, <1>2, <1>11, <1>12, <1>13, <1>14

LEMMA StepSet ==
    ASSUME TypeInv, NEW t \in Threads, NEW n, NEW cs, Stacked(t, n, cs), NEW o, NEW ats, NEW m,
           m = Marks(t, n, cs, o, ats)
    PROVE  CallsOf(o, ats)' = (CallsOf(o, ats) \ {<<t, n + 1>>}) \cup m
BY StepCalls

LEMMA MarksAre ==
    ASSUME NEW t, NEW n, NEW cs, NEW o, NEW ats
    PROVE  /\ (\A k \in 1 .. Len(cs) : ~Is(cs[k], o, ats)) => Marks(t, n, cs, o, ats) = {}
           /\ \A j \in 1 .. Len(cs) : (\A k \in 1 .. Len(cs) : Is(cs[k], o, ats) <=> k = j) =>
                  Marks(t, n, cs, o, ats) = {<<t, n + j>>}
<1>1. (\A k \in 1 .. Len(cs) : ~Is(cs[k], o, ats)) => Marks(t, n, cs, o, ats) = {}
  BY DEF Marks
<1>2. ASSUME NEW j \in 1 .. Len(cs), \A k \in 1 .. Len(cs) : Is(cs[k], o, ats) <=> k = j
      PROVE  Marks(t, n, cs, o, ats) = {<<t, n + j>>}
  <2>1. {k \in 1 .. Len(cs) : Is(cs[k], o, ats)} = {j}
    BY <1>2
  <2> QED BY <2>1 DEF Marks
<1> QED BY <1>1, <1>2

\* The four things that may happen to such a set.
TopIs(t, n, o, ats) == n + 1 = Len(todo[t]) /\ Is(todo[t][n + 1], o, ats)
NoneIs(cs, o, ats) == \A k \in 1 .. Len(cs) : ~Is(cs[k], o, ats)
OnlyIs(cs, o, ats, j) == j \in 1 .. Len(cs) /\ \A k \in 1 .. Len(cs) : Is(cs[k], o, ats) <=> k = j

LEMMA CallsKeep ==
    ASSUME TypeInv, NEW t \in Threads, NEW n, NEW cs, Stacked(t, n, cs), NEW o, NEW ats,
           n + 1 = Len(todo[t]) => ~Is(todo[t][n + 1], o, ats),
           \A k \in 1 .. Len(cs) : ~Is(cs[k], o, ats)
    PROVE  CallsOf(o, ats)' = CallsOf(o, ats)
<1>1. <<t, n + 1>> \notin CallsOf(o, ats)
  BY StepCalls
<1>2. PICK m : m = Marks(t, n, cs, o, ats)
  OBVIOUS
<1>3. m = {}
  BY <1>2, MarksAre
<1>4. CallsOf(o, ats)' = (CallsOf(o, ats) \ {<<t, n + 1>>}) \cup m
  BY <1>2, StepSet
<1> QED BY <1>1, <1>3, <1>4

LEMMA CallsStay ==
    ASSUME TypeInv, NEW t \in Threads, NEW n, NEW cs, Stacked(t, n, cs), NEW o, NEW ats,
           n + 1 = Len(todo[t]), Is(todo[t][n + 1], o, ats),
           NEW j \in 1 .. Len(cs), j = 1, \A k \in 1 .. Len(cs) : Is(cs[k], o, ats) <=> k = j
    PROVE  CallsOf(o, ats)' = CallsOf(o, ats)
<1>1. <<t, n + 1>> \in CallsOf(o, ats)
  BY StepCalls
<1>2. PICK m : m = Marks(t, n, cs, o, ats)
  OBVIOUS
<1>3. m = {<<t, n + 1>>}
  BY <1>2, MarksAre
<1>4. CallsOf(o, ats)' = (CallsOf(o, ats) \ {<<t, n + 1>>}) \cup m
  BY <1>2, StepSet
<1> QED BY <1>1, <1>3, <1>4

LEMMA CallsLose ==
    ASSUME TypeInv, NEW t \in Threads, NEW n, NEW cs, Stacked(t, n, cs), NEW o, NEW ats,
           TopIs(t, n, o, ats), NoneIs(cs, o, ats),
           NEW c, c = <<t, n + 1>>, NEW rest, rest = CallsOf(o, ats) \ {c}
    PROVE  c \in CallsOf(o, ats) /\ CallsOf(o, ats)' = rest
<1>1. <<t, n + 1>> \in CallsOf(o, ats)
  BY StepCalls DEF TopIs
<1>2. PICK m : m = Marks(t, n, cs, o, ats)
  OBVIOUS
<1>3. m = {}
  BY <1>2, MarksAre DEF NoneIs
<1>4. CallsOf(o, ats)' = (CallsOf(o, ats) \ {<<t, n + 1>>}) \cup m
  BY <1>2, StepSet
<1> QED BY <1>1, <1>3, <1>4

LEMMA CallsGain ==
    ASSUME TypeInv, NEW t \in Threads, NEW n, NEW cs, Stacked(t, n, cs), NEW o, NEW ats,
           ~TopIs(t, n, o, ats), NEW j, OnlyIs(cs, o, ats, j),
           NEW c, c = <<t, n + j>>, NEW more, more = CallsOf(o, ats) \cup {c}
    PROVE  c \notin CallsOf(o, ats) /\ CallsOf(o, ats)' = more
<1>1. <<t, n + 1>> \notin CallsOf(o, ats)
  BY StepCalls DEF TopIs
<1>2. PICK m : m = Marks(t, n, cs, o, ats)
  OBVIOUS
<1>3. j \in Nat /\ (j = 1 \/ j > 1)
  BY DEF Stacked, OnlyIs
<1>4. <<t, n + j>> \notin CallsOf(o, ats)
  BY <1>1, <1>3, StepCalls
<1>5. m = {<<t, n + j>>}
  BY <1>2, MarksAre DEF OnlyIs
<1>6. CallsOf(o, ats)' = (CallsOf(o, ats) \ {<<t, n + 1>>}) \cup m
  BY <1>2, StepSet
<1> QED BY <1>1, <1>4, <1>5, <1>6

\* The calls of a stack: those that stay, and the new ones.
LEMMA StackedCalls ==
    ASSUME TypeInv, NEW t \in Threads, NEW n, NEW cs, Stacked(t, n, cs), NEW i \in DOMAIN todo'[t]
    PROVE  \/ /\ i \in 1 .. n /\ i \in DOMAIN todo[t] /\ todo'[t][i] = todo[t][i]
              /\ n > 0 /\ n < Len(todo[t]) /\ i # Len(todo[t])
           \/ \E k \in 1 .. Len(cs) : i = n + k /\ todo'[t][i] = cs[k]
<1>1. PICK m, l \in Nat : m = Len(cs) /\ l = Len(todo[t]) /\ DOMAIN todo[t] = 1 .. l
                          /\ i \in 1 .. n + m /\ n \in Nat
  BY DEF Stacked, TypeInv
<1>2. CASE i <= n
  <2>1. i \in 1 .. n /\ n > 0
    BY <1>1, <1>2
  <2>2. n < l
    BY <1>1, <2>1 DEF Stacked
  <2>3. i \in 1 .. l /\ i # l
    BY <1>1, <2>1, <2>2
  <2> QED BY <1>1, <2>1, <2>2, <2>3 DEF Stacked
<1>3. CASE i > n
  <2>1. i - n \in 1 .. m /\ i = n + (i - n)
    BY <1>1, <1>3
  <2>2. todo'[t][n + (i - n)] = cs[i - n]
    BY <1>1, <2>1 DEF Stacked
  <2> QED BY <1>1, <2>1, <2>2
<1> QED BY <1>1, <1>2, <1>3

\* What StackInv says of the call c at i of t, which has l calls.
CallOK(t, i, c, l) ==
    /\ c.at \in {"copy", "member"} => slot[t][1] = c.o
    /\ c.at \in {"copy", "member", "take", "grab"} => i = 1 /\ slot[t][2] = None
    /\ c.at \in {"lock", "take", "grab", "sub", "unlock"} => i = l
    /\ c.at = "lock" => mode = "exact"
    /\ c.at \in {"take", "grab", "unlock"} \/ (c.at = "sub" /\ mode = "exact") => sync[c.o] = t

LEMMA StackIs ==
    StackInv <=> \A t \in Threads : \A i \in DOMAIN todo[t] : CallOK(t, i, todo[t][i], Len(todo[t]))
BY DEF StackInv, CallOK

\* Threads that are inside of a call keep their variables and their locks.
LEMMA StackKeeps ==
    ASSUME TypeInv, StackInv, NEW t \in Threads, NEW n, NEW cs, Stacked(t, n, cs), mode' = mode,
           \A u \in Threads, i \in 1 .. 2 : u # t /\ todo[u] # << >> => slot'[u][i] = slot[u][i],
           n > 0 => \A i \in 1 .. 2 : slot'[t][i] = slot[t][i],
           \A x \in Objects, u \in Threads : u # t /\ sync[x] = u => sync'[x] = u,
           \A k \in 1 .. Len(cs) : CallOK(t, n + k, cs[k], n + Len(cs))'
    PROVE  StackInv'
<1>1. ASSUME NEW u \in Threads, NEW i \in DOMAIN todo'[u], u # t
      PROVE  CallOK(u, i, todo[u][i], Len(todo[u]))' /\ todo'[u] = todo[u]
  <2>1. todo'[u] = todo[u] /\ i \in DOMAIN todo[u] /\ todo[u] # << >>
    BY <1>1 DEF Stacked
  <2>2. PICK c \in CallSet : c = todo[u][i]
    BY <2>1 DEF TypeInv
  <2>3. c.o \in Objects /\ CallOK(u, i, c, Len(todo[u]))
    BY <2>1, <2>2, StackIs DEF CallSet
  <2>4. slot'[u][1] = slot[u][1] /\ slot'[u][2] = slot[u][2] /\ (sync[c.o] = u => sync'[c.o] = u)
    BY <1>1, <2>1, <2>3
  <2>5. PICK l : l = Len(todo[u])
    OBVIOUS
  <2>6. c' = c /\ l' = l
    OBVIOUS
  <2>7. CallOK(u, i, c, l)'
    BY <2>3, <2>4, <2>5 DEF CallOK
  <2> QED BY <2>1, <2>2, <2>5, <2>7 DEF CallOK
<1>2. ASSUME NEW i \in DOMAIN todo'[t]
      PROVE  \E c \in CallSet, l \in Nat :
                c = todo'[t][i] /\ l = Len(todo'[t]) /\ CallOK(t, i, c, l)'
  <2>1. PICK l \in Nat : l = Len(todo'[t])
    BY DEF Stacked
  <2>2. PICK c \in CallSet : c = todo'[t][i]
    BY DEF Stacked
  <2>3. CASE i \in 1 .. n /\ i \in DOMAIN todo[t] /\ todo'[t][i] = todo[t][i]
              /\ n > 0 /\ n < Len(todo[t]) /\ i # Len(todo[t])
    <3>1. CallOK(t, i, c, Len(todo[t]))
      BY <2>2, <2>3, StackIs
    <3>2. c.at \notin {"lock", "take", "grab", "sub", "unlock"}
      BY <2>3, <3>1 DEF CallOK
    <3>3. slot'[t][1] = slot[t][1] /\ slot'[t][2] = slot[t][2]
      BY <2>3
    <3>4. CallOK(t, i, c, l)'
      BY <3>1, <3>2, <3>3 DEF CallOK
    <3> QED BY <2>1, <2>2, <3>4
  <2>4. CASE \E k \in 1 .. Len(cs) : i = n + k /\ todo'[t][i] = cs[k]
    <3>1. PICK k \in 1 .. Len(cs) : i = n + k /\ c = cs[k]
      BY <2>2, <2>4
    <3>2. l = n + Len(cs)
      BY <2>1 DEF Stacked
    <3>3. CallOK(t, i, c, l)'
      BY <3>1, <3>2
    <3> QED BY <2>1, <2>2, <3>3
  <2> QED BY <2>3, <2>4, StackedCalls
<1> QED BY <1>1, <1>2 DEF StackInv, CallOK

-----------------------------------------------------------------------------
\* What a step leaves alone.

LEMMA HoldSet ==
    ASSUME TypeInv, NEW t \in Threads, NEW i \in 1 .. 2, NEW v, Written(t, i, v), NEW o
    PROVE  /\ o = v => Hold(o)' = Hold(o) \cup {<<t, i>>}
           /\ o # v => Hold(o)' = Hold(o) \ {<<t, i>>}
           /\ <<t, i>> \in Hold(o) <=> slot[t][i] = o
<1>1. PICK S, T : S = Hold(o) /\ T = Hold(o)'
  OBVIOUS
<1>2. \A h \in S \cup T : \E u \in Threads, j \in 1 .. 2 : h = <<u, j>>
  BY <1>1 DEF Hold
<1>3. \A u \in Threads, j \in 1 .. 2 : <<u, j>> \in S <=> slot[u][j] = o
  BY <1>1 DEF Hold
<1>4. \A u \in Threads, j \in 1 .. 2 : <<u, j>> \in T <=> slot'[u][j] = o
  BY <1>1 DEF Hold
<1>5. \A u \in Threads, j \in 1 .. 2 : <<u, j>> = <<t, i>> <=> u = t /\ j = i
  OBVIOUS
<1>6. ASSUME o = v PROVE T = S \cup {<<t, i>>}
  <2>1. \A u \in Threads, j \in 1 .. 2 : slot'[u][j] = o <=> slot[u][j] = o \/ (u = t /\ j = i)
    BY <1>6 DEF Written
  <2>2. \A u \in Threads, j \in 1 .. 2 : <<u, j>> \in T <=> <<u, j>> \in S \/ <<u, j>> = <<t, i>>
    BY <1>3, <1>4, <1>5, <2>1
  <2>3. <<t, i>> \in T
    BY <2>2, <1>5
  <2>4. PICK x : x = <<t, i>>
    OBVIOUS
  <2>5. \A h : h \in T <=> h \in S \/ h = x
    <3>1. ASSUME NEW h, h \in S \cup T PROVE h \in T <=> h \in S \/ h = x
      <4>1. PICK u \in Threads, j \in 1 .. 2 : h = <<u, j>>
        BY <1>2, <3>1
      <4>2. <<u, j>> \in T <=> <<u, j>> \in S \/ <<u, j>> = <<t, i>>
        BY <2>2
      <4> QED BY <2>4, <4>1, <4>2
    <3> QED BY <2>3, <2>4, <3>1
  <2>6. T = S \cup {x}
    BY <2>5
  <2> QED BY <2>4, <2>6
<1>7. ASSUME o # v PROVE T = S \ {<<t, i>>}
  <2>1. \A u \in Threads, j \in 1 .. 2 : slot'[u][j] = o <=> slot[u][j] = o /\ ~(u = t /\ j = i)
    BY <1>7 DEF Written
  <2>2. \A u \in Threads, j \in 1 .. 2 : <<u, j>> \in T <=> <<u, j>> \in S /\ <<u, j>> # <<t, i>>
    BY <1>3, <1>4, <1>5, <2>1
  <2>3. PICK x : x = <<t, i>>
    OBVIOUS
  <2>4. \A h : h \in T <=> h \in S /\ h # x
    <3>1. ASSUME NEW h, h \in S \cup T PROVE h \in T <=> h \in S /\ h # x
      <4>1. PICK u \in Threads, j \in 1 .. 2 : h = <<u, j>>
        BY <1>2, <3>1
      <4>2. <<u, j>> \in T <=> <<u, j>> \in S /\ <<u, j>> # <<t, i>>
        BY <2>2
      <4> QED BY <2>3, <4>1, <4>2
    <3> QED BY <3>1
  <2>5. T = S \ {x}
    BY <2>4
  <2> QED BY <2>3, <2>5
<1> QED BY <1>1, <1>3, <1>6, <1>7

LEMMA HoldLoses ==
    ASSUME TypeInv, NEW t \in Threads, NEW i \in 1 .. 2, NEW v, Written(t, i, v), NEW o,
           o # v, slot[t][i] = o, NEW h, h = <<t, i>>, NEW rest, rest = Hold(o) \ {h}
    PROVE  h \in Hold(o) /\ Hold(o)' = rest
<1>1. PICK S : S = Hold(o)
  OBVIOUS
<1>2. Hold(o)' = S \ {h}
  BY <1>1, HoldSet
<1>3. h \in S
  BY <1>1, HoldSet
<1> QED BY <1>1, <1>2, <1>3

LEMMA HoldUntouched ==
    ASSUME TypeInv, NEW t \in Threads, NEW i \in 1 .. 2, NEW v, Written(t, i, v), NEW o,
           o # v, slot[t][i] # o
    PROVE  Hold(o)' = Hold(o)
<1>1. PICK h : h = <<t, i>>
  OBVIOUS
<1>2. PICK S : S = Hold(o)
  OBVIOUS
<1>3. Hold(o)' = S \ {h}
  BY <1>1, <1>2, HoldSet
<1>4. h \notin S
  BY <1>1, <1>2, HoldSet
<1> QED BY <1>2, <1>3, <1>4

LEMMA HoldSame ==
    ASSUME TypeInv, \A u \in Threads, j \in 1 .. 2 : slot'[u][j] = slot[u][j], NEW o
    PROVE  Hold(o)' = Hold(o)
BY DEF Hold

LEMMA CallsSame ==
    ASSUME todo' = todo, NEW o, NEW ats
    PROVE  CallsOf(o, ats)' = CallsOf(o, ats)
BY DEF CallsOf, Calls

LEMMA StackSame ==
    ASSUME StackInv, todo' = todo, mode' = mode, sync' = sync,
           \A u \in Threads, i \in 1 .. 2 : todo[u] # << >> => slot'[u][i] = slot[u][i]
    PROVE  StackInv'
<1>1. ASSUME NEW u \in Threads, NEW i \in DOMAIN todo[u]
      PROVE  slot'[u][1] = slot[u][1] /\ slot'[u][2] = slot[u][2]
  BY DOMAIN << >> = {}
<1> QED BY <1>1 DEF StackInv

LEMMA EndKeeps ==
    ASSUME NEW o, EndOK(o), life'[o] = life[o], refs[o] \in Nat, refs'[o] \in Nat,
           refs'[o] = 0 <=> refs[o] = 0,
           CallsOf(o, {"delete", "clear"})' = CallsOf(o, {"delete", "clear"}),
           CallsOf(o, {"delete"})' = CallsOf(o, {"delete"})
    PROVE  EndOK(o)'
<1>1. Ends(o)' = Ends(o) /\ Calls(o, "delete")' = Calls(o, "delete")
  BY NamedCalls
<1>2. Here(o)' = Here(o) /\ (refs'[o] > 0 <=> refs[o] > 0)
  BY DEF Here
<1> QED BY <1>1, <1>2 DEF EndOK

\* Locks that other threads hold, and what they have for it.
LEMMA LockKeeps ==
    ASSUME TypeInv, LockInv, NEW t \in Threads, mode' = mode,
           \A u \in Threads : u # t => todo'[u] = todo[u] /\ weak'[u] = weak[u],
           \A x \in Objects, u \in Threads :
                u # t /\ sync'[x] = u =>
                    /\ sync[x] = u
                    /\ (refs[x] > 0 => refs'[x] > 0) \/ (mode # "exact" /\ ~Grabs(u)),
           \A x \in Objects : block[x] # "none" => block'[x] # "none",
           \A x \in Objects : sync'[x] = t => LockOK(t, x)'
    PROVE  LockInv'
<1>1. ASSUME NEW x \in Objects, NEW u \in Threads, u # t, sync'[x] = u
      PROVE  LockOK(u, x)'
  <2>1. /\ LockOK(u, x) /\ todo'[u] = todo[u] /\ weak'[u] = weak[u]
        /\ (refs[x] > 0 => refs'[x] > 0) \/ (mode # "exact" /\ ~Grabs(u))
    BY <1>1 DEF LockInv
  <2>2. Pinned(u, x)' /\ (Grabs(u)' => refs'[x] > 0)
    <3>1. Grabs(u)' = Grabs(u)
      BY <2>1 DEF Grabs
    <3>2. CASE refs[x] > 0 => refs'[x] > 0
      BY <2>1, <3>1, <3>2 DEF LockOK, Pinned
    <3>3. CASE mode # "exact" /\ ~Grabs(u)
      BY <2>1, <3>1, <3>3 DEF LockOK, Pinned
    <3> QED BY <2>1, <3>2, <3>3
  <2>3. block'[x] # "none"
    BY <2>1 DEF LockOK
  <2> QED BY <2>1, <2>2, <2>3 DEF LockOK
<1> QED BY <1>1 DEF LockInv

LEMMA BlockKeeps ==
    ASSUME NEW o, BlockOK(o), Watch(o)' = Watch(o), block'[o] = block[o], blockRefs'[o] = blockRefs[o],
           data'[o] => data[o], Here(o)' = Here(o), life'[o] = "none" => life[o] = "none"
    PROVE  BlockOK(o)'
BY DEF BlockOK

LEMMA DataKeeps ==
    ASSUME NEW o, DataOK(o), data'[o] => data[o], Here(o)' = Here(o), mode' = mode,
           mode = "exact" /\ refs[o] > 0 /\ data'[o] => refs'[o] > 0
    PROVE  DataOK(o)'
BY DEF DataOK

\* An idle thread holds no lock, and what its variables point to lives.
LEMMA IdleFacts ==
    ASSUME RefInv, NEW t \in Threads, todo[t] = << >>
    PROVE  \A x \in Objects : sync[x] # t
BY DEF RefInv, LockInv, LockOK

LEMMA Referred ==
    ASSUME RefInv, NEW o \in Objects, Hold(o) \cup Links(o) \cup Pend(o) # {}
    PROVE  refs[o] \in Nat /\ refs[o] > 0 /\ life[o] = "alive" /\ Here(o) /\ Ends(o) = {}
<1>1. refs[o] \in Nat /\ refs[o] > 0
  BY CountedSome DEF RefInv, CountInv, CountOK
<1>2. life[o] = "alive"
  BY <1>1 DEF RefInv, EndInv, EndOK
<1>3. Ends(o) = {}
  BY <1>1 DEF RefInv, EndInv, EndOK
<1> QED BY <1>1, <1>2, <1>3 DEF Here

LEMMA HeldFacts ==
    ASSUME RefInv, NEW t \in Threads, NEW i \in 1 .. 2, slot[t][i] # None
    PROVE  /\ slot[t][i] \in Objects /\ <<t, i>> \in Hold(slot[t][i])
           /\ refs[slot[t][i]] \in Nat /\ refs[slot[t][i]] > 0 /\ life[slot[t][i]] = "alive"
           /\ Here(slot[t][i]) /\ Ends(slot[t][i]) = {}
<1>1. PICK o \in Objects : o = slot[t][i]
  BY SlotFacts DEF RefInv, MaybeObjects
<1>2. <<t, i>> \in Hold(o)
  BY <1>1 DEF Hold
<1>3. refs[o] \in Nat /\ refs[o] > 0 /\ life[o] = "alive" /\ Here(o) /\ Ends(o) = {}
  BY <1>2, Referred
<1> QED BY <1>1, <1>2, <1>3

\* An object that nothing happens to.
LEMMA CountKeeps ==
    ASSUME NEW o, CountOK(o), refs'[o] = refs[o], Hold(o)' = Hold(o), Links(o)' = Links(o),
           CallsOf(o, {"lock", "sub"})' = CallsOf(o, {"lock", "sub"})
    PROVE  CountOK(o)'
<1>1. Pend(o)' = Pend(o)
  BY NamedCalls
<1> QED BY <1>1 DEF CountOK, Counted

LEMMA WeakSame ==
    ASSUME RefInv, mode' = mode, life' = life,
           UNCHANGED <<weak, block, blockRefs, data>>,
           \A x \in Objects : refs[x] > 0 => refs'[x] > 0
    PROVE  BlockInv' /\ DataInv'
<1>1. ASSUME NEW x \in Objects PROVE BlockOK(x)' /\ DataOK(x)'
  <2>1. BlockOK(x) /\ DataOK(x)
    BY DEF RefInv, BlockInv, DataInv
  <2>2. Watch(x)' = Watch(x) /\ Here(x)' = Here(x)
    BY DEF Watch, Here
  <2>3. BlockOK(x)'
    BY <2>1, <2>2, BlockKeeps
  <2>4. DataOK(x)'
    BY <2>1, <2>2, DataKeeps
  <2> QED BY <2>3, <2>4
<1> QED BY <1>1 DEF BlockInv, DataInv

LEMMA LinksSame ==
    ASSUME next' = next, NEW o
    PROVE  Links(o)' = Links(o)
BY DEF Links

\* An idle thread without an object in its second variable, and whoever is
\* about to fill it, gets one more reference to an object that has some.
LEMMA Gains ==
    ASSUME RefInv, NEW t \in Threads, NEW v \in MaybeObjects, slot[t][2] = None,
           Sets(t, 2, v),
           refs' = IF v = None THEN refs ELSE [refs EXCEPT ![v] = @ + 1],
           next' = next, life' = life,
           v # None => refs[v] > 0,
           \A x \in Objects : /\ CallsOf(x, {"lock", "sub"})' = CallsOf(x, {"lock", "sub"})
                              /\ CallsOf(x, {"delete", "clear"})' = CallsOf(x, {"delete", "clear"})
                              /\ CallsOf(x, {"delete"})' = CallsOf(x, {"delete"})
    PROVE  /\ CountInv' /\ EndInv'
           /\ slot' \in [Threads -> Seq(MaybeObjects)] /\ \A u \in Threads : Len(slot'[u]) = 2
           /\ refs' \in [Objects -> Nat]
           /\ \A x \in Objects : refs[x] > 0 => refs'[x] > 0
           /\ \A u \in Threads, i \in 1 .. 2 : u # t => slot'[u][i] = slot[u][i]
<1> USE ObjectsAssumption
<1>1. TypeInv
  BY DEF RefInv
<1>0. PICK i \in 1 .. 2 : i = 2
  OBVIOUS
<1>2. Written(t, i, v)
  BY <1>0, <1>1, SlotSet
<1>3. slot' \in [Threads -> Seq(MaybeObjects)] /\ \A u \in Threads : Len(slot'[u]) = 2
  BY <1>0, <1>1, SlotSet
<1>4. refs \in [Objects -> Nat] /\ v \in Objects \cup {None}
  BY <1>1 DEF TypeInv, MaybeObjects
<1>5. ASSUME NEW x \in Objects
      PROVE  refs'[x] = (IF x = v THEN refs[x] + 1 ELSE refs[x]) /\ refs[x] \in Nat /\ refs'[x] \in Nat
  BY <1>4
<1>6. refs' \in [Objects -> Nat]
  BY <1>4
<1>7. ASSUME NEW x \in Objects PROVE CountOK(x)'
  <2>1. CountOK(x) /\ x # None
    BY DEF RefInv, CountInv
  <2>2. Pend(x)' = Pend(x) /\ Links(x)' = Links(x)
    BY NamedCalls, LinksSame
  <2>3. CASE x = v
    <3>1. PICK h : h = <<t, i>>
      OBVIOUS
    <3>2. PICK S : S = Hold(x)
      OBVIOUS
    <3>3. Hold(x)' = S \cup {h} /\ h \notin S
      BY <1>0, <1>1, <1>2, <2>1, <2>3, <3>1, <3>2, HoldSet
    <3>4. PICK n \in Nat : n = refs[x]
      BY <1>5
    <3>5. PICK L, P : L = Links(x) /\ P = Pend(x)
      OBVIOUS
    <3>6. Counted(n + 1, S \cup {h}, L, P)
      BY <2>1, <3>2, <3>3, <3>4, <3>5, CountedAdds DEF CountOK
    <3>7. refs'[x] = n + 1
      BY <1>5, <2>3, <3>4
    <3> QED BY <2>2, <3>3, <3>5, <3>6, <3>7 DEF CountOK, Counted
  <2>4. CASE x # v
    <3>1. slot[t][i] # x
      BY <1>0, <2>1
    <3>2. Hold(x)' = Hold(x)
      BY <1>1, <1>2, <2>4, <3>1, HoldUntouched
    <3>3. refs'[x] = refs[x]
      BY <1>5, <2>4
    <3> QED BY <2>1, <2>2, <3>2, <3>3, CountKeeps
  <2> QED BY <2>3, <2>4
<1>8. ASSUME NEW x \in Objects PROVE EndOK(x)'
  <2>1. EndOK(x)
    BY DEF RefInv, EndInv
  <2>2. refs'[x] = 0 <=> refs[x] = 0
    BY <1>5
  <2> QED BY <1>5, <2>1, <2>2, EndKeeps
<1>9. CountInv' /\ EndInv'
  BY <1>7, <1>8 DEF CountInv, EndInv
<1>10. \A x \in Objects : refs[x] > 0 => refs'[x] > 0
  BY <1>5
<1>11. \A u \in Threads, k \in 1 .. 2 : u # t => slot'[u][k] = slot[u][k]
  BY <1>2 DEF Written
<1> QED BY <1>3, <1>6, <1>9, <1>10, <1>11

LEMMA IdleLock ==
    ASSUME RefInv, NEW t \in Threads, todo[t] = << >>, mode' = mode, sync' = sync,
           \A u \in Threads : u # t => todo'[u] = todo[u] /\ weak'[u] = weak[u],
           \A x \in Objects : refs[x] > 0 => refs'[x] > 0,
           \A x \in Objects : block[x] # "none" => block'[x] # "none"
    PROVE  LockInv'
<1>1. TypeInv /\ LockInv
  BY DEF RefInv
<1>2. \A x \in Objects : sync'[x] # t
  BY IdleFacts
<1>3. \A x \in Objects, u \in Threads :
          u # t /\ sync'[x] = u => sync[x] = u /\ (refs[x] > 0 => refs'[x] > 0)
  OBVIOUS
<1>4. \A x \in Objects : sync'[x] = t => LockOK(t, x)'
  BY <1>2
<1> QED BY <1>1, <1>3, <1>4, LockKeeps

-----------------------------------------------------------------------------
\* The actions.

LEMMA NewPreserves ==
    ASSUME RefInv, NEW t \in Threads, NEW o \in Objects, New(t, o)
    PROVE  RefInv'
<1> USE ObjectsAssumption
<1>1. /\ TypeInv /\ StackInv
      /\ todo[t] = << >> /\ life[o] = "none" /\ slot[t][1] = None /\ o # None
      /\ mode' = mode /\ next' = next /\ todo' = todo /\ crashed' = crashed
      /\ UNCHANGED <<weak, block, blockRefs, data, sync>>
  BY DEF RefInv, New, Free, weakVars
<1>2. PICK i \in 1 .. 2 : i = 1
  OBVIOUS
<1>3. o \in MaybeObjects /\ Sets(t, i, o)
  BY <1>2 DEF New, Sets, MaybeObjects
<1>4. /\ slot' \in [Threads -> Seq(MaybeObjects)] /\ \A u \in Threads : Len(slot'[u]) = 2
      /\ Written(t, i, o)
  BY <1>1, <1>3, SlotSet
<1>5. refs \in [Objects -> Nat] /\ life \in [Objects -> {"none", "alive", "dying", "dead"}]
  BY <1>1 DEF TypeInv
<1>6. /\ refs' \in [Objects -> Nat] /\ life' \in [Objects -> {"none", "alive", "dying", "dead"}]
      /\ refs'[o] = 1 /\ life'[o] = "alive"
      /\ \A x \in Objects : x # o => refs'[x] = refs[x] /\ life'[x] = life[x]
  BY <1>5 DEF New
<1>7. TypeInv'
  BY <1>1, <1>4, <1>6 DEF TypeInv
<1>8. /\ CountOK(o) /\ EndOK(o) /\ BlockOK(o) /\ refs[o] \in Nat
      /\ refs[o] = 0 /\ ~Here(o) /\ Ends(o) = {} /\ block[o] = "none" /\ ~data[o] /\ Watch(o) = {}
  <2>1. CountOK(o) /\ EndOK(o) /\ BlockOK(o) /\ refs[o] \in Nat
    BY <1>5 DEF RefInv, CountInv, EndInv, BlockInv
  <2>2. refs[o] = 0
    BY <1>1, <2>1 DEF EndOK
  <2>3. ~Here(o) /\ Ends(o) = {}
    BY <1>1, <2>1 DEF EndOK, Here
  <2>4. block[o] = "none" /\ ~data[o] /\ Watch(o) = {}
    BY <1>1, <2>1 DEF BlockOK
  <2> QED BY <2>1, <2>2, <2>3, <2>4
<1>9. \A x, ats : CallsOf(x, ats)' = CallsOf(x, ats)
  BY <1>1, CallsSame
<1>10. \A x : Pend(x)' = Pend(x) /\ Ends(x)' = Ends(x) /\ Calls(x, "delete")' = Calls(x, "delete")
              /\ Links(x)' = Links(x)
  <2>1. TAKE x
  <2>2. Links(x)' = Links(x)
    BY <1>1, LinksSame
  <2>3. Pend(x)' = Pend(x) /\ Ends(x)' = Ends(x)
    BY <1>9, NamedCalls
  <2>4. Calls(x, "delete")' = Calls(x, "delete")
    BY <1>1 DEF Calls
  <2> QED BY <2>2, <2>3, <2>4
<1>11. ASSUME NEW x \in Objects PROVE CountOK(x)' /\ EndOK(x)'
  <2>1. CASE x = o
    <3>1. PICK h, S : h = <<t, i>> /\ S = Hold(o)
      OBVIOUS
    <3>2. Hold(o)' = S \cup {h} /\ h \notin S
      <4>1. PICK v : v = o
        OBVIOUS
      <4>2. Written(t, i, v) /\ slot[t][i] # o
        BY <1>1, <1>2, <1>4, <4>1
      <4>3. Hold(o)' = S \cup {h}
        BY <1>1, <3>1, <4>1, <4>2, HoldSet
      <4>4. h \notin S
        BY <1>1, <3>1, <4>1, <4>2, HoldSet
      <4> QED BY <4>3, <4>4
    <3>3. PICK L, P : L = Links(o) /\ P = Pend(o)
      OBVIOUS
    <3>4. Counted(0 + 1, S \cup {h}, L, P)
      BY <1>8, <3>1, <3>2, <3>3, CountedAdds DEF CountOK
    <3>5. CountOK(o)'
      BY <1>6, <1>10, <3>2, <3>3, <3>4 DEF CountOK, Counted
    <3>6. EndOK(o)'
      BY <1>6, <1>8, <1>10 DEF EndOK
    <3> QED BY <2>1, <3>5, <3>6
  <2>2. CASE x # o
    <3>1. Hold(x)' = Hold(x)
      BY <1>1, <1>2, <1>4, <2>2, HoldUntouched
    <3>2. CountOK(x) /\ EndOK(x) /\ refs[x] \in Nat /\ refs'[x] \in Nat
      BY <1>5, <1>6 DEF RefInv, CountInv, EndInv
    <3>3. CountOK(x)'
      BY <1>6, <1>9, <1>10, <2>2, <3>1, <3>2, CountKeeps
    <3>4. EndOK(x)'
      BY <1>6, <1>9, <2>2, <3>2, EndKeeps
    <3> QED BY <3>3, <3>4
  <2> QED BY <2>1, <2>2
<1>12. StackInv'
  <2>1. \A u \in Threads, k \in 1 .. 2 : todo[u] # << >> => slot'[u][k] = slot[u][k]
    BY <1>1, <1>4 DEF Written
  <2> QED BY <1>1, <2>1, StackSame
<1>13. LockInv'
  <2>1. \A x \in Objects : refs[x] > 0 => refs'[x] > 0
    BY <1>6
  <2> QED BY <1>1, <2>1, IdleLock
<1>14. ASSUME NEW x \in Objects PROVE BlockOK(x)' /\ DataOK(x)'
  <2>1. Watch(x)' = Watch(x)
    BY <1>1 DEF Watch
  <2>2. CASE x = o
    <3>1. BlockOK(o)'
      BY <1>1, <1>6, <1>8, <2>1, <2>2 DEF BlockOK
    <3>2. DataOK(o)'
      BY <1>1, <1>8 DEF DataOK
    <3> QED BY <2>2, <3>1, <3>2
  <2>3. CASE x # o
    <3>1. BlockOK(x) /\ DataOK(x) /\ Here(x)' = Here(x)
      BY <1>6, <2>3 DEF RefInv, BlockInv, DataInv, Here
    <3>2. BlockOK(x)'
      BY <1>1, <1>6, <2>1, <2>3, <3>1, BlockKeeps
    <3>3. DataOK(x)'
      BY <1>1, <1>6, <2>3, <3>1, DataKeeps
    <3> QED BY <3>2, <3>3
  <2> QED BY <2>2, <2>3
<1> QED BY <1>7, <1>11, <1>12, <1>13, <1>14 DEF RefInv, CountInv, EndInv, BlockInv, DataInv

LEMMA CopyPreserves ==
    ASSUME RefInv, NEW t \in Threads, Copy(t)
    PROVE  RefInv'
<1> USE ObjectsAssumption
<1>1. /\ TypeInv /\ StackInv
      /\ todo[t] = << >> /\ slot[t][1] # None /\ slot[t][2] = None
      /\ mode' = mode /\ next' = next /\ todo' = todo /\ crashed' = crashed /\ life' = life
      /\ UNCHANGED <<weak, block, blockRefs, data, sync>>
  BY DEF RefInv, Copy, Free, weakVars
<1>2. PICK o \in Objects : o = slot[t][1] /\ refs[o] > 0 /\ o # None
  <2>1. PICK i \in 1 .. 2 : i = 1
    OBVIOUS
  <2> QED BY <1>1, <2>1, HeldFacts
<1>3. /\ o \in MaybeObjects /\ Sets(t, 2, o)
      /\ refs' = IF o = None THEN refs ELSE [refs EXCEPT ![o] = @ + 1]
      /\ o # None => refs[o] > 0
  BY <1>2 DEF Copy, Sets, MaybeObjects
<1>4. \A x \in Objects : /\ CallsOf(x, {"lock", "sub"})' = CallsOf(x, {"lock", "sub"})
                         /\ CallsOf(x, {"delete", "clear"})' = CallsOf(x, {"delete", "clear"})
                         /\ CallsOf(x, {"delete"})' = CallsOf(x, {"delete"})
  BY <1>1, CallsSame
<1>5. /\ CountInv' /\ EndInv'
      /\ slot' \in [Threads -> Seq(MaybeObjects)] /\ \A u \in Threads : Len(slot'[u]) = 2
      /\ refs' \in [Objects -> Nat]
      /\ \A x \in Objects : refs[x] > 0 => refs'[x] > 0
      /\ \A u \in Threads, i \in 1 .. 2 : u # t => slot'[u][i] = slot[u][i]
  BY <1>1, <1>3, <1>4, Gains
<1>6. TypeInv'
  BY <1>1, <1>5 DEF TypeInv
<1>7. StackInv'
  BY <1>1, <1>5, StackSame
<1>8. LockInv'
  BY <1>1, <1>5, IdleLock
<1>9. BlockInv' /\ DataInv'
  BY <1>1, <1>5, WeakSame
<1> QED BY <1>5, <1>6, <1>7, <1>8, <1>9 DEF RefInv

\* What `if (data) Unref(data)` puts on the stack.
LEMMA UnrefIs ==
    ASSUME TypeInv, NEW v \in MaybeObjects
    PROVE  /\ Unref(v) \in Seq(CallSet)
           /\ v = None => Unref(v) = << >> /\ Len(Unref(v)) = 0
           /\ v # None => /\ Len(Unref(v)) = 1 /\ Unref(v)[1].o = v
                          /\ Unref(v)[1].at = (IF mode = "exact" THEN "lock" ELSE "sub")
<1>1. CASE v = None
  BY <1>1 DEF Unref
<1>2. CASE v # None
  <2>1. PICK a \in Steps : a = IF mode = "exact" THEN "lock" ELSE "sub"
    BY DEF Steps
  <2>2. PICK c : c = [at |-> a, o |-> v]
    OBVIOUS
  <2>3. c \in CallSet /\ c.o = v /\ c.at = a
    BY <1>2, <2>2 DEF CallSet, MaybeObjects
  <2>4. Unref(v) = <<c>>
    BY <1>2, <2>1, <2>2 DEF Unref, Call
  <2> QED BY <1>2, <2>1, <2>3, <2>4
<1> QED BY <1>1, <1>2

\* A variable of an idle thread gives up its object v: the reference becomes
\* the call at j of cs, the only one of cs that has to do with references.
LEMMA GivesUp ==
    ASSUME RefInv, NEW t \in Threads, NEW i \in 1 .. 2, NEW v, v = slot[t][i],
           Sets(t, i, None), NEW cs, Stacked(t, 0, cs), todo[t] = << >>,
           refs' = refs, next' = next, life' = life,
           v # None => \E j \in 1 .. Len(cs) :
                /\ Is(cs[j], v, {"lock", "sub"})
                /\ \A k \in 1 .. Len(cs) : k # j => cs[k].at \notin {"lock", "sub"},
           v = None => \A k \in 1 .. Len(cs) : cs[k].at \notin {"lock", "sub"},
           \A k \in 1 .. Len(cs) : cs[k].at \notin {"delete", "clear"}
    PROVE  /\ CountInv' /\ EndInv'
           /\ slot' \in [Threads -> Seq(MaybeObjects)] /\ \A u \in Threads : Len(slot'[u]) = 2
           /\ Written(t, i, None)
<1> USE ObjectsAssumption
<1>1. TypeInv /\ None \in MaybeObjects
  BY DEF RefInv, MaybeObjects
<1>2. /\ slot' \in [Threads -> Seq(MaybeObjects)] /\ \A u \in Threads : Len(slot'[u]) = 2
      /\ Written(t, i, None)
  BY <1>1, SlotSet
<1>3. PICK z \in Nat : z = 0 /\ Stacked(t, z, cs) /\ z + 1 # Len(todo[t])
  <2>1. Len(todo[t]) = 0
    OBVIOUS
  <2> QED BY <2>1
<1>4. ASSUME NEW x \in Objects PROVE CountOK(x)'
  <2>1. CountOK(x) /\ x # None
    BY DEF RefInv, CountInv
  <2>2. PICK L, P, H, n : L = Links(x) /\ P = Pend(x) /\ H = Hold(x) /\ n = refs[x]
    OBVIOUS
  <2>3. Links(x)' = L /\ Counted(n, H, P, L) /\ P = CallsOf(x, {"lock", "sub"})
    <3>1. Counted(n, H, L, P)
      BY <2>1, <2>2 DEF CountOK
    <3>2. Counted(n, H, P, L)
      BY <3>1, CountedSwaps
    <3> QED BY <2>2, <3>2, LinksSame, NamedCalls
  <2>4. CASE x # v
    <3>1. Hold(x)' = H
      BY <1>1, <1>2, <2>1, <2>2, <2>4, HoldUntouched
    <3>2. \A k \in 1 .. Len(cs) : ~Is(cs[k], x, {"lock", "sub"})
      BY <2>4 DEF Is
    <3>3. CallsOf(x, {"lock", "sub"})' = CallsOf(x, {"lock", "sub"})
      BY <1>1, <1>3, <3>2, CallsKeep
    <3> QED BY <2>1, <2>2, <2>3, <3>1, <3>3, CountKeeps
  <2>5. CASE x = v
    <3>1. PICK h : h = <<t, i>>
      OBVIOUS
    <3>2. Hold(x)' = H \ {h}
      <4>1. x # None /\ slot[t][i] = x
        BY <2>1, <2>5
      <4>2. PICK rest : rest = Hold(x) \ {h}
        OBVIOUS
      <4>3. Hold(x)' = rest
        BY <1>1, <1>2, <3>1, <4>1, <4>2, HoldLoses
      <4> QED BY <2>2, <4>2, <4>3
    <3>3. h \in H
      BY <1>1, <1>2, <2>1, <2>2, <2>5, <3>1, HoldLoses
    <3>4. PICK j \in 1 .. Len(cs) :
              /\ Is(cs[j], v, {"lock", "sub"})
              /\ \A k \in 1 .. Len(cs) : k # j => cs[k].at \notin {"lock", "sub"}
      BY <2>1, <2>5
    <3>5. \A k \in 1 .. Len(cs) : Is(cs[k], x, {"lock", "sub"}) <=> k = j
      BY <2>5, <3>4 DEF Is
    <3>6. PICK c : c = <<t, z + j>>
      OBVIOUS
    <3>7. c \notin P /\ CallsOf(x, {"lock", "sub"})' = P \cup {c}
      <4>1. PICK ats : ats = {"lock", "sub"}
        OBVIOUS
      <4>2. ~TopIs(t, z, x, ats) /\ OnlyIs(cs, x, ats, j)
        BY <1>3, <3>5, <4>1 DEF TopIs, OnlyIs
      <4>3. PICK more : more = CallsOf(x, ats) \cup {c}
        OBVIOUS
      <4>4. c \notin CallsOf(x, ats) /\ CallsOf(x, ats)' = more
        BY <1>1, <1>3, <3>6, <4>2, <4>3, CallsGain
      <4> QED BY <2>3, <4>1, <4>3, <4>4
    <3>8. Counted(n, H \ {h}, P \cup {c}, L)
      BY <2>3, <3>3, <3>7, CountedMoves
    <3>9. Pend(x)' = P \cup {c} /\ refs'[x] = n
      BY <2>2, <3>7, NamedCalls
    <3>10. Counted(n, H \ {h}, L, P \cup {c})
      BY <3>8, CountedSwaps
    <3> QED BY <2>3, <3>2, <3>9, <3>10 DEF CountOK, Counted
  <2> QED BY <2>4, <2>5
<1>5. ASSUME NEW x \in Objects PROVE EndOK(x)'
  <2>1. EndOK(x) /\ refs[x] \in Nat
    BY <1>1 DEF RefInv, EndInv, TypeInv
  <2>2. \A k \in 1 .. Len(cs) : ~Is(cs[k], x, {"delete", "clear"}) /\ ~Is(cs[k], x, {"delete"})
    BY DEF Is
  <2>3. CallsOf(x, {"delete", "clear"})' = CallsOf(x, {"delete", "clear"})
    BY <1>1, <1>3, <2>2, CallsKeep
  <2>4. CallsOf(x, {"delete"})' = CallsOf(x, {"delete"})
    BY <1>1, <1>3, <2>2, CallsKeep
  <2> QED BY <2>1, <2>3, <2>4, EndKeeps
<1> QED BY <1>2, <1>4, <1>5 DEF CountInv, EndInv

\* A call, and what Unref puts on top of it.
Then(c, v) == <<c>> \o Unref(v)

LEMMA ThenUnref ==
    ASSUME TypeInv, NEW c \in CallSet, NEW v \in MaybeObjects, NEW cs, cs = Then(c, v)
    PROVE  /\ cs \in Seq(CallSet) /\ cs[1] = c
           /\ v = None => Len(cs) = 1
           /\ v # None => /\ Len(cs) = 2 /\ cs[2].o = v
                          /\ cs[2].at = (IF mode = "exact" THEN "lock" ELSE "sub")
<1>1. PICK u \in Seq(CallSet) : u = Unref(v)
  BY UnrefIs
<1>2. PICK b \in Seq(CallSet) : b = <<c>> /\ Len(b) = 1 /\ b[1] = c
  <2>1. <<c>> \in Seq(CallSet) /\ Len(<<c>>) = 1 /\ <<c>>[1] = c
    OBVIOUS
  <2> QED BY <2>1
<1>3. PICK l \in Nat : l = Len(u)
  OBVIOUS
<1>4. /\ cs \in Seq(CallSet) /\ Len(cs) = 1 + l
      /\ \A i \in 1 .. 1 + l : cs[i] = IF i <= 1 THEN b[i] ELSE u[i - 1]
  <2>1. /\ b \o u \in Seq(CallSet) /\ Len(b \o u) = Len(b) + Len(u)
        /\ \A i \in 1 .. Len(b) + Len(u) : (b \o u)[i] = IF i <= Len(b) THEN b[i] ELSE u[i - Len(b)]
    BY ConcatProperties
  <2>2. cs = b \o u
    BY <1>1, <1>2 DEF Then
  <2> QED BY <1>2, <1>3, <2>1, <2>2
<1>5. cs[1] = c
  <2>1. 1 \in 1 .. 1 + l /\ 1 <= 1
    OBVIOUS
  <2> QED BY <1>2, <1>4, <2>1
<1>6. v = None => Len(cs) = 1
  BY <1>1, <1>3, <1>4, UnrefIs
<1>7. ASSUME v # None
      PROVE  Len(cs) = 2 /\ cs[2] = u[1]
  <2>1. l = 1
    BY <1>1, <1>3, <1>7, UnrefIs
  <2>2. 2 \in 1 .. 1 + l /\ ~(2 <= 1) /\ 2 - 1 = 1
    BY <2>1
  <2> QED BY <1>4, <2>1, <2>2
<1>8. v # None => u[1].o = v /\ u[1].at = (IF mode = "exact" THEN "lock" ELSE "sub")
  BY <1>1, UnrefIs
<1> QED BY <1>4, <1>5, <1>6, <1>7, <1>8

LEMMA AssignPreserves ==
    ASSUME RefInv, NEW t \in Threads, NEW from \in {"copy", "member"}, Assign(t, from)
    PROVE  RefInv'
<1> USE ObjectsAssumption
<1>1. /\ TypeInv /\ StackInv
      /\ todo[t] = << >> /\ slot[t][1] # None
      /\ mode' = mode /\ next' = next /\ crashed' = crashed /\ life' = life /\ refs' = refs
      /\ UNCHANGED <<weak, block, blockRefs, data, sync>>
  BY DEF RefInv, Assign, Free, weakVars, countVars
<1>2. PICK i \in 1 .. 2 : i = 2
  OBVIOUS
<1>3. PICK v \in MaybeObjects : v = slot[t][i]
  BY <1>1, SlotFacts
<1>4. PICK o \in Objects : o = slot[t][1]
  BY <1>1, SlotFacts DEF MaybeObjects
<1>5. PICK c \in CallSet : c = Call(from, o) /\ c.at = from /\ c.o = o
  <2>1. PICK d : d = [at |-> from, o |-> o]
    OBVIOUS
  <2>2. d \in CallSet /\ d.at = from /\ d.o = o
    BY <2>1 DEF CallSet, Steps
  <2> QED BY <2>1, <2>2 DEF Call
<1>6. PICK cs : cs = Then(c, v)
  OBVIOUS
<1>7. /\ cs \in Seq(CallSet) /\ cs[1] = c
      /\ v = None => Len(cs) = 1
      /\ v # None => Len(cs) = 2 /\ cs[2].o = v /\ cs[2].at = (IF mode = "exact" THEN "lock" ELSE "sub")
  BY <1>1, <1>6, ThenUnref
<1>8. Stacked(t, 0, cs)
  <2>1. todo' = [todo EXCEPT ![t] = cs]
    BY <1>2, <1>3, <1>4, <1>5, <1>6 DEF Assign, Then
  <2> QED BY <1>1, <1>7, <2>1, StartStacked
<1>9. Sets(t, i, None)
  BY <1>2 DEF Assign, Sets
<1>10. PICK l \in 1 .. 2 : l = Len(cs) /\ (v = None => l = 1) /\ (v # None => l = 2)
  <2>1. CASE v = None
    BY <1>7, <2>1
  <2>2. CASE v # None
    BY <1>7, <2>2
  <2> QED BY <2>1, <2>2
<1>11. /\ v # None => \E j \in 1 .. Len(cs) :
            /\ Is(cs[j], v, {"lock", "sub"})
            /\ \A k \in 1 .. Len(cs) : k # j => cs[k].at \notin {"lock", "sub"}
       /\ v = None => \A k \in 1 .. Len(cs) : cs[k].at \notin {"lock", "sub"}
       /\ \A k \in 1 .. Len(cs) : cs[k].at \notin {"delete", "clear"}
  <2>1. cs[1].at \notin {"lock", "sub", "delete", "clear"}
    BY <1>5, <1>7
  <2>2. CASE v = None
    <3>1. \A k \in 1 .. l : k = 1
      BY <1>10, <2>2
    <3> QED BY <1>10, <2>1, <2>2, <3>1
  <2>3. CASE v # None
    <3>1. cs[2].o = v /\ cs[2].at \in {"lock", "sub"}
      BY <1>7, <2>3
    <3>2. 2 \in 1 .. l /\ \A k \in 1 .. l : k = 1 \/ k = 2
      BY <1>10, <2>3
    <3>3. Is(cs[2], v, {"lock", "sub"})
      BY <3>1 DEF Is
    <3>4. \A k \in 1 .. l : k # 2 => cs[k].at \notin {"lock", "sub"}
      BY <2>1, <3>2
    <3>5. \A k \in 1 .. l : cs[k].at \notin {"delete", "clear"}
      BY <2>1, <3>1, <3>2
    <3> QED BY <1>10, <2>3, <3>2, <3>3, <3>4, <3>5
  <2> QED BY <2>2, <2>3
<1>12. /\ CountInv' /\ EndInv'
       /\ slot' \in [Threads -> Seq(MaybeObjects)] /\ \A u \in Threads : Len(slot'[u]) = 2
       /\ Written(t, i, None)
  BY <1>1, <1>3, <1>8, <1>9, <1>11, GivesUp
<1>13. TypeInv'
  BY <1>1, <1>8, <1>12 DEF TypeInv, Stacked
<1>14. StackInv'
  <2>1. slot'[t][1] = o /\ slot'[t][2] = None
    BY <1>2, <1>4, <1>12 DEF Written
  <2>2. \A u \in Threads, k \in 1 .. 2 : u # t /\ todo[u] # << >> => slot'[u][k] = slot[u][k]
    BY <1>12 DEF Written
  <2>3. PICK z \in Nat : z = 0 /\ Stacked(t, z, cs)
    BY <1>8
  <2>4. ASSUME NEW k \in 1 .. l
        PROVE  \E d \in CallSet : d = cs[k] /\ CallOK(t, z + k, d, z + l)'
    <3>1. PICK d \in CallSet : d = cs[k]
      BY <1>7, <1>10
    <3>2. CASE k = 1
      <4>1. d.at \in {"copy", "member"} /\ d.o = o
        BY <1>5, <1>7, <3>1, <3>2
      <4> QED BY <2>1, <2>3, <3>1, <3>2, <4>1 DEF CallOK
    <3>3. CASE k = 2
      <4>1. l = 2 /\ d.at = (IF mode = "exact" THEN "lock" ELSE "sub")
        BY <1>7, <1>10, <3>1, <3>3
      <4>2. d.at \in {"lock", "sub"} /\ (mode = "exact" <=> d.at = "lock") /\ z + k = z + l
        BY <3>3, <4>1
      <4> QED BY <1>1, <3>1, <4>2 DEF CallOK
    <3> QED BY <1>10, <2>3, <3>2, <3>3
  <2>5. \A k \in 1 .. Len(cs) : CallOK(t, z + k, cs[k], z + Len(cs))'
    BY <1>10, <2>4 DEF CallOK
  <2>6. ~(z > 0)
    BY <2>3
  <2> QED BY <1>1, <2>2, <2>3, <2>5, <2>6, StackKeeps
<1>15. LockInv'
  BY <1>1, <1>8, IdleLock DEF Stacked
<1>16. BlockInv' /\ DataInv'
  BY <1>1, WeakSame
<1> QED BY <1>12, <1>13, <1>14, <1>15, <1>16 DEF RefInv

LEMMA DropPreserves ==
    ASSUME RefInv, NEW t \in Threads, NEW i \in 1 .. 2, Drop(t, i)
    PROVE  RefInv'
<1> USE ObjectsAssumption
<1>1. /\ TypeInv /\ StackInv
      /\ todo[t] = << >>
      /\ mode' = mode /\ next' = next /\ crashed' = crashed /\ life' = life /\ refs' = refs
      /\ UNCHANGED <<weak, block, blockRefs, data, sync>>
  BY DEF RefInv, Drop, Free, weakVars, countVars
<1>2. PICK v \in MaybeObjects : v = slot[t][i] /\ v # None
  BY <1>1, SlotFacts DEF Drop
<1>3. PICK cs : cs = Unref(v)
  OBVIOUS
<1>4. /\ cs \in Seq(CallSet) /\ Len(cs) = 1 /\ cs[1].o = v
      /\ cs[1].at = (IF mode = "exact" THEN "lock" ELSE "sub")
  BY <1>1, <1>2, <1>3, UnrefIs
<1>5. Stacked(t, 0, cs)
  <2>1. todo' = [todo EXCEPT ![t] = cs]
    BY <1>2, <1>3 DEF Drop
  <2> QED BY <1>1, <1>4, <2>1, StartStacked
<1>6. Sets(t, i, None)
  BY DEF Drop, Sets
<1>7. \A k \in 1 .. Len(cs) : k = 1
  BY <1>4
<1>8. /\ \E j \in 1 .. Len(cs) :
            /\ Is(cs[j], v, {"lock", "sub"})
            /\ \A k \in 1 .. Len(cs) : k # j => cs[k].at \notin {"lock", "sub"}
      /\ \A k \in 1 .. Len(cs) : cs[k].at \notin {"delete", "clear"}
  <2>1. 1 \in 1 .. Len(cs) /\ Is(cs[1], v, {"lock", "sub"})
    BY <1>4 DEF Is
  <2>2. cs[1].at \notin {"delete", "clear"}
    BY <1>4
  <2> QED BY <1>7, <2>1, <2>2
<1>9. /\ CountInv' /\ EndInv'
      /\ slot' \in [Threads -> Seq(MaybeObjects)] /\ \A u \in Threads : Len(slot'[u]) = 2
      /\ Written(t, i, None)
  BY <1>1, <1>2, <1>5, <1>6, <1>8, GivesUp
<1>10. TypeInv'
  BY <1>1, <1>5, <1>9 DEF TypeInv, Stacked
<1>11. StackInv'
  <2>1. \A u \in Threads, k \in 1 .. 2 : u # t /\ todo[u] # << >> => slot'[u][k] = slot[u][k]
    BY <1>9 DEF Written
  <2>2. PICK z \in Nat : z = 0 /\ Stacked(t, z, cs)
    BY <1>5
  <2>3. PICK d \in CallSet : d = cs[1]
    BY <1>4
  <2>4. d.at \in {"lock", "sub"} /\ (mode = "exact" <=> d.at = "lock")
    BY <1>4, <2>3
  <2>5. CallOK(t, z + 1, d, z + 1)'
    BY <1>1, <2>4 DEF CallOK
  <2>6. \A k \in 1 .. Len(cs) : CallOK(t, z + k, cs[k], z + Len(cs))'
    BY <1>4, <1>7, <2>3, <2>5 DEF CallOK
  <2>7. ~(z > 0)
    BY <2>2
  <2> QED BY <1>1, <2>1, <2>2, <2>6, <2>7, StackKeeps
<1>12. LockInv'
  BY <1>1, <1>5, IdleLock DEF Stacked
<1>13. BlockInv' /\ DataInv'
  BY <1>1, WeakSame
<1> QED BY <1>9, <1>10, <1>11, <1>12, <1>13 DEF RefInv

LEMMA MovePreserves ==
    ASSUME RefInv, NEW t \in Threads, NEW u \in Threads, Move(t, u)
    PROVE  RefInv'
<1> USE ObjectsAssumption
<1>1. /\ TypeInv /\ StackInv
      /\ todo[t] = << >> /\ todo[u] = << >> /\ slot[t][1] # None
      /\ mode' = mode /\ next' = next /\ crashed' = crashed /\ life' = life /\ refs' = refs
      /\ todo' = todo /\ UNCHANGED <<weak, block, blockRefs, data, sync>>
  BY DEF RefInv, Move, Free, weakVars, countVars
<1>2. PICK a, b \in MaybeObjects : a = slot[t][1] /\ b = slot[u][2]
  <2>1. 1 \in 1 .. 2 /\ 2 \in 1 .. 2
    OBVIOUS
  <2> QED BY <1>1, <2>1, SlotFacts
<1>3. slot \in [Threads -> Seq(MaybeObjects)] /\ \A w \in Threads : Len(slot[w]) = 2
  BY <1>1 DEF TypeInv
<1>4. /\ slot' \in [Threads -> Seq(MaybeObjects)] /\ \A w \in Threads : Len(slot'[w]) = 2
      /\ slot'[t][1] = b /\ slot'[u][2] = a
      /\ \A w \in Threads, j \in 1 .. 2 :
            ~(w = t /\ j = 1) /\ ~(w = u /\ j = 2) => slot'[w][j] = slot[w][j]
  <2>1. CASE t = u
    <3>1. PICK s \in Seq(MaybeObjects) : s = slot[t] /\ Len(s) = 2 /\ s[1] = a /\ s[2] = b
      BY <1>2, <1>3, <2>1
    <3>2. PICK r : r = Reverse(s)
      OBVIOUS
    <3>3. r = [k \in 1 .. 2 |-> s[(2 - k) + 1]]
      BY <3>1, <3>2 DEF Reverse
    <3>4. r \in Seq(MaybeObjects) /\ Len(r) = 2 /\ r[1] = b /\ r[2] = a
      <4>1. \A k \in 1 .. 2 : (2 - k) + 1 \in 1 .. 2 /\ s[(2 - k) + 1] \in MaybeObjects
        BY <3>1
      <4>2. r \in [1 .. 2 -> MaybeObjects]
        BY <3>3, <4>1
      <4>3. r \in Seq(MaybeObjects) /\ Len(r) = 2
        <5>1. PICK n \in Nat : n = 2
          OBVIOUS
        <5>2. r \in [1 .. n -> MaybeObjects] /\ DOMAIN r = 1 .. n
          BY <4>2, <5>1
        <5>3. r \in Seq(MaybeObjects)
          BY <5>2, SeqDef
        <5>4. Len(r) = n
          BY <5>2, <5>3
        <5> QED BY <5>1, <5>3, <5>4
      <4>4. r[1] = s[2] /\ r[2] = s[1]
        BY <3>3
      <4> QED BY <3>1, <4>3, <4>4
    <3>5. slot' = [slot EXCEPT ![t] = r]
      BY <1>3, <2>1, <3>1, <3>2 DEF Move
    <3>6. \A w \in Threads : slot'[w] = IF w = t THEN r ELSE slot[w]
      BY <1>3, <3>5
    <3>7. slot' \in [Threads -> Seq(MaybeObjects)] /\ \A w \in Threads : Len(slot'[w]) = 2
      BY <1>3, <3>4, <3>5, <3>6
    <3>8. \A j \in 1 .. 2 : j = 1 \/ j = 2
      OBVIOUS
    <3> QED BY <2>1, <3>4, <3>6, <3>7, <3>8
  <2>2. CASE t # u
    <3>1. PICK s \in Seq(MaybeObjects), q \in Seq(MaybeObjects) :
              /\ s = slot[t] /\ Len(s) = 2 /\ DOMAIN s = 1 .. 2
              /\ q = slot[u] /\ Len(q) = 2 /\ DOMAIN q = 1 .. 2
      BY <1>3
    <3>2. PICK s2, q2 : s2 = [s EXCEPT ![1] = b] /\ q2 = [q EXCEPT ![2] = a]
      OBVIOUS
    <3>3. /\ s2 \in Seq(MaybeObjects) /\ Len(s2) = 2 /\ s2[1] = b /\ s2[2] = s[2]
          /\ q2 \in Seq(MaybeObjects) /\ Len(q2) = 2 /\ q2[2] = a /\ q2[1] = q[1]
      BY <3>1, <3>2, ExceptSeq
    <3>4. slot' = [slot EXCEPT ![t] = s2, ![u] = q2]
      BY <1>2, <1>3, <2>2, <3>1, <3>2 DEF Move
    <3>5. \A w \in Threads : slot'[w] = IF w = t THEN s2 ELSE IF w = u THEN q2 ELSE slot[w]
      BY <1>3, <2>2, <3>4
    <3>6. slot' \in [Threads -> Seq(MaybeObjects)]
      BY <1>3, <3>3, <3>4
    <3>7. \A w \in Threads : Len(slot'[w]) = 2
      BY <1>3, <3>3, <3>5
    <3>8. \A w \in Threads, j \in 1 .. 2 :
            ~(w = t /\ j = 1) /\ ~(w = u /\ j = 2) => slot'[w][j] = slot[w][j]
      <4>1. TAKE w \in Threads, j \in 1 .. 2
      <4>2. j = 1 \/ j = 2
        OBVIOUS
      <4>3. CASE w = t
        BY <2>2, <3>1, <3>3, <3>5, <4>2, <4>3
      <4>4. CASE w = u
        BY <2>2, <3>1, <3>3, <3>5, <4>2, <4>4
      <4>5. CASE w # t /\ w # u
        BY <3>5, <4>5
      <4> QED BY <4>3, <4>4, <4>5
    <3> QED BY <2>2, <3>3, <3>5, <3>6, <3>7, <3>8
  <2> QED BY <2>1, <2>2
<1>5. TypeInv'
  BY <1>1, <1>4 DEF TypeInv
<1>6. \A x, ats : CallsOf(x, ats)' = CallsOf(x, ats)
  BY <1>1, CallsSame
<1>7. ASSUME NEW x \in Objects PROVE CountOK(x)'
  <2>1. CountOK(x) /\ Links(x)' = Links(x) /\ Pend(x)' = Pend(x)
    BY <1>1, <1>6, LinksSame, NamedCalls DEF RefInv, CountInv
  <2>2. PICK g, h : g = <<t, 1>> /\ h = <<u, 2>>
    OBVIOUS
  <2>3. g # h
    BY <2>2
  <2>4. PICK S, T : S = Hold(x) /\ T = Hold(x)'
    OBVIOUS
  <2>5. /\ \A k \in S \cup T : \E w \in Threads, j \in 1 .. 2 : k = <<w, j>>
        /\ \A w \in Threads, j \in 1 .. 2 : <<w, j>> \in S <=> slot[w][j] = x
        /\ \A w \in Threads, j \in 1 .. 2 : <<w, j>> \in T <=> slot'[w][j] = x
    BY <2>4 DEF Hold
  <2>6. (g \in S <=> a = x) /\ (h \in S <=> b = x) /\ (g \in T <=> b = x) /\ (h \in T <=> a = x)
    <3>1. 1 \in 1 .. 2 /\ 2 \in 1 .. 2
      OBVIOUS
    <3>2. (g \in S <=> a = x) /\ (h \in S <=> b = x)
      BY <1>2, <2>2, <2>5, <3>1
    <3>3. (g \in T <=> b = x) /\ (h \in T <=> a = x)
      BY <1>4, <2>2, <2>5, <3>1
    <3> QED BY <3>2, <3>3
  <2>7. ASSUME NEW k, k # g, k # h PROVE k \in S <=> k \in T
    <3>1. SUFFICES ASSUME k \in S \cup T PROVE k \in S <=> k \in T
      OBVIOUS
    <3>2. PICK w \in Threads, j \in 1 .. 2 : k = <<w, j>>
      BY <2>5, <3>1
    <3>3. ~(w = t /\ j = 1) /\ ~(w = u /\ j = 2)
      BY <2>2, <2>7, <3>2
    <3>4. slot'[w][j] = slot[w][j]
      BY <1>4, <3>3
    <3> QED BY <2>5, <3>2, <3>4
  <2>8. PICK n, L, P : n = refs[x] /\ L = Links(x) /\ P = Pend(x)
    OBVIOUS
  <2>9. Counted(n, S, L, P)
    BY <2>1, <2>4, <2>8 DEF CountOK
  <2>10. Counted(n, T, L, P)
    <3>1. CASE a = b
      <4>1. S = T
        BY <2>6, <2>7, <3>1
      <4> QED BY <2>9, <4>1
    <3>2. CASE a # b /\ a = x
      <4>1. PICK R : R = S \cup {h}
        OBVIOUS
      <4>2. Counted(n + 1, R, L, P)
        BY <2>6, <2>9, <3>2, <4>1, CountedAdds
      <4>3. T = R \ {g} /\ g \in R
        BY <2>3, <2>6, <2>7, <3>2, <4>1
      <4>4. PICK m \in Nat : m = n + 1 /\ m - 1 = n
        BY <2>9, CountedTurns
      <4> QED BY <4>2, <4>3, <4>4, CountedLoses
    <3>3. CASE a # b /\ b = x
      <4>1. PICK R : R = S \cup {g}
        OBVIOUS
      <4>2. Counted(n + 1, R, L, P)
        BY <2>6, <2>9, <3>3, <4>1, CountedAdds
      <4>3. T = R \ {h} /\ h \in R
        BY <2>3, <2>6, <2>7, <3>3, <4>1
      <4>4. PICK m \in Nat : m = n + 1 /\ m - 1 = n
        BY <2>9, CountedTurns
      <4> QED BY <4>2, <4>3, <4>4, CountedLoses
    <3>4. CASE a # x /\ b # x
      <4>1. S = T
        BY <2>6, <2>7, <3>4
      <4> QED BY <2>9, <4>1
    <3> QED BY <3>1, <3>2, <3>3, <3>4
  <2>11. refs'[x] = n
    BY <1>1, <2>8
  <2> QED BY <2>1, <2>4, <2>8, <2>10, <2>11 DEF CountOK, Counted
<1>8. ASSUME NEW x \in Objects PROVE EndOK(x)'
  <2>1. EndOK(x) /\ refs[x] \in Nat
    BY <1>1 DEF RefInv, EndInv, TypeInv
  <2> QED BY <1>1, <1>6, <2>1, EndKeeps
<1>9. StackInv'
  <2>1. \A w \in Threads, k \in 1 .. 2 : todo[w] # << >> => slot'[w][k] = slot[w][k]
    BY <1>1, <1>4
  <2> QED BY <1>1, <2>1, StackSame
<1>10. LockInv'
  BY <1>1, IdleLock
<1>11. BlockInv' /\ DataInv'
  BY <1>1, WeakSame
<1> QED BY <1>5, <1>7, <1>8, <1>9, <1>10, <1>11 DEF RefInv, CountInv, EndInv

LEMMA LinkPreserves ==
    ASSUME RefInv, NEW t \in Threads, Link(t)
    PROVE  RefInv'
<1> USE ObjectsAssumption
<1>1. PICK i \in 1 .. 2 : i = 2
  OBVIOUS
<1>2. PICK o, p : o = slot[t][1] /\ p = slot[t][i]
  OBVIOUS
<1>3. /\ TypeInv /\ StackInv
      /\ todo[t] = << >> /\ o # None /\ p # None /\ p # o /\ next[o] = None
      /\ next' = [next EXCEPT ![o] = p] /\ Sets(t, i, None)
      /\ mode' = mode /\ crashed' = crashed /\ life' = life /\ refs' = refs /\ todo' = todo
      /\ UNCHANGED <<weak, block, blockRefs, data, sync>>
  BY <1>1, <1>2 DEF RefInv, Link, Free, weakVars, Sets
<1>4. o \in Objects /\ p \in Objects /\ None \in MaybeObjects
  BY <1>2, <1>3, SlotFacts DEF MaybeObjects
<1>5. next \in [Objects -> MaybeObjects]
  BY <1>3 DEF TypeInv
<1>6. /\ next' \in [Objects -> MaybeObjects] /\ next'[o] = p
      /\ \A x \in Objects : x # o => next'[x] = next[x]
  BY <1>3, <1>4, <1>5 DEF MaybeObjects
<1>7. /\ slot' \in [Threads -> Seq(MaybeObjects)] /\ \A u \in Threads : Len(slot'[u]) = 2
      /\ Written(t, i, None)
  BY <1>3, <1>4, SlotSet
<1>8. TypeInv'
  BY <1>3, <1>6, <1>7 DEF TypeInv
<1>9. \A x, ats : CallsOf(x, ats)' = CallsOf(x, ats)
  BY <1>3, CallsSame
<1>10. ASSUME NEW x \in Objects PROVE CountOK(x)'
  <2>1. CountOK(x) /\ x # None /\ Pend(x)' = Pend(x)
    BY <1>9, NamedCalls DEF RefInv, CountInv
  <2>2. PICK n, H, L, P : n = refs[x] /\ H = Hold(x) /\ L = Links(x) /\ P = Pend(x)
    OBVIOUS
  <2>3. Counted(n, H, L, P)
    BY <2>1, <2>2 DEF CountOK
  <2>4. CASE x = p
    <3>1. PICK h, R : h = <<t, i>> /\ R = H \ {h}
      OBVIOUS
    <3>2. h \in H /\ Hold(x)' = R
      BY <1>2, <1>3, <1>7, <2>1, <2>2, <2>4, <3>1, HoldLoses
    <3>3. o \notin L /\ Links(x)' = L \cup {o}
      BY <1>3, <1>4, <1>6, <2>1, <2>2, <2>4 DEF Links
    <3>4. Counted(n, R, L \cup {o}, P)
      BY <2>3, <3>1, <3>2, <3>3, CountedMoves
    <3> QED BY <1>3, <2>1, <2>2, <3>2, <3>3, <3>4 DEF CountOK, Counted
  <2>5. CASE x # p
    <3>1. Hold(x)' = Hold(x)
      BY <1>2, <1>3, <1>7, <2>1, <2>5, HoldUntouched
    <3>2. Links(x)' = Links(x)
      BY <1>3, <1>4, <1>6, <2>1, <2>5 DEF Links
    <3>3. refs'[x] = refs[x]
      BY <1>3
    <3> QED BY <1>9, <2>1, <3>1, <3>2, <3>3, CountKeeps
  <2> QED BY <2>4, <2>5
<1>11. ASSUME NEW x \in Objects PROVE EndOK(x)'
  <2>1. EndOK(x) /\ refs[x] \in Nat
    BY <1>3 DEF RefInv, EndInv, TypeInv
  <2> QED BY <1>3, <1>9, <2>1, EndKeeps
<1>12. StackInv'
  <2>1. \A w \in Threads, k \in 1 .. 2 : todo[w] # << >> => slot'[w][k] = slot[w][k]
    BY <1>3, <1>7 DEF Written
  <2> QED BY <1>3, <2>1, StackSame
<1>13. LockInv'
  BY <1>3, IdleLock
<1>14. BlockInv' /\ DataInv'
  BY <1>3, WeakSame
<1> QED BY <1>8, <1>10, <1>11, <1>12, <1>13, <1>14 DEF RefInv, CountInv, EndInv

-----------------------------------------------------------------------------
\* A thread that is inside of calls.

\* The innermost of t's n + 1 calls is about o and at step `at`.
At(t, n, at, o) ==
    /\ n \in Nat /\ o \in Objects /\ todo[t] # << >>
    /\ Len(todo[t]) = n + 1 /\ n + 1 \in DOMAIN todo[t]
    /\ todo[t][n + 1].at = at /\ todo[t][n + 1].o = o

LEMMA NoCalls == \E cs \in Seq(CallSet) : cs = << >> /\ \A k \in 1 .. Len(cs) : FALSE
<1>1. PICK cs : cs = << >>
  OBVIOUS
<1>2. cs \in Seq(CallSet) /\ Len(cs) = 0
  BY <1>1
<1>3. \A k \in 1 .. Len(cs) : FALSE
  BY <1>2
<1> QED BY <1>1, <1>2, <1>3

LEMMA DoingIs ==
    ASSUME TypeInv, NEW t \in Threads, NEW at, Doing(t, at)
    PROVE  \E n \in Nat, o \in Objects : o = Top(t) /\ At(t, n, at, o)
<1>1. PICK s \in Seq(CallSet) : s = todo[t] /\ s # << >>
  BY DEF TypeInv, Doing
<1>2. PICK n \in Nat : Len(s) = n + 1 /\ DOMAIN s = 1 .. n + 1
  <2>1. Len(s) \in Nat /\ Len(s) # 0 /\ DOMAIN s = 1 .. Len(s)
    BY <1>1, EmptySeq
  <2>2. Len(s) - 1 \in Nat /\ Len(s) = (Len(s) - 1) + 1
    BY <2>1
  <2> QED BY <2>1, <2>2
<1>3. PICK c \in CallSet : c = s[n + 1] /\ Last(s) = c
  BY <1>1, <1>2 DEF Last
<1>4. c.o \in Objects /\ c.o = Top(t) /\ c.at = at
  BY <1>1, <1>3 DEF CallSet, Top, Doing
<1>5. At(t, n, at, c.o)
  BY <1>1, <1>2, <1>3, <1>4 DEF At
<1> QED BY <1>4, <1>5

LEMMA AtStacked ==
    ASSUME TypeInv, NEW t \in Threads, NEW n, NEW at, NEW o, At(t, n, at, o),
           NEW cs \in Seq(CallSet), Become(t, cs)
    PROVE  Stacked(t, n, cs)
<1>1. PICK m \in Nat : Len(todo[t]) = m + 1 /\ Stacked(t, m, cs)
  BY BecomeStacked DEF At
<1>2. m = n
  BY <1>1 DEF At
<1> QED BY <1>1, <1>2

LEMMA AtFacts ==
    ASSUME RefInv, NEW t \in Threads, NEW n, NEW at, NEW o, At(t, n, at, o)
    PROVE  /\ at \in {"copy", "member"} => slot[t][1] = o
           /\ at \in {"copy", "member", "take", "grab"} => n = 0 /\ slot[t][2] = None
           /\ at = "lock" => mode = "exact"
           /\ at \in {"take", "grab", "unlock"} \/ (at = "sub" /\ mode = "exact") => sync[o] = t
           /\ \A x \in Objects : sync[x] = t => x = o /\ at \in {"take", "grab", "sub", "unlock"} /\ LockOK(t, x)
<1>1. TypeInv /\ n \in Nat /\ o \in Objects
  BY DEF RefInv, At
<1>2. PICK c \in CallSet : c = todo[t][n + 1] /\ c.at = at /\ c.o = o
  BY <1>1 DEF At, TypeInv
<1>3. PICK l \in Nat : l = Len(todo[t]) /\ l = n + 1
  BY <1>1 DEF At
<1>4. CallOK(t, n + 1, c, l)
  BY <1>2, <1>3, StackIs DEF At, RefInv
<1>5. /\ at \in {"copy", "member"} => slot[t][1] = o
      /\ at = "lock" => mode = "exact"
      /\ at \in {"take", "grab", "unlock"} \/ (at = "sub" /\ mode = "exact") => sync[o] = t
  BY <1>2, <1>4 DEF CallOK
<1>6. at \in {"copy", "member", "take", "grab"} => n = 0 /\ slot[t][2] = None
  <2>1. at \in {"copy", "member", "take", "grab"} => n + 1 = 1 /\ slot[t][2] = None
    BY <1>2, <1>4 DEF CallOK
  <2> QED BY <1>1, <2>1
<1>7. ASSUME NEW x \in Objects, sync[x] = t
      PROVE  x = o /\ at \in {"take", "grab", "sub", "unlock"} /\ LockOK(t, x)
  <2>1. LockOK(t, x)
    BY <1>7 DEF RefInv, LockInv
  <2>2. c.o = x /\ c.at \in {"take", "grab", "sub", "unlock"}
    BY <1>2, <1>3, <2>1 DEF LockOK
  <2> QED BY <1>2, <2>1, <2>2
<1> QED BY <1>5, <1>6, <1>7

LEMMA AtCounts ==
    ASSUME RefInv, NEW t \in Threads, NEW n, NEW at, NEW o, At(t, n, at, o)
    PROVE  /\ at \in {"lock", "sub"} =>
                 /\ <<t, n + 1>> \in Pend(o) /\ refs[o] > 0 /\ life[o] = "alive" /\ Here(o) /\ Ends(o) = {}
           /\ at \in {"delete", "clear"} => Ends(o) = {<<t, n + 1>>} /\ refs[o] = 0 /\ Here(o)
           /\ at = "delete" => life[o] = "alive"
<1>1. TypeInv /\ n \in Nat /\ o \in Objects
  BY DEF RefInv, At
<1>2. \A ats : at \in ats => <<t, n + 1>> \in CallsOf(o, ats)
  <2>1. TAKE ats
  <2>2. SUFFICES ASSUME at \in ats PROVE <<t, n + 1>> \in CallsOf(o, ats)
    OBVIOUS
  <2>3. Is(todo[t][n + 1], o, ats) /\ n + 1 \in DOMAIN todo[t]
    BY <2>2 DEF Is, At
  <2> QED BY <1>1, <2>3, CallsOfIs
<1>3. at \in {"lock", "sub"} =>
         <<t, n + 1>> \in Pend(o) /\ refs[o] > 0 /\ life[o] = "alive" /\ Here(o) /\ Ends(o) = {}
  <2>1. SUFFICES ASSUME at \in {"lock", "sub"}
                 PROVE  <<t, n + 1>> \in Pend(o) /\ refs[o] > 0 /\ life[o] = "alive" /\ Here(o) /\ Ends(o) = {}
    OBVIOUS
  <2>2. <<t, n + 1>> \in Pend(o)
    BY <1>2, <2>1, NamedCalls
  <2>3. Hold(o) \cup Links(o) \cup Pend(o) # {}
    BY <2>2
  <2> QED BY <1>1, <2>2, <2>3, Referred
<1>4. EndOK(o)
  BY <1>1 DEF RefInv, EndInv
<1>5. at \in {"delete", "clear"} => Ends(o) = {<<t, n + 1>>} /\ refs[o] = 0 /\ Here(o)
  <2>1. SUFFICES ASSUME at \in {"delete", "clear"}
                 PROVE  Ends(o) = {<<t, n + 1>>} /\ refs[o] = 0 /\ Here(o)
    OBVIOUS
  <2>2. <<t, n + 1>> \in Ends(o)
    BY <1>2, <2>1, NamedCalls
  <2>3. refs[o] = 0 /\ Here(o)
    BY <1>4, <2>2 DEF EndOK
  <2>4. \E d : Ends(o) = {d}
    BY <1>4, <2>3 DEF EndOK
  <2> QED BY <2>2, <2>3, <2>4
<1>6. at = "delete" => life[o] = "alive"
  <2>1. at = "delete" => <<t, n + 1>> \in Calls(o, "delete")
    <3>1. PICK a : a = "delete"
      OBVIOUS
    <3>2. at = a => <<t, n + 1>> \in CallsOf(o, {a})
      BY <1>2
    <3>3. CallsOf(o, {a}) = Calls(o, a)
      BY NamedCalls
    <3> QED BY <3>1, <3>2, <3>3
  <2> QED BY <1>4, <2>1 DEF EndOK
<1> QED BY <1>3, <1>5, <1>6

\* Calls that have nothing to do with references and deletion come and go.
LEMMA QuietCalls ==
    ASSUME TypeInv, NEW t \in Threads, NEW n, NEW cs, Stacked(t, n, cs),
           n + 1 = Len(todo[t]) => todo[t][n + 1].at \notin {"lock", "sub", "delete", "clear"},
           \A k \in 1 .. Len(cs) : cs[k].at \notin {"lock", "sub", "delete", "clear"}
    PROVE  \A x \in Objects : /\ CallsOf(x, {"lock", "sub"})' = CallsOf(x, {"lock", "sub"})
                              /\ CallsOf(x, {"delete", "clear"})' = CallsOf(x, {"delete", "clear"})
                              /\ CallsOf(x, {"delete"})' = CallsOf(x, {"delete"})
<1>1. ASSUME NEW x \in Objects, NEW ats, ats \subseteq {"lock", "sub", "delete", "clear"}
      PROVE  CallsOf(x, ats)' = CallsOf(x, ats)
  <2>1. n + 1 = Len(todo[t]) => ~Is(todo[t][n + 1], x, ats)
    BY <1>1 DEF Is
  <2>2. \A k \in 1 .. Len(cs) : ~Is(cs[k], x, ats)
    BY <1>1 DEF Is
  <2> QED BY <2>1, <2>2, CallsKeep
<1>2. TAKE x \in Objects
<1>3. CallsOf(x, {"lock", "sub"})' = CallsOf(x, {"lock", "sub"})
  BY <1>1
<1>4. CallsOf(x, {"delete", "clear"})' = CallsOf(x, {"delete", "clear"})
  BY <1>1
<1>5. CallsOf(x, {"delete"})' = CallsOf(x, {"delete"})
  BY <1>1
<1> QED BY <1>3, <1>4, <1>5

LEMMA AddRefPreserves ==
    ASSUME RefInv, NEW t \in Threads, NEW at \in {"copy", "member"}, AddRef(t, at)
    PROVE  RefInv'
<1> USE ObjectsAssumption
<1>1. TypeInv /\ StackInv /\ LockInv
  BY DEF RefInv
<1>2. PICK n \in Nat, o \in Objects : o = Top(t) /\ At(t, n, at, o)
  BY <1>1, DoingIs DEF AddRef
<1>3. slot[t][1] = o /\ n = 0 /\ slot[t][2] = None /\ \A x \in Objects : sync[x] # t
  <2>0. at = "copy" \/ at = "member"
    OBVIOUS
  <2>1. at \in {"copy", "member"} => slot[t][1] = o
    BY <1>2, AtFacts
  <2>2. n = 0 /\ slot[t][2] = None
    BY <1>2, AtFacts
  <2>3. \A x \in Objects : sync[x] = t => at \in {"take", "grab", "sub", "unlock"}
    BY <1>2, AtFacts
  <2> QED BY <2>0, <2>1, <2>2, <2>3
<1>4. PICK v : v = Assigned(at, o)
  OBVIOUS
<1>5. /\ mode' = mode /\ next' = next /\ crashed' = crashed /\ life' = life
      /\ UNCHANGED <<weak, block, blockRefs, data, sync>>
      /\ Sets(t, 2, v) /\ refs' = IF v = None THEN refs ELSE [refs EXCEPT ![v] = @ + 1]
  BY <1>2, <1>4 DEF AddRef, weakVars, Sets
<1>6. v \in MaybeObjects /\ (v # None => refs[v] > 0)
  <2>1. CASE at = "copy"
    <3>1. v = o /\ o # None /\ o \in MaybeObjects
      BY <1>4, <2>1 DEF Assigned, MaybeObjects
    <3>2. PICK i \in 1 .. 2 : i = 1
      OBVIOUS
    <3>3. refs[o] > 0
      BY <1>3, <3>1, <3>2, HeldFacts
    <3> QED BY <3>1, <3>3
  <2>2. CASE at = "member"
    <3>1. v = next[o] /\ v \in MaybeObjects
      BY <1>1, <1>4, <2>2 DEF Assigned, TypeInv
    <3>2. v # None => v \in Objects /\ o \in Links(v)
      BY <3>1 DEF Links, MaybeObjects
    <3>3. v # None => Hold(v) \cup Links(v) \cup Pend(v) # {}
      BY <3>2
    <3> QED BY <3>1, <3>2, <3>3, Referred
  <2> QED BY <2>1, <2>2
<1>7. PICK cs \in Seq(CallSet) : cs = << >> /\ \A k \in 1 .. Len(cs) : FALSE
  BY NoCalls
<1>8. Stacked(t, n, cs)
  BY <1>1, <1>2, <1>7, AtStacked DEF AddRef
<1>9. \A x \in Objects : /\ CallsOf(x, {"lock", "sub"})' = CallsOf(x, {"lock", "sub"})
                         /\ CallsOf(x, {"delete", "clear"})' = CallsOf(x, {"delete", "clear"})
                         /\ CallsOf(x, {"delete"})' = CallsOf(x, {"delete"})
  <2>1. todo[t][n + 1].at \notin {"lock", "sub", "delete", "clear"}
    BY <1>2 DEF At
  <2> QED BY <1>1, <1>7, <1>8, <2>1, QuietCalls
<1>10. /\ CountInv' /\ EndInv'
       /\ slot' \in [Threads -> Seq(MaybeObjects)] /\ \A u \in Threads : Len(slot'[u]) = 2
       /\ refs' \in [Objects -> Nat]
       /\ \A x \in Objects : refs[x] > 0 => refs'[x] > 0
       /\ \A u \in Threads, i \in 1 .. 2 : u # t => slot'[u][i] = slot[u][i]
  BY <1>3, <1>5, <1>6, <1>9, Gains
<1>11. TypeInv'
  BY <1>1, <1>5, <1>8, <1>10 DEF TypeInv, Stacked
<1>12. StackInv'
  <2>1. ~(n > 0)
    BY <1>3
  <2> QED BY <1>1, <1>5, <1>7, <1>8, <1>10, <2>1, StackKeeps
<1>13. LockInv'
  <2>1. \A u \in Threads : u # t => todo'[u] = todo[u] /\ weak'[u] = weak[u]
    BY <1>5, <1>8 DEF Stacked
  <2>2. \A x \in Objects : sync'[x] = t => LockOK(t, x)'
    BY <1>3, <1>5
  <2> QED BY <1>1, <1>5, <1>10, <2>1, <2>2, LockKeeps
<1>14. BlockInv' /\ DataInv'
  BY <1>5, <1>10, WeakSame
<1> QED BY <1>10, <1>11, <1>12, <1>13, <1>14 DEF RefInv

\* A stack of one call.
LEMMA OneCall ==
    ASSUME NEW a \in Steps, NEW o \in Objects
    PROVE  \E c \in CallSet, cs \in Seq(CallSet) :
              /\ c.at = a /\ c.o = o /\ c = Call(a, o)
              /\ cs = <<c>> /\ Len(cs) = 1 /\ cs[1] = c /\ \A k \in 1 .. Len(cs) : k = 1
<1>1. PICK c : c = [at |-> a, o |-> o]
  OBVIOUS
<1>2. c \in CallSet /\ c.at = a /\ c.o = o
  BY <1>1 DEF CallSet
<1>3. PICK cs : cs = <<c>>
  OBVIOUS
<1>4. cs \in Seq(CallSet) /\ Len(cs) = 1 /\ cs[1] = c
  BY <1>2, <1>3
<1>5. \A k \in 1 .. Len(cs) : k = 1
  BY <1>4
<1> QED BY <1>1, <1>2, <1>3, <1>4, <1>5 DEF Call

\* Nothing but the program's end.
LEMMA CrashPreserves ==
    ASSUME RefInv, crashed' \in BOOLEAN, mode' = mode,
           UNCHANGED <<slot, next, refs, life, weak, block, blockRefs, data, sync, todo>>
    PROVE  RefInv'
<1>1. TypeInv'
  BY DEF RefInv, TypeInv
<1>2. \A x : Hold(x)' = Hold(x) /\ Links(x)' = Links(x) /\ Watch(x)' = Watch(x)
  BY DEF Hold, Links, Watch
<1>3. \A x, ats : CallsOf(x, ats)' = CallsOf(x, ats)
  BY CallsSame
<1>4. ASSUME NEW x \in Objects PROVE CountOK(x)' /\ EndOK(x)'
  <2>1. CountOK(x) /\ EndOK(x) /\ refs[x] \in Nat
    BY DEF RefInv, CountInv, EndInv, TypeInv
  <2>2. CountOK(x)'
    BY <1>2, <1>3, <2>1, CountKeeps
  <2>3. EndOK(x)'
    BY <1>3, <2>1, EndKeeps
  <2> QED BY <2>2, <2>3
<1>5. StackInv' /\ LockInv'
  BY DEF RefInv, StackInv, LockInv, LockOK, Pinned, Grabs
<1>6. BlockInv' /\ DataInv'
  BY WeakSame
<1> QED BY <1>1, <1>4, <1>5, <1>6 DEF RefInv, CountInv, EndInv

\* A thread that is about to subtract gets the lock first.
LEMMA UnrefLockPreserves ==
    ASSUME RefInv, NEW t \in Threads, UnrefLock(t)
    PROVE  RefInv'
<1> USE ObjectsAssumption
<1>1. TypeInv /\ StackInv /\ LockInv
  BY DEF RefInv
<1>2. PICK at : at = "lock"
  OBVIOUS
<1>3. PICK n \in Nat, o \in Objects : o = Top(t) /\ At(t, n, at, o)
  BY <1>1, <1>2, DoingIs DEF UnrefLock
<1>4. /\ mode' = mode /\ slot' = slot /\ next' = next /\ refs' = refs /\ life' = life
      /\ UNCHANGED <<weak, block, blockRefs, data>>
  BY DEF UnrefLock, countVars
<1>5. CASE block[o] = "none"
  <2>1. crashed' = TRUE /\ sync' = sync /\ todo' = todo
    BY <1>3, <1>5 DEF UnrefLock
  <2> QED BY <1>4, <2>1, CrashPreserves
<1>6. CASE block[o] # "none"
  <2>1. /\ sync[o] = None /\ sync' = [sync EXCEPT ![o] = t] /\ crashed' = crashed
        /\ Become(t, <<Call("sub", o)>>)
    BY <1>3, <1>6 DEF UnrefLock
  <2>2. "sub" \in Steps
    BY DEF Steps
  <2>3. PICK c \in CallSet, cs \in Seq(CallSet) :
              /\ c.at = "sub" /\ c.o = o /\ c = Call("sub", o)
              /\ cs = <<c>> /\ Len(cs) = 1 /\ cs[1] = c /\ \A k \in 1 .. Len(cs) : k = 1
    BY <2>2, OneCall
  <2>4. Stacked(t, n, cs)
    BY <1>1, <1>3, <2>1, <2>3, AtStacked
  <2>5. sync \in [Objects -> Threads \cup {None}]
    BY <1>1 DEF TypeInv
  <2>6. /\ sync' \in [Objects -> Threads \cup {None}] /\ sync'[o] = t
        /\ \A x \in Objects : x # o => sync'[x] = sync[x]
    BY <2>1, <2>5
  <2>7. TypeInv'
    BY <1>1, <1>4, <2>1, <2>4, <2>6 DEF TypeInv, Stacked
  <2>8. /\ mode = "exact" /\ refs[o] > 0
        /\ \A x \in Objects : sync[x] # t
    <3>1. mode = "exact"
      BY <1>2, <1>3, AtFacts
    <3>2. refs[o] > 0
      BY <1>2, <1>3, AtCounts
    <3>3. \A x \in Objects : sync[x] = t => at \in {"take", "grab", "sub", "unlock"}
      BY <1>3, AtFacts
    <3> QED BY <1>2, <3>1, <3>2, <3>3
  <2>9. n + 1 = Len(todo[t]) /\ todo[t][n + 1].at = "lock" /\ todo[t][n + 1].o = o
    BY <1>2, <1>3 DEF At
  <2>10. ASSUME NEW x \in Objects
         PROVE  CallsOf(x, {"lock", "sub"})' = CallsOf(x, {"lock", "sub"})
    <3>1. CASE x = o
      <4>1. PICK j \in 1 .. Len(cs) : j = 1
        BY <2>3
      <4>2. Is(todo[t][n + 1], x, {"lock", "sub"}) /\ \A k \in 1 .. Len(cs) : Is(cs[k], x, {"lock", "sub"}) <=> k = j
        BY <2>3, <2>9, <3>1, <4>1 DEF Is
      <4> QED BY <1>1, <2>4, <2>9, <4>1, <4>2, CallsStay
    <3>2. CASE x # o
      <4>1. ~Is(todo[t][n + 1], x, {"lock", "sub"}) /\ \A k \in 1 .. Len(cs) : ~Is(cs[k], x, {"lock", "sub"})
        BY <2>3, <2>9, <3>2 DEF Is
      <4> QED BY <1>1, <2>4, <4>1, CallsKeep
    <3> QED BY <3>1, <3>2
  <2>11. ASSUME NEW x \in Objects, NEW ats, ats \subseteq {"delete", "clear"}
         PROVE  CallsOf(x, ats)' = CallsOf(x, ats)
    <3>1. ~Is(todo[t][n + 1], x, ats) /\ \A k \in 1 .. Len(cs) : ~Is(cs[k], x, ats)
      BY <2>3, <2>9, <2>11 DEF Is
    <3> QED BY <1>1, <2>4, <3>1, CallsKeep
  <2>12. ASSUME NEW x \in Objects PROVE CountOK(x)' /\ EndOK(x)'
    <3>1. CountOK(x) /\ EndOK(x) /\ refs[x] \in Nat
      BY <1>1 DEF RefInv, CountInv, EndInv, TypeInv
    <3>2. Hold(x)' = Hold(x) /\ Links(x)' = Links(x)
      BY <1>4 DEF Hold, Links
    <3>3. CountOK(x)'
      BY <1>4, <2>10, <3>1, <3>2, CountKeeps
    <3>4. CallsOf(x, {"delete", "clear"})' = CallsOf(x, {"delete", "clear"})
      BY <2>11
    <3>5. CallsOf(x, {"delete"})' = CallsOf(x, {"delete"})
      BY <2>11
    <3>6. EndOK(x)'
      BY <1>4, <3>1, <3>4, <3>5, EndKeeps
    <3> QED BY <3>3, <3>6
  <2>13. StackInv'
    <3>1. PICK i \in Nat : i = n + 1
      OBVIOUS
    <3>2. CallOK(t, i, c, i)'
      BY <1>4, <2>3, <2>6, <2>8 DEF CallOK
    <3>3. \A k \in 1 .. Len(cs) : CallOK(t, n + k, cs[k], n + Len(cs))'
      BY <2>3, <3>1, <3>2 DEF CallOK
    <3>4. \A x \in Objects, u \in Threads : u # t /\ sync[x] = u => sync'[x] = u
      BY <2>1, <2>6
    <3> QED BY <1>1, <1>4, <2>4, <3>3, <3>4, StackKeeps
  <2>14. LockInv'
    <3>1. todo'[t] # << >> /\ todo'[t][Len(todo'[t])] = c
      <4>1. Len(todo'[t]) = n + 1 /\ todo'[t][n + 1] = c
        BY <2>3, <2>4 DEF Stacked
      <4> QED BY <4>1
    <3>2. LockOK(t, o)'
      BY <1>4, <1>6, <2>3, <2>8, <3>1 DEF LockOK, Pinned, Grabs
    <3>3. \A x \in Objects : sync'[x] = t => LockOK(t, x)'
      BY <2>6, <2>8, <3>2
    <3>4. \A u \in Threads : u # t => todo'[u] = todo[u] /\ weak'[u] = weak[u]
      BY <1>4, <2>4 DEF Stacked
    <3>5. \A x \in Objects, u \in Threads :
              u # t /\ sync'[x] = u => sync[x] = u /\ (refs[x] > 0 => refs'[x] > 0)
      BY <1>4, <2>6
    <3> QED BY <1>1, <1>4, <3>3, <3>4, <3>5, LockKeeps
  <2>15. BlockInv' /\ DataInv'
    BY <1>4, WeakSame
  <2> QED BY <2>7, <2>12, <2>13, <2>14, <2>15 DEF RefInv, CountInv, EndInv
<1> QED BY <1>5, <1>6

\* The locks, when t's calls come and go without touching a reference.
LEMMA QuietObjects ==
    ASSUME RefInv, NEW t \in Threads, NEW n, NEW cs, Stacked(t, n, cs),
           n + 1 = Len(todo[t]) => todo[t][n + 1].at \notin {"lock", "sub", "delete", "clear"},
           \A k \in 1 .. Len(cs) : cs[k].at \notin {"lock", "sub", "delete", "clear"},
           slot' = slot, next' = next, refs' = refs, life' = life
    PROVE  CountInv' /\ EndInv'
<1>1. TypeInv
  BY DEF RefInv
<1>2. \A x \in Objects : /\ CallsOf(x, {"lock", "sub"})' = CallsOf(x, {"lock", "sub"})
                         /\ CallsOf(x, {"delete", "clear"})' = CallsOf(x, {"delete", "clear"})
                         /\ CallsOf(x, {"delete"})' = CallsOf(x, {"delete"})
  BY <1>1, QuietCalls
<1>3. ASSUME NEW x \in Objects PROVE CountOK(x)' /\ EndOK(x)'
  <2>1. CountOK(x) /\ EndOK(x) /\ refs[x] \in Nat
    BY <1>1 DEF RefInv, CountInv, EndInv, TypeInv
  <2>2. Hold(x)' = Hold(x) /\ Links(x)' = Links(x)
    BY DEF Hold, Links
  <2>3. CountOK(x)'
    BY <1>2, <2>1, <2>2, CountKeeps
  <2>4. EndOK(x)'
    BY <1>2, <2>1, EndKeeps
  <2> QED BY <2>3, <2>4
<1> QED BY <1>3 DEF CountInv, EndInv

LEMMA UnrefUnlockPreserves ==
    ASSUME RefInv, NEW t \in Threads, UnrefUnlock(t)
    PROVE  RefInv'
<1> USE ObjectsAssumption
<1>1. TypeInv /\ StackInv /\ LockInv
  BY DEF RefInv
<1>2. PICK at : at = "unlock"
  OBVIOUS
<1>3. PICK n \in Nat, o \in Objects : o = Top(t) /\ At(t, n, at, o)
  BY <1>1, <1>2, DoingIs DEF UnrefUnlock
<1>4. /\ mode' = mode /\ slot' = slot /\ next' = next /\ refs' = refs /\ life' = life
      /\ crashed' = crashed /\ UNCHANGED <<weak, block, blockRefs, data>>
      /\ sync' = [sync EXCEPT ![o] = None] /\ Become(t, << >>)
  BY <1>3 DEF UnrefUnlock, countVars
<1>5. PICK cs \in Seq(CallSet) : cs = << >> /\ \A k \in 1 .. Len(cs) : FALSE
  BY NoCalls
<1>6. Stacked(t, n, cs)
  BY <1>1, <1>3, <1>4, <1>5, AtStacked
<1>7. sync \in [Objects -> Threads \cup {None}]
  BY <1>1 DEF TypeInv
<1>8. /\ sync' \in [Objects -> Threads \cup {None}] /\ sync'[o] = None
      /\ \A x \in Objects : x # o => sync'[x] = sync[x]
  BY <1>4, <1>7
<1>9. TypeInv'
  BY <1>1, <1>4, <1>6, <1>8 DEF TypeInv, Stacked
<1>10. sync[o] = t /\ \A x \in Objects : sync[x] = t => x = o
  <2>1. sync[o] = t
    BY <1>2, <1>3, AtFacts
  <2>2. \A x \in Objects : sync[x] = t => x = o
    BY <1>3, AtFacts
  <2> QED BY <2>1, <2>2
<1>11. CountInv' /\ EndInv'
  <2>1. todo[t][n + 1].at \notin {"lock", "sub", "delete", "clear"}
    BY <1>2, <1>3 DEF At
  <2> QED BY <1>4, <1>5, <1>6, <2>1, QuietObjects
<1>12. StackInv'
  <2>1. \A x \in Objects, u \in Threads : u # t /\ sync[x] = u => sync'[x] = u
    BY <1>8, <1>10
  <2> QED BY <1>1, <1>4, <1>5, <1>6, <2>1, StackKeeps
<1>13. LockInv'
  <2>1. \A x \in Objects : sync'[x] # t
    BY <1>8, <1>10
  <2>2. \A u \in Threads : u # t => todo'[u] = todo[u] /\ weak'[u] = weak[u]
    BY <1>4, <1>6 DEF Stacked
  <2>3. \A x \in Objects, u \in Threads :
            u # t /\ sync'[x] = u => sync[x] = u /\ (refs[x] > 0 => refs'[x] > 0)
    BY <1>4, <1>8
  <2> QED BY <1>1, <1>4, <2>1, <2>2, <2>3, LockKeeps
<1>14. BlockInv' /\ DataInv'
  BY <1>4, WeakSame
<1> QED BY <1>9, <1>11, <1>12, <1>13, <1>14 DEF RefInv

LEMMA WeakLockPreserves ==
    ASSUME RefInv, NEW t \in Threads, WeakLock(t)
    PROVE  RefInv'
<1> USE ObjectsAssumption
<1>1. TypeInv /\ StackInv /\ LockInv /\ BlockInv
  BY DEF RefInv
<1>2. PICK o : o = weak[t]
  OBVIOUS
<1>3. /\ mode' = mode /\ slot' = slot /\ next' = next /\ refs' = refs /\ life' = life
      /\ crashed' = crashed /\ UNCHANGED <<weak, block, blockRefs, data>>
      /\ todo[t] = << >> /\ o # None /\ slot[t][2] = None /\ sync[o] = None
      /\ sync' = [sync EXCEPT ![o] = t] /\ todo' = [todo EXCEPT ![t] = <<Call("take", o)>>]
  BY <1>2 DEF WeakLock, Free, countVars
<1>4. o \in Objects /\ block[o] # "none"
  <2>1. o \in Objects
    BY <1>1, <1>2, <1>3 DEF TypeInv, MaybeObjects
  <2>2. t \in Watch(o)
    BY <1>2 DEF Watch
  <2> QED BY <1>1, <2>1, <2>2 DEF BlockInv, BlockOK
<1>5. "take" \in Steps
  BY DEF Steps
<1>6. PICK c \in CallSet, cs \in Seq(CallSet) :
            /\ c.at = "take" /\ c.o = o /\ c = Call("take", o)
            /\ cs = <<c>> /\ Len(cs) = 1 /\ cs[1] = c /\ \A k \in 1 .. Len(cs) : k = 1
  BY <1>4, <1>5, OneCall
<1>7. PICK n \in Nat : n = 0 /\ Stacked(t, n, cs) /\ n + 1 # Len(todo[t])
  <2>1. Stacked(t, 0, cs)
    BY <1>1, <1>3, <1>6, StartStacked
  <2>2. Len(todo[t]) = 0
    BY <1>3
  <2> QED BY <2>1, <2>2
<1>8. sync \in [Objects -> Threads \cup {None}]
  BY <1>1 DEF TypeInv
<1>9. /\ sync' \in [Objects -> Threads \cup {None}] /\ sync'[o] = t
      /\ \A x \in Objects : x # o => sync'[x] = sync[x]
  BY <1>3, <1>4, <1>8
<1>10. TypeInv'
  BY <1>1, <1>3, <1>7, <1>9 DEF TypeInv, Stacked
<1>11. CountInv' /\ EndInv'
  BY <1>3, <1>6, <1>7, QuietObjects
<1>12. StackInv'
  <2>1. PICK i \in Nat : i = n + 1 /\ i = 1
    BY <1>7
  <2>2. CallOK(t, i, c, i)'
    BY <1>3, <1>6, <1>9, <2>1 DEF CallOK
  <2>3. \A k \in 1 .. Len(cs) : CallOK(t, n + k, cs[k], n + Len(cs))'
    BY <1>6, <2>1, <2>2 DEF CallOK
  <2>4. \A x \in Objects, u \in Threads : u # t /\ sync[x] = u => sync'[x] = u
    BY <1>3, <1>9
  <2> QED BY <1>1, <1>3, <1>7, <2>3, <2>4, StackKeeps
<1>13. LockInv'
  <2>1. todo'[t] # << >> /\ todo'[t][Len(todo'[t])] = c
    <3>1. Len(todo'[t]) = n + 1 /\ todo'[t][n + 1] = c
      BY <1>6, <1>7 DEF Stacked
    <3> QED BY <3>1
  <2>2. LockOK(t, o)'
    BY <1>2, <1>3, <1>4, <1>6, <2>1 DEF LockOK, Pinned, Grabs
  <2>3. \A x \in Objects : sync'[x] = t => LockOK(t, x)'
    BY <1>3, <1>9, <2>2, IdleFacts
  <2>4. \A u \in Threads : u # t => todo'[u] = todo[u] /\ weak'[u] = weak[u]
    BY <1>3, <1>7 DEF Stacked
  <2>5. \A x \in Objects, u \in Threads :
            u # t /\ sync'[x] = u => sync[x] = u /\ (refs[x] > 0 => refs'[x] > 0)
    BY <1>3, <1>9
  <2> QED BY <1>1, <1>3, <2>3, <2>4, <2>5, LockKeeps
<1>14. BlockInv' /\ DataInv'
  BY <1>3, WeakSame
<1> QED BY <1>10, <1>11, <1>12, <1>13, <1>14 DEF RefInv

LEMMA WeakTakePreserves ==
    ASSUME RefInv, NEW t \in Threads, WeakTake(t), ~raced'
    PROVE  RefInv'
<1> USE ObjectsAssumption
<1>1. TypeInv /\ StackInv /\ LockInv /\ DataInv
  BY DEF RefInv
<1>2. PICK at : at = "take"
  OBVIOUS
<1>3. PICK n \in Nat, o \in Objects : o = Top(t) /\ At(t, n, at, o)
  BY <1>1, <1>2, DoingIs DEF WeakTake
<1>4. PICK a \in {"grab", "unlock"} : a = IF data[o] THEN "grab" ELSE "unlock"
  OBVIOUS
<1>5. /\ mode' = mode /\ slot' = slot /\ next' = next /\ refs' = refs /\ life' = life
      /\ crashed' = crashed /\ UNCHANGED <<weak, block, blockRefs, data, sync>>
      /\ Become(t, <<Call(a, o)>>)
  BY <1>3, <1>4 DEF WeakTake, countVars, weakVars
<1>6. /\ n = 0 /\ slot[t][2] = None /\ sync[o] = t
      /\ \A x \in Objects : sync[x] = t => x = o /\ LockOK(t, x)
  <2>1. n = 0 /\ slot[t][2] = None
    BY <1>2, <1>3, AtFacts
  <2>2. sync[o] = t
    BY <1>2, <1>3, AtFacts
  <2>3. \A x \in Objects : sync[x] = t => x = o /\ LockOK(t, x)
    BY <1>3, AtFacts
  <2> QED BY <2>1, <2>2, <2>3
<1>7. a \in Steps
  BY DEF Steps
<1>8. PICK c \in CallSet, cs \in Seq(CallSet) :
            /\ c.at = a /\ c.o = o /\ c = Call(a, o)
            /\ cs = <<c>> /\ Len(cs) = 1 /\ cs[1] = c /\ \A k \in 1 .. Len(cs) : k = 1
  BY <1>7, OneCall
<1>9. Stacked(t, n, cs)
  BY <1>1, <1>3, <1>5, <1>8, AtStacked
<1>10. TypeInv'
  BY <1>1, <1>5, <1>9 DEF TypeInv, Stacked
<1>11. CountInv' /\ EndInv'
  <2>1. todo[t][n + 1].at \notin {"lock", "sub", "delete", "clear"}
    BY <1>2, <1>3 DEF At
  <2>2. \A k \in 1 .. Len(cs) : cs[k].at \notin {"lock", "sub", "delete", "clear"}
    BY <1>8
  <2> QED BY <1>5, <1>9, <2>1, <2>2, QuietObjects
<1>12. StackInv'
  <2>1. PICK i \in Nat : i = n + 1 /\ i = 1
    BY <1>6
  <2>2. CallOK(t, i, c, i)'
    BY <1>5, <1>6, <1>8, <2>1 DEF CallOK
  <2>3. \A k \in 1 .. Len(cs) : CallOK(t, n + k, cs[k], n + Len(cs))'
    BY <1>8, <2>1, <2>2 DEF CallOK
  <2> QED BY <1>1, <1>5, <1>9, <2>3, StackKeeps
<1>13. LockInv'
  <2>1. todo'[t] # << >> /\ todo'[t][Len(todo'[t])] = c
    <3>1. Len(todo'[t]) = n + 1 /\ todo'[t][n + 1] = c
      BY <1>8, <1>9 DEF Stacked
    <3> QED BY <3>1
  <2>2. LockOK(t, o)
    BY <1>3, <1>6
  <2>3. weak[t] = o \/ refs[o] > 0
    <3>1. \A i \in DOMAIN todo[t] : i = n + 1
      BY <1>3, <1>6 DEF At
    <3>2. todo[t][n + 1].at # "delete"
      BY <1>2, <1>3 DEF At
    <3>3. \A i \in DOMAIN todo[t] : todo[t][i] # Call("delete", o)
      BY <3>1, <3>2 DEF Call
    <3> QED BY <2>2, <3>3 DEF LockOK, Pinned
  <2>4. a = "grab" => refs[o] > 0
    <3>1. refs[o] \in Nat
      BY <1>1 DEF TypeInv
    <3>2. data[o] => refs[o] # 0
      BY <1>3 DEF WeakTake
    <3> QED BY <1>4, <3>1, <3>2
  <2>5. block[o] # "none" /\ (mode # "exact" => weak[t] = o)
    BY <2>2 DEF LockOK
  <2>6. LockOK(t, o)'
    BY <1>4, <1>5, <1>8, <2>1, <2>3, <2>4, <2>5 DEF LockOK, Pinned, Grabs
  <2>7. \A x \in Objects : sync'[x] = t => LockOK(t, x)'
    BY <1>5, <1>6, <2>6
  <2>8. \A u \in Threads : u # t => todo'[u] = todo[u] /\ weak'[u] = weak[u]
    BY <1>5, <1>9 DEF Stacked
  <2>9. \A x \in Objects, u \in Threads :
            u # t /\ sync'[x] = u => sync[x] = u /\ (refs[x] > 0 => refs'[x] > 0)
    BY <1>5
  <2> QED BY <1>1, <1>5, <2>7, <2>8, <2>9, LockKeeps
<1>14. BlockInv' /\ DataInv'
  BY <1>5, WeakSame
<1> QED BY <1>10, <1>11, <1>12, <1>13, <1>14 DEF RefInv

LEMMA WeakGrabPreserves ==
    ASSUME RefInv, NEW t \in Threads, WeakGrab(t)
    PROVE  RefInv'
<1> USE ObjectsAssumption
<1>1. TypeInv /\ StackInv /\ LockInv /\ DataInv
  BY DEF RefInv
<1>2. PICK at : at = "grab"
  OBVIOUS
<1>3. PICK n \in Nat, o \in Objects : o = Top(t) /\ At(t, n, at, o)
  BY <1>1, <1>2, DoingIs DEF WeakGrab
<1>4. /\ n = 0 /\ slot[t][2] = None /\ sync[o] = t
      /\ \A x \in Objects : sync[x] = t => x = o /\ LockOK(t, x)
  <2>1. n = 0 /\ slot[t][2] = None
    BY <1>2, <1>3, AtFacts
  <2>2. sync[o] = t
    BY <1>2, <1>3, AtFacts
  <2>3. \A x \in Objects : sync[x] = t => x = o /\ LockOK(t, x)
    BY <1>3, AtFacts
  <2> QED BY <2>1, <2>2, <2>3
<1>5. PICK v : v = o /\ v # None
  BY <1>3
<1>6. /\ mode' = mode /\ next' = next /\ crashed' \in BOOLEAN /\ life' = life
      /\ UNCHANGED <<weak, block, blockRefs, data, sync>>
      /\ Sets(t, 2, v) /\ refs' = IF v = None THEN refs ELSE [refs EXCEPT ![v] = @ + 1]
      /\ Become(t, <<Call("unlock", o)>>)
  <2>1. mode' = mode /\ next' = next /\ crashed' \in BOOLEAN /\ life' = life
    BY DEF WeakGrab
  <2>2. UNCHANGED <<weak, block, blockRefs, data, sync>>
    BY DEF WeakGrab, weakVars
  <2>3. Sets(t, 2, v) /\ Become(t, <<Call("unlock", o)>>)
    BY <1>3, <1>5 DEF WeakGrab, Sets
  <2>4. refs' = IF v = None THEN refs ELSE [refs EXCEPT ![v] = @ + 1]
    BY <1>3, <1>5 DEF WeakGrab
  <2> QED BY <2>1, <2>2, <2>3, <2>4
<1>7. v \in MaybeObjects /\ (v # None => refs[v] > 0)
  <2>1. Grabs(t)
    BY <1>2, <1>3 DEF Grabs, At
  <2>2. LockOK(t, o)
    BY <1>3, <1>4
  <2> QED BY <1>3, <1>5, <2>1, <2>2 DEF LockOK, MaybeObjects
<1>8. "unlock" \in Steps
  BY DEF Steps
<1>9. PICK c \in CallSet, cs \in Seq(CallSet) :
            /\ c.at = "unlock" /\ c.o = o /\ c = Call("unlock", o)
            /\ cs = <<c>> /\ Len(cs) = 1 /\ cs[1] = c /\ \A k \in 1 .. Len(cs) : k = 1
  BY <1>8, OneCall
<1>10. Stacked(t, n, cs)
  BY <1>1, <1>3, <1>6, <1>9, AtStacked
<1>11. \A x \in Objects : /\ CallsOf(x, {"lock", "sub"})' = CallsOf(x, {"lock", "sub"})
                          /\ CallsOf(x, {"delete", "clear"})' = CallsOf(x, {"delete", "clear"})
                          /\ CallsOf(x, {"delete"})' = CallsOf(x, {"delete"})
  <2>1. todo[t][n + 1].at \notin {"lock", "sub", "delete", "clear"}
    BY <1>2, <1>3 DEF At
  <2>2. \A k \in 1 .. Len(cs) : cs[k].at \notin {"lock", "sub", "delete", "clear"}
    BY <1>9
  <2> QED BY <1>1, <1>10, <2>1, <2>2, QuietCalls
<1>12. /\ CountInv' /\ EndInv'
       /\ slot' \in [Threads -> Seq(MaybeObjects)] /\ \A u \in Threads : Len(slot'[u]) = 2
       /\ refs' \in [Objects -> Nat]
       /\ \A x \in Objects : refs[x] > 0 => refs'[x] > 0
       /\ \A u \in Threads, i \in 1 .. 2 : u # t => slot'[u][i] = slot[u][i]
  BY <1>4, <1>6, <1>7, <1>11, Gains
<1>13. TypeInv'
  BY <1>1, <1>6, <1>10, <1>12 DEF TypeInv, Stacked
<1>14. StackInv'
  <2>1. PICK i \in Nat : i = n + 1
    OBVIOUS
  <2>2. CallOK(t, i, c, i)'
    BY <1>4, <1>6, <1>9 DEF CallOK
  <2>3. \A k \in 1 .. Len(cs) : CallOK(t, n + k, cs[k], n + Len(cs))'
    BY <1>9, <2>1, <2>2 DEF CallOK
  <2>4. ~(n > 0)
    BY <1>4
  <2>5. \A u \in Threads, j \in 1 .. 2 : u # t /\ todo[u] # << >> => slot'[u][j] = slot[u][j]
    BY <1>12
  <2>6. \A x \in Objects, u \in Threads : u # t /\ sync[x] = u => sync'[x] = u
    BY <1>6
  <2> QED BY <1>1, <1>6, <1>10, <2>3, <2>4, <2>5, <2>6, StackKeeps
<1>15. LockInv'
  <2>1. todo'[t] # << >> /\ todo'[t][Len(todo'[t])] = c
    <3>1. Len(todo'[t]) = n + 1 /\ todo'[t][n + 1] = c
      BY <1>9, <1>10 DEF Stacked
    <3> QED BY <3>1
  <2>2. weak[t] = o \/ refs[o] > 0
    <3>1. LockOK(t, o)
      BY <1>3, <1>4
    <3>2. \A i \in DOMAIN todo[t] : todo[t][i] # Call("delete", o)
      <4>1. \A i \in DOMAIN todo[t] : i = n + 1
        BY <1>4, <1>3 DEF At
      <4>2. todo[t][n + 1].at # "delete"
        BY <1>2, <1>3 DEF At
      <4> QED BY <4>1, <4>2 DEF Call
    <3> QED BY <3>1, <3>2 DEF LockOK, Pinned
  <2>3. LockOK(t, o)'
    <3>1. block[o] # "none"
      BY <1>3, <1>4 DEF LockOK
    <3>2. weak'[t] = o \/ refs'[o] > 0
      BY <1>6, <1>12, <2>2
    <3>3. mode' # "exact" => weak'[t] = o
      BY <1>3, <1>4, <1>6 DEF LockOK
    <3> QED BY <1>6, <1>9, <2>1, <3>1, <3>2, <3>3 DEF LockOK, Pinned, Grabs
  <2>4. \A x \in Objects : sync'[x] = t => LockOK(t, x)'
    BY <1>4, <1>6, <2>3
  <2>5. \A u \in Threads : u # t => todo'[u] = todo[u] /\ weak'[u] = weak[u]
    BY <1>6, <1>10 DEF Stacked
  <2>6. \A x \in Objects, u \in Threads :
            u # t /\ sync'[x] = u => sync[x] = u /\ (refs[x] > 0 => refs'[x] > 0)
    BY <1>6, <1>12
  <2> QED BY <1>1, <1>6, <2>4, <2>5, <2>6, LockKeeps
<1>16. BlockInv' /\ DataInv'
  BY <1>6, <1>12, WeakSame
<1> QED BY <1>12, <1>13, <1>14, <1>15, <1>16 DEF RefInv

\* The calls that follow fetch_sub, by what it found.
After(o, last, exact) ==
    (IF last THEN <<Call("delete", o)>> ELSE << >>) \o (IF exact THEN <<Call("unlock", o)>> ELSE << >>)

\* What can be said of them.
AfterOK(cs, o, last, exact) ==
    /\ \A k \in 1 .. Len(cs) :
          /\ cs[k].o = o /\ cs[k].at \in {"delete", "unlock"}
          /\ cs[k].at = "delete" <=> last /\ k = 1
          /\ cs[k].at = "unlock" => exact /\ k = Len(cs)
    /\ last => 1 \in 1 .. Len(cs)
    /\ exact => Len(cs) > 0 /\ cs[Len(cs)].at = "unlock"

LEMMA SubCalls ==
    ASSUME NEW o \in Objects, NEW last \in BOOLEAN, NEW exact \in BOOLEAN
    PROVE  \E cs \in Seq(CallSet) : cs = After(o, last, exact) /\ AfterOK(cs, o, last, exact)
<1>1. "delete" \in Steps /\ "unlock" \in Steps
  BY DEF Steps
<1>2. PICK d \in CallSet, x \in Seq(CallSet) :
            /\ d.at = "delete" /\ d.o = o /\ d = Call("delete", o)
            /\ x = <<d>> /\ Len(x) = 1 /\ x[1] = d /\ \A k \in 1 .. Len(x) : k = 1
  BY <1>1, OneCall
<1>3. PICK u \in CallSet, y \in Seq(CallSet) :
            /\ u.at = "unlock" /\ u.o = o /\ u = Call("unlock", o)
            /\ y = <<u>> /\ Len(y) = 1 /\ y[1] = u /\ \A k \in 1 .. Len(y) : k = 1
  BY <1>1, OneCall
<1>4. PICK e \in Seq(CallSet) : e = << >> /\ \A k \in 1 .. Len(e) : FALSE
  BY NoCalls
<1>5. CASE last /\ exact
  <2>1. PICK cs : cs = x \o y
    OBVIOUS
  <2>2. cs = After(o, last, exact)
    BY <1>2, <1>3, <1>5, <2>1 DEF After
  <2>3. /\ cs \in Seq(CallSet) /\ Len(cs) = Len(x) + Len(y)
        /\ \A k \in 1 .. Len(x) + Len(y) : cs[k] = IF k <= Len(x) THEN x[k] ELSE y[k - Len(x)]
    BY <2>1, ConcatProperties
  <2>4. Len(cs) = 2 /\ \A k \in 1 .. 2 : cs[k] = IF k <= 1 THEN x[k] ELSE y[k - 1]
    BY <1>2, <1>3, <2>3
  <2>5. cs[1] = d /\ cs[2] = u
    <3>1. 1 \in 1 .. 2 /\ 1 <= 1 /\ 2 \in 1 .. 2 /\ ~(2 <= 1) /\ 2 - 1 = 1
      OBVIOUS
    <3>2. cs[1] = x[1] /\ cs[2] = y[1]
      BY <2>4, <3>1
    <3> QED BY <1>2, <1>3, <3>2
  <2>6. ASSUME NEW k \in 1 .. 2
        PROVE  /\ cs[k].o = o /\ cs[k].at \in {"delete", "unlock"}
               /\ cs[k].at = "delete" <=> k = 1
               /\ cs[k].at = "unlock" => k = 2
    <3>1. CASE k = 1
      BY <1>2, <2>5, <3>1
    <3>2. CASE k = 2
      BY <1>3, <2>5, <3>2
    <3> QED BY <3>1, <3>2
  <2>7. AfterOK(cs, o, last, exact)
    BY <1>3, <1>5, <2>4, <2>5, <2>6 DEF AfterOK
  <2> QED BY <2>2, <2>3, <2>7
<1>6. CASE last /\ ~exact
  <2>1. x = After(o, last, exact)
    <3>1. After(o, last, exact) = x \o e
      BY <1>2, <1>4, <1>6 DEF After
    <3>2. x \o e = x
      BY <1>4, ConcatEmptySeq
    <3> QED BY <3>1, <3>2
  <2>2. AfterOK(x, o, last, exact)
    BY <1>2, <1>6 DEF AfterOK
  <2> QED BY <2>1, <2>2
<1>7. CASE ~last /\ exact
  <2>1. y = After(o, last, exact)
    <3>1. After(o, last, exact) = e \o y
      BY <1>3, <1>4, <1>7 DEF After
    <3>2. e \o y = y
      BY <1>4, ConcatEmptySeq
    <3> QED BY <3>1, <3>2
  <2>2. AfterOK(y, o, last, exact)
    BY <1>3, <1>7 DEF AfterOK
  <2> QED BY <2>1, <2>2
<1>8. CASE ~last /\ ~exact
  <2>1. e = After(o, last, exact)
    <3>1. After(o, last, exact) = e \o e
      BY <1>4, <1>8 DEF After
    <3>2. e \o e = e
      BY <1>4, ConcatEmptySeq
    <3> QED BY <3>1, <3>2
  <2>2. AfterOK(e, o, last, exact)
    BY <1>4, <1>8 DEF AfterOK
  <2> QED BY <2>1, <2>2
<1> QED BY <1>5, <1>6, <1>7, <1>8

\* A thread that is about to count itself is inside of that call.
LEMMA GrabCalls ==
    ASSUME TypeInv, NEW u \in Threads, NEW o \in Objects, Grabs(u), todo[u][Len(todo[u])].o = o
    PROVE  \E i \in DOMAIN todo[u] : todo[u][i] = Call("grab", o) /\ <<u, i>> \in Calls(o, "grab")
<1>1. PICK s \in Seq(CallSet) : s = todo[u] /\ s # << >>
  BY DEF TypeInv, Grabs
<1>2. PICK i \in DOMAIN s : i = Len(s)
  <2>1. Len(s) \in Nat /\ Len(s) # 0 /\ DOMAIN s = 1 .. Len(s)
    BY <1>1, EmptySeq
  <2> QED BY <2>1
<1>3. s[i] = Call("grab", o)
  <2>1. s[i] \in CallSet /\ s[i].at = "grab" /\ s[i].o = o
    BY <1>1, <1>2 DEF Grabs
  <2> QED BY <2>1 DEF CallSet, Call
<1>4. \A h, at : h \in Calls(o, at) <=>
          \E v \in Threads : \E j \in DOMAIN todo[v] : h = <<v, j>> /\ todo[v][j] = Call(at, o)
  BY DEF Calls
<1>5. PICK h : h = <<u, i>>
  OBVIOUS
<1>6. h \in Calls(o, "grab")
  BY <1>1, <1>2, <1>3, <1>4, <1>5
<1> QED BY <1>1, <1>3, <1>5, <1>6

\* The reference goes; the last one leaves the object to be deleted by t.
LEMMA UnrefSubPreserves ==
    ASSUME RefInv, NEW t \in Threads, UnrefSub(t), ~raced'
    PROVE  RefInv'
<1> USE ObjectsAssumption
<1>1. TypeInv /\ StackInv /\ LockInv
  BY DEF RefInv
<1>2. PICK at : at = "sub"
  OBVIOUS
<1>3. PICK n \in Nat, o \in Objects : o = Top(t) /\ At(t, n, at, o)
  BY <1>1, <1>2, DoingIs DEF UnrefSub
<1>4. PICK last \in BOOLEAN, exact \in BOOLEAN : (last <=> refs[o] = 1) /\ (exact <=> mode = "exact")
  OBVIOUS
<1>5. PICK cs \in Seq(CallSet) : cs = After(o, last, exact) /\ AfterOK(cs, o, last, exact)
  BY SubCalls
<1>6. /\ mode' = mode /\ slot' = slot /\ next' = next /\ life' = life /\ crashed' = crashed
      /\ UNCHANGED <<weak, block, blockRefs, sync>>
      /\ refs' = [refs EXCEPT ![o] = @ - 1]
      /\ data' = IF last /\ exact THEN [data EXCEPT ![o] = FALSE] ELSE data
      /\ Become(t, cs)
  <2>1. Become(t, cs)
    BY <1>3, <1>4, <1>5 DEF UnrefSub, After
  <2>2. data' = IF last /\ exact THEN [data EXCEPT ![o] = FALSE] ELSE data
    BY <1>3, <1>4 DEF UnrefSub
  <2> QED BY <1>3, <2>1, <2>2 DEF UnrefSub
<1>7. Stacked(t, n, cs)
  BY <1>1, <1>3, <1>6, AtStacked
<1>8. /\ refs[o] > 0 /\ life[o] = "alive" /\ Here(o) /\ Ends(o) = {} /\ <<t, n + 1>> \in Pend(o)
      /\ exact => sync[o] = t
      /\ \A x \in Objects : sync[x] = t => x = o /\ LockOK(t, x)
  <2>1. refs[o] > 0 /\ life[o] = "alive" /\ Here(o) /\ Ends(o) = {} /\ <<t, n + 1>> \in Pend(o)
    BY <1>2, <1>3, AtCounts
  <2>2. exact => sync[o] = t
    BY <1>2, <1>3, <1>4, AtFacts
  <2>3. \A x \in Objects : sync[x] = t => x = o /\ LockOK(t, x)
    BY <1>3, AtFacts
  <2> QED BY <2>1, <2>2, <2>3
<1>9. PICK m \in Nat : refs[o] = m + 1 /\ (last <=> m = 0)
  <2>1. refs[o] \in Nat
    BY <1>1 DEF TypeInv
  <2>2. refs[o] - 1 \in Nat /\ refs[o] = (refs[o] - 1) + 1
    BY <1>8, <2>1
  <2> QED BY <1>4, <2>2
<1>10. /\ refs' \in [Objects -> Nat] /\ refs'[o] = m
       /\ \A x \in Objects : x # o => refs'[x] = refs[x]
  <2>1. refs \in [Objects -> Nat]
    BY <1>1 DEF TypeInv
  <2> QED BY <1>6, <1>9, <2>1
<1>11. /\ data' \in [Objects -> BOOLEAN]
       /\ \A x \in Objects : data'[x] => data[x]
       /\ last /\ exact => ~data'[o]
  <2>1. data \in [Objects -> BOOLEAN]
    BY <1>1 DEF TypeInv
  <2> QED BY <1>6, <2>1
<1>12. TypeInv'
  BY <1>1, <1>6, <1>7, <1>10, <1>11 DEF TypeInv, Stacked
<1>13. n + 1 = Len(todo[t]) /\ todo[t][n + 1].at = "sub" /\ todo[t][n + 1].o = o
  BY <1>2, <1>3 DEF At
<1>14. ASSUME NEW x \in Objects, x # o PROVE CountOK(x)' /\ EndOK(x)'
  <2>1. CountOK(x) /\ EndOK(x) /\ refs[x] \in Nat
    BY <1>1 DEF RefInv, CountInv, EndInv, TypeInv
  <2>2. Hold(x)' = Hold(x) /\ Links(x)' = Links(x)
    BY <1>6 DEF Hold, Links
  <2>3. \A ats : ~Is(todo[t][n + 1], x, ats) /\ \A k \in 1 .. Len(cs) : ~Is(cs[k], x, ats)
    BY <1>5, <1>13, <1>14 DEF Is, AfterOK
  <2>4. \A ats : CallsOf(x, ats)' = CallsOf(x, ats)
    BY <1>1, <1>7, <2>3, CallsKeep
  <2>5. CountOK(x)'
    BY <1>10, <1>14, <2>1, <2>2, <2>4, CountKeeps
  <2>6. EndOK(x)'
    BY <1>6, <1>10, <1>14, <2>1, <2>4, EndKeeps
  <2> QED BY <2>5, <2>6
<1>15. CountOK(o)'
  <2>1. CountOK(o) /\ Hold(o)' = Hold(o) /\ Links(o)' = Links(o)
    BY <1>6 DEF RefInv, CountInv, Hold, Links
  <2>2. PICK H, L, P, c, k : H = Hold(o) /\ L = Links(o) /\ P = Pend(o) /\ c = <<t, n + 1>> /\ k = refs[o]
    OBVIOUS
  <2>3. Pend(o)' = P \ {c} /\ c \in P
    <3>1. Is(todo[t][n + 1], o, {"lock", "sub"}) /\ \A j \in 1 .. Len(cs) : ~Is(cs[j], o, {"lock", "sub"})
      BY <1>5, <1>13 DEF Is, AfterOK
    <3>2. PICK ats : ats = {"lock", "sub"}
      OBVIOUS
    <3>3. PICK rest : rest = CallsOf(o, ats) \ {c}
      OBVIOUS
    <3>4. CallsOf(o, ats)' = rest
      <4>1. TopIs(t, n, o, ats) /\ NoneIs(cs, o, ats)
        BY <1>13, <3>1, <3>2 DEF TopIs, NoneIs
      <4>2. c = <<t, n + 1>>
        BY <2>2
      <4> QED BY <1>1, <1>7, <3>3, <4>1, <4>2, CallsLose
    <3>5. P = CallsOf(o, ats) /\ Pend(o)' = rest
      BY <2>2, <3>2, <3>4, NamedCalls
    <3> QED BY <1>8, <2>2, <3>3, <3>5
  <2>4. Counted(k, H, L, P)
    BY <2>1, <2>2 DEF CountOK
  <2>5. Counted(k, P, H, L)
    BY <2>4, CountedTurns
  <2>6. Counted(k - 1, P \ {c}, H, L)
    BY <2>3, <2>5, CountedLoses
  <2>7. k - 1 = m
    BY <1>9, <2>2
  <2>8. Counted(m, P \ {c}, H, L)
    BY <2>6, <2>7
  <2>9. Counted(m, H, L, P \ {c})
    BY <2>8, CountedTurns
  <2> QED BY <1>10, <2>1, <2>2, <2>3, <2>9 DEF CountOK, Counted
<1>16. EndOK(o)'
  <2>1. ASSUME NEW ats, "delete" \in ats, ats \subseteq {"delete", "clear"}
        PROVE  CallsOf(o, ats)' = IF last THEN CallsOf(o, ats) \cup {<<t, n + 1>>} ELSE CallsOf(o, ats)
    <3>1. ~Is(todo[t][n + 1], o, ats)
      BY <1>13, <2>1 DEF Is
    <3>2. CASE last
      <4>1. PICK j \in 1 .. Len(cs) : j = 1
        BY <1>5, <3>2 DEF AfterOK
      <4>2. \A k \in 1 .. Len(cs) : Is(cs[k], o, ats) <=> k = j
        BY <1>5, <2>1, <3>2, <4>1 DEF Is, AfterOK
      <4>3. PICK c, more : c = <<t, n + j>> /\ more = CallsOf(o, ats) \cup {c}
        OBVIOUS
      <4>4. CallsOf(o, ats)' = more
        <5>1. ~TopIs(t, n, o, ats) /\ OnlyIs(cs, o, ats, j)
          BY <3>1, <4>2 DEF TopIs, OnlyIs
        <5> QED BY <1>1, <1>7, <4>3, <5>1, CallsGain
      <4> QED BY <3>2, <4>1, <4>3, <4>4
    <3>3. CASE ~last
      <4>1. \A k \in 1 .. Len(cs) : ~Is(cs[k], o, ats)
        BY <1>5, <2>1, <3>3 DEF Is, AfterOK
      <4>2. CallsOf(o, ats)' = CallsOf(o, ats)
        BY <1>1, <1>7, <3>1, <4>1, CallsKeep
      <4> QED BY <3>3, <4>2
    <3> QED BY <3>2, <3>3
  <2>2. Ends(o)' = IF last THEN {<<t, n + 1>>} ELSE {}
    <3>1. Ends(o)' = IF last THEN Ends(o) \cup {<<t, n + 1>>} ELSE Ends(o)
      BY <2>1, NamedCalls
    <3> QED BY <1>8, <3>1
  <2>3. Here(o)' /\ life'[o] = "alive"
    BY <1>6, <1>8 DEF Here
  <2>4. m = 0 \/ m > 0
    OBVIOUS
  <2>5. \A d : Ends(o)' = {d} => \E e : Ends(o)' = {e}
    OBVIOUS
  <2>6. refs'[o] = 0 => \E d : Ends(o)' = {d}
    BY <1>9, <1>10, <2>2
  <2>7. refs'[o] # 0 => Ends(o)' = {}
    BY <1>9, <1>10, <2>2
  <2> QED BY <2>3, <2>6, <2>7 DEF EndOK
<1>17. StackInv'
  <2>1. ASSUME NEW k \in 1 .. Len(cs)
        PROVE  CallOK(t, n + k, cs[k], n + Len(cs))'
    <3>1. PICK d \in CallSet : d = cs[k] /\ d.o = o
      BY <1>5 DEF AfterOK
    <3>2. PICK i, l : i = n + k /\ l = n + Len(cs)
      OBVIOUS
    <3>3. d.at = "delete" \/ (d.at = "unlock" /\ exact /\ i = l)
      BY <1>5, <3>1, <3>2 DEF AfterOK
    <3>4. CallOK(t, i, d, l)'
      BY <1>4, <1>6, <1>8, <3>1, <3>3 DEF CallOK
    <3> QED BY <3>1, <3>2, <3>4 DEF CallOK
  <2> QED BY <1>1, <1>6, <1>7, <2>1, StackKeeps
<1>18. LockInv'
  <2>1. ASSUME NEW u \in Threads, NEW x \in Objects, u # t, sync'[x] = u
        PROVE  sync[x] = u /\ ((refs[x] > 0 => refs'[x] > 0) \/ (mode # "exact" /\ ~Grabs(u)))
    <3>1. sync[x] = u /\ LockOK(u, x)
      BY <1>6, <2>1 DEF LockInv, RefInv
    <3>2. CASE x # o
      BY <1>10, <3>1, <3>2
    <3>3. CASE x = o
      <4>1. mode # "exact"
        BY <1>4, <1>8, <2>1, <3>1, <3>3
      <4>2. Grabs(u) => ~last
        <5>1. Grabs(u) => Calls(o, "grab") # {}
          BY <1>1, <3>1, <3>3, GrabCalls DEF LockOK
        <5> QED BY <1>3, <1>4, <5>1 DEF UnrefSub
      <4>3. ~last => refs'[o] > 0
        BY <1>9, <1>10
      <4> QED BY <3>1, <3>3, <4>1, <4>2, <4>3
    <3> QED BY <3>2, <3>3
  <2>2. ASSUME NEW x \in Objects, sync'[x] = t PROVE LockOK(t, x)'
    <3>1. x = o /\ LockOK(t, o)
      BY <1>6, <1>8, <2>2
    <3>2. exact /\ mode = "exact" /\ block[o] # "none"
      <4>1. todo[t][Len(todo[t])].at = "sub"
        BY <1>13
      <4> QED BY <1>4, <3>1, <4>1 DEF LockOK
    <3>3. PICK l \in Nat : l = Len(cs) /\ l > 0 /\ cs[l].at = "unlock" /\ l \in 1 .. Len(cs)
      <4>1. Len(cs) > 0
        BY <1>5, <3>2 DEF AfterOK
      <4>2. cs[Len(cs)].at = "unlock"
        BY <1>5, <3>2 DEF AfterOK
      <4>3. Len(cs) \in Nat
        BY <1>5
      <4> QED BY <4>1, <4>2, <4>3
    <3>4. Len(todo'[t]) = n + l /\ todo'[t][n + l] = cs[l]
      BY <1>7, <3>3 DEF Stacked
    <3>5. todo'[t] # << >> /\ todo'[t][Len(todo'[t])].o = o /\ todo'[t][Len(todo'[t])].at = "unlock"
      BY <1>5, <3>3, <3>4 DEF AfterOK
    <3>6. Pinned(t, o)'
      <4>1. CASE last
        <5>1. 1 \in 1 .. Len(cs) /\ cs[1].at = "delete" /\ cs[1].o = o /\ cs[1] \in CallSet
          <6>1. 1 \in 1 .. Len(cs)
            BY <1>5, <4>1 DEF AfterOK
          <6>2. cs[1].at = "delete" /\ cs[1].o = o
            BY <1>5, <4>1, <6>1 DEF AfterOK
          <6> QED BY <6>1, <6>2
        <5>2. PICK i \in Nat : i = n + 1
          OBVIOUS
        <5>3. i \in DOMAIN todo'[t] /\ todo'[t][i] = cs[1]
          <6>1. todo'[t][n + 1] = cs[1]
            BY <1>7, <5>1 DEF Stacked
          <6>2. todo'[t] \in Seq(CallSet)
            BY <1>7 DEF Stacked
          <6>3. n + 1 \in 1 .. n + l
            BY <3>3
          <6> QED BY <3>4, <5>2, <6>1, <6>2, <6>3
        <5>4. cs[1] = Call("delete", o)
          BY <5>1 DEF CallSet, Call
        <5> QED BY <5>3, <5>4 DEF Pinned
      <4>2. CASE ~last
        BY <1>9, <1>10, <4>2 DEF Pinned
      <4> QED BY <4>1, <4>2
    <3> QED BY <1>6, <3>1, <3>2, <3>5, <3>6 DEF LockOK, Grabs
  <2>3. \A u \in Threads : u # t => todo'[u] = todo[u] /\ weak'[u] = weak[u]
    BY <1>6, <1>7 DEF Stacked
  <2> QED BY <1>1, <1>6, <2>1, <2>2, <2>3, LockKeeps
<1>19. ASSUME NEW x \in Objects PROVE BlockOK(x)' /\ DataOK(x)'
  <2>1. BlockOK(x) /\ DataOK(x)
    BY DEF RefInv, BlockInv, DataInv
  <2>2. Watch(x)' = Watch(x) /\ Here(x)' = Here(x)
    BY <1>6 DEF Watch, Here
  <2>3. BlockOK(x)'
    BY <1>6, <1>11, <2>1, <2>2, BlockKeeps
  <2>4. DataOK(x)'
    <3>1. mode = "exact" /\ refs[x] > 0 /\ data'[x] => refs'[x] > 0
      <4>1. CASE x = o
        BY <1>4, <1>9, <1>10, <1>11, <4>1
      <4>2. CASE x # o
        BY <1>10, <4>2
      <4> QED BY <4>1, <4>2
    <3> QED BY <1>6, <1>11, <2>1, <2>2, <3>1, DataKeeps
  <2> QED BY <2>3, <2>4
<1>20. CountInv' /\ EndInv'
  BY <1>14, <1>15, <1>16 DEF CountInv, EndInv
<1>21. BlockInv' /\ DataInv'
  BY <1>19 DEF BlockInv, DataInv
<1> QED BY <1>12, <1>17, <1>18, <1>20, <1>21 DEF RefInv

\* The members of the object go: a reference from `next` is one to Unref now.
LEMMA DeletePreserves ==
    ASSUME RefInv, NEW t \in Threads, Delete(t)
    PROVE  RefInv'
<1> USE ObjectsAssumption
<1>1. TypeInv /\ StackInv /\ LockInv
  BY DEF RefInv
<1>2. PICK at : at = "delete"
  OBVIOUS
<1>3. PICK n \in Nat, o \in Objects : o = Top(t) /\ At(t, n, at, o)
  BY <1>1, <1>2, DoingIs DEF Delete
<1>4. PICK q \in MaybeObjects : q = next[o]
  BY <1>1 DEF TypeInv
<1>5. PICK c \in CallSet : c.at = "clear" /\ c.o = o /\ c = Call("clear", o)
  <2>1. "clear" \in Steps
    BY DEF Steps
  <2> QED BY <2>1, OneCall
<1>6. PICK cs : cs = Then(c, q)
  OBVIOUS
<1>7. /\ cs \in Seq(CallSet) /\ cs[1] = c
      /\ q = None => Len(cs) = 1
      /\ q # None => Len(cs) = 2 /\ cs[2].o = q /\ cs[2].at = (IF mode = "exact" THEN "lock" ELSE "sub")
  BY <1>1, <1>6, ThenUnref
<1>8. /\ mode' = mode /\ slot' = slot /\ refs' = refs /\ crashed' = crashed
      /\ UNCHANGED <<weak, block, blockRefs, data, sync>>
      /\ life' = [life EXCEPT ![o] = "dying"] /\ next' = [next EXCEPT ![o] = None]
      /\ Become(t, cs)
  <2>1. Become(t, cs)
    BY <1>3, <1>4, <1>5, <1>6 DEF Delete, Then
  <2> QED BY <1>3, <2>1 DEF Delete, weakVars
<1>9. Stacked(t, n, cs)
  BY <1>1, <1>3, <1>7, <1>8, AtStacked
<1>10. PICK l \in 1 .. 2 : l = Len(cs) /\ (q = None => l = 1) /\ (q # None => l = 2)
  <2>1. CASE q = None
    BY <1>7, <2>1
  <2>2. CASE q # None
    BY <1>7, <2>2
  <2> QED BY <2>1, <2>2
<1>11. /\ Ends(o) = {<<t, n + 1>>} /\ refs[o] = 0 /\ life[o] = "alive"
       /\ \A x \in Objects : sync[x] # t
  <2>1. Ends(o) = {<<t, n + 1>>} /\ refs[o] = 0 /\ life[o] = "alive"
    BY <1>2, <1>3, AtCounts
  <2>2. \A x \in Objects : sync[x] = t => at \in {"take", "grab", "sub", "unlock"}
    BY <1>3, AtFacts
  <2> QED BY <1>2, <2>1, <2>2
<1>12. /\ life' \in [Objects -> {"none", "alive", "dying", "dead"}] /\ life'[o] = "dying"
       /\ \A x \in Objects : x # o => life'[x] = life[x]
  BY <1>1, <1>8 DEF TypeInv
<1>13. /\ next' \in [Objects -> MaybeObjects] /\ next'[o] = None
       /\ \A x \in Objects : x # o => next'[x] = next[x]
  BY <1>1, <1>8 DEF TypeInv, MaybeObjects
<1>14. TypeInv'
  BY <1>1, <1>8, <1>9, <1>12, <1>13 DEF TypeInv, Stacked
<1>15. n + 1 = Len(todo[t]) /\ todo[t][n + 1].at = "delete" /\ todo[t][n + 1].o = o
  BY <1>2, <1>3 DEF At
<1>16. q # o
  <2>1. q = o => o \in Links(o)
    BY <1>4 DEF Links
  <2>2. q = o => Hold(o) \cup Links(o) \cup Pend(o) # {}
    BY <2>1
  <2> QED BY <1>11, <2>2, Referred
<1>17. ASSUME NEW x \in Objects PROVE CountOK(x)'
  <2>1. CountOK(x) /\ Hold(x)' = Hold(x) /\ x # None /\ refs'[x] = refs[x]
    BY <1>8 DEF RefInv, CountInv, Hold
  <2>2. PICK ats : ats = {"lock", "sub"}
    OBVIOUS
  <2>3. ~TopIs(t, n, x, ats) /\ ~Is(todo[t][n + 1], x, ats) /\ ~Is(cs[1], x, ats)
    BY <1>5, <1>7, <1>15, <2>2 DEF TopIs, Is
  <2>4. CASE x = q
    <3>1. l = 2 /\ Is(cs[2], x, ats)
      BY <1>7, <1>10, <2>1, <2>2, <2>4 DEF Is
    <3>2. PICK j \in Nat : j = 2
      OBVIOUS
    <3>3. OnlyIs(cs, x, ats, j)
      BY <1>10, <2>3, <3>1, <3>2 DEF OnlyIs
    <3>4. PICK d, more : d = <<t, n + j>> /\ more = CallsOf(x, ats) \cup {d}
      OBVIOUS
    <3>5. d \notin CallsOf(x, ats) /\ CallsOf(x, ats)' = more
      BY <1>1, <1>9, <2>3, <3>3, <3>4, CallsGain
    <3>6. PICK H, L, P, k : H = Hold(x) /\ L = Links(x) /\ P = Pend(x) /\ k = refs[x]
      OBVIOUS
    <3>7. P = CallsOf(x, ats) /\ Pend(x)' = P \cup {d} /\ d \notin P
      BY <2>2, <3>4, <3>5, <3>6, NamedCalls
    <3>8. o \in L /\ Links(x)' = L \ {o}
      BY <1>4, <1>13, <2>1, <2>4, <3>6 DEF Links
    <3>9. Counted(k, H, L, P)
      BY <2>1, <3>6 DEF CountOK
    <3>10. Counted(k, L, P, H)
      BY <3>9, CountedTurns
    <3>11. Counted(k, L \ {o}, P \cup {d}, H)
      BY <3>7, <3>8, <3>10, CountedMoves
    <3>12. PICK L2, P2 : L2 = L \ {o} /\ P2 = P \cup {d}
      OBVIOUS
    <3>13. Counted(k, P2, H, L2)
      BY <3>11, <3>12, CountedTurns
    <3>14. Counted(k, H, L2, P2)
      BY <3>13, CountedTurns
    <3> QED BY <2>1, <3>6, <3>7, <3>8, <3>12, <3>14 DEF CountOK, Counted
  <2>5. CASE x # q
    <3>1. Links(x)' = Links(x)
      BY <1>4, <1>13, <2>1, <2>5 DEF Links
    <3>2. \A k \in 1 .. Len(cs) : ~Is(cs[k], x, ats)
      <4>1. \A k \in 1 .. l : k = 1 \/ (k = 2 /\ q # None)
        BY <1>10
      <4>2. q # None => ~Is(cs[2], x, ats)
        BY <1>7, <2>5 DEF Is
      <4> QED BY <1>10, <2>3, <4>1, <4>2
    <3>3. CallsOf(x, ats)' = CallsOf(x, ats)
      BY <1>1, <1>9, <2>3, <3>2, CallsKeep
    <3> QED BY <2>1, <2>2, <3>1, <3>3, CountKeeps
  <2> QED BY <2>4, <2>5
<1>18. \A k \in 1 .. Len(cs) : cs[k].at \in {"delete", "clear"} => k = 1
  <2>1. \A k \in 1 .. l : k = 1 \/ (k = 2 /\ q # None)
    BY <1>10
  <2>2. q # None => cs[2].at \notin {"delete", "clear"}
    BY <1>7
  <2> QED BY <1>10, <2>1, <2>2
<1>19. ASSUME NEW x \in Objects, x # o PROVE EndOK(x)'
  <2>1. EndOK(x) /\ refs[x] \in Nat
    BY <1>1 DEF RefInv, EndInv, TypeInv
  <2>2. ASSUME NEW ats, ats \subseteq {"delete", "clear"}
        PROVE  CallsOf(x, ats)' = CallsOf(x, ats)
    <3>1. ~Is(todo[t][n + 1], x, ats)
      BY <1>15, <1>19 DEF Is
    <3>2. \A k \in 1 .. Len(cs) : ~Is(cs[k], x, ats)
      BY <1>5, <1>7, <1>18, <1>19, <2>2 DEF Is
    <3> QED BY <1>1, <1>9, <3>1, <3>2, CallsKeep
  <2>3. CallsOf(x, {"delete", "clear"})' = CallsOf(x, {"delete", "clear"})
    BY <2>2
  <2>4. CallsOf(x, {"delete"})' = CallsOf(x, {"delete"})
    BY <2>2
  <2> QED BY <1>8, <1>12, <1>19, <2>1, <2>3, <2>4, EndKeeps
<1>20. EndOK(o)'
  <2>1. Ends(o)' = Ends(o)
    <3>1. PICK ats : ats = {"delete", "clear"}
      OBVIOUS
    <3>2. Is(todo[t][n + 1], o, ats)
      BY <1>15, <3>1 DEF Is
    <3>3. PICK j \in 1 .. Len(cs) : j = 1
      BY <1>10
    <3>4. Is(cs[1], o, ats) /\ \A k \in 1 .. Len(cs) : Is(cs[k], o, ats) => k = 1
      BY <1>5, <1>7, <1>18, <3>1 DEF Is
    <3>5. \A k \in 1 .. Len(cs) : Is(cs[k], o, ats) <=> k = j
      BY <3>3, <3>4
    <3>6. CallsOf(o, ats)' = CallsOf(o, ats)
      BY <1>1, <1>9, <1>15, <3>2, <3>3, <3>5, CallsStay
    <3> QED BY <3>1, <3>6, NamedCalls
  <2>2. Calls(o, "delete")' = {}
    <3>1. PICK a : a = "delete"
      OBVIOUS
    <3>2. TopIs(t, n, o, {a}) /\ NoneIs(cs, o, {a})
      <4>1. TopIs(t, n, o, {a})
        BY <1>15, <3>1 DEF TopIs, Is
      <4>2. cs[1].at # a
        BY <1>5, <1>7, <3>1
      <4>3. \A k \in 1 .. Len(cs) : cs[k].at # a
        BY <1>18, <3>1, <4>2
      <4>4. NoneIs(cs, o, {a})
        BY <4>3 DEF NoneIs, Is
      <4> QED BY <4>1, <4>4
    <3>3. PICK ats, d : ats = {a} /\ d = <<t, n + 1>>
      OBVIOUS
    <3>4. PICK rest : rest = CallsOf(o, ats) \ {d}
      OBVIOUS
    <3>5. TopIs(t, n, o, ats) /\ NoneIs(cs, o, ats) /\ d = <<t, n + 1>>
      BY <3>2, <3>3
    <3>6. CallsOf(o, ats)' = rest
      BY <1>1, <1>9, <3>4, <3>5, CallsLose
    <3>7. CallsOf(o, ats) = Calls(o, "delete") /\ CallsOf(o, ats)' = Calls(o, "delete")'
      BY <3>1, <3>3, NamedCalls
    <3>8. Calls(o, "delete") \subseteq {d}
      BY <1>11, <3>3 DEF Ends
    <3> QED BY <3>4, <3>6, <3>7, <3>8
  <2>3. refs'[o] = 0 /\ Here(o)'
    BY <1>8, <1>11, <1>12 DEF Here
  <2>4. \E d : Ends(o)' = {d}
    BY <1>11, <2>1
  <2> QED BY <2>2, <2>3, <2>4 DEF EndOK
<1>21. StackInv'
  <2>1. ASSUME NEW k \in 1 .. Len(cs)
        PROVE  CallOK(t, n + k, cs[k], n + Len(cs))'
    <3>1. PICK d \in CallSet : d = cs[k]
      BY <1>7
    <3>2. PICK i, m : i = n + k /\ m = n + Len(cs)
      OBVIOUS
    <3>3. \/ d.at = "clear"
          \/ d.at \in {"lock", "sub"} /\ (mode = "exact" <=> d.at = "lock") /\ i = m
      <4>1. CASE k = 1
        BY <1>5, <1>7, <3>1, <4>1
      <4>2. CASE k = 2
        BY <1>7, <1>10, <3>1, <3>2, <4>2
      <4> QED BY <1>10, <4>1, <4>2
    <3>4. CallOK(t, i, d, m)'
      BY <1>8, <3>3 DEF CallOK
    <3> QED BY <3>1, <3>2, <3>4 DEF CallOK
  <2> QED BY <1>1, <1>8, <1>9, <2>1, StackKeeps
<1>22. LockInv'
  <2>1. \A x \in Objects : sync'[x] = t => LockOK(t, x)'
    BY <1>8, <1>11
  <2>2. \A u \in Threads : u # t => todo'[u] = todo[u] /\ weak'[u] = weak[u]
    BY <1>8, <1>9 DEF Stacked
  <2>3. \A x \in Objects, u \in Threads :
            u # t /\ sync'[x] = u => sync[x] = u /\ (refs[x] > 0 => refs'[x] > 0)
    BY <1>8
  <2> QED BY <1>1, <1>8, <2>1, <2>2, <2>3, LockKeeps
<1>23. ASSUME NEW x \in Objects PROVE BlockOK(x)' /\ DataOK(x)'
  <2>1. BlockOK(x) /\ DataOK(x)
    BY DEF RefInv, BlockInv, DataInv
  <2>2. Watch(x)' = Watch(x) /\ Here(x)' = Here(x) /\ (life'[x] = "none" => life[x] = "none")
    BY <1>8, <1>11, <1>12 DEF Watch, Here
  <2>3. BlockOK(x)'
    BY <1>8, <2>1, <2>2, BlockKeeps
  <2>4. DataOK(x)'
    BY <1>8, <2>1, <2>2, DataKeeps
  <2> QED BY <2>3, <2>4
<1>24. CountInv' /\ EndInv' /\ BlockInv' /\ DataInv'
  BY <1>17, <1>19, <1>20, <1>23 DEF CountInv, EndInv, BlockInv, DataInv
<1> QED BY <1>14, <1>21, <1>22, <1>24 DEF RefInv

\* A set of Weaks, one more or one fewer.
LEMMA WatchSet ==
    ASSUME TypeInv, NEW t \in Threads, NEW o \in Objects, NEW v \in MaybeObjects,
           weak' = [weak EXCEPT ![t] = v]
    PROVE  /\ weak' \in [Threads -> MaybeObjects]
           /\ \A u \in Threads : u # t => weak'[u] = weak[u]
           /\ o = v => Watch(o)' = Watch(o) \cup {t}
           /\ o # v => Watch(o)' = Watch(o) \ {t}
           /\ t \in Watch(o) <=> weak[t] = o
<1>1. weak \in [Threads -> MaybeObjects]
  BY DEF TypeInv
<1>2. \A u \in Threads : weak'[u] = IF u = t THEN v ELSE weak[u]
  BY <1>1
<1>3. weak' \in [Threads -> MaybeObjects]
  BY <1>1
<1>4. o = v => Watch(o)' = Watch(o) \cup {t}
  BY <1>2 DEF Watch
<1>5. o # v => Watch(o)' = Watch(o) \ {t}
  BY <1>2 DEF Watch
<1> QED BY <1>2, <1>3, <1>4, <1>5 DEF Watch

\* One reference to the block of o fewer.
LEMMA Releases ==
    ASSUME TypeInv, NEW o \in Objects, BlockOK(o), ReleaseBlock(o), block[o] # "none",
           NEW n \in Nat, blockRefs[o] = n + 1
    PROVE  /\ blockRefs' \in [Objects -> Nat] /\ blockRefs'[o] = n
           /\ block' \in [Objects -> {"none", "made", "freed"}]
           /\ block'[o] = IF n = 0 THEN "freed" ELSE "made"
           /\ \A x \in Objects : x # o => blockRefs'[x] = blockRefs[x] /\ block'[x] = block[x]
<1>1. blockRefs \in [Objects -> Nat] /\ block \in [Objects -> {"none", "made", "freed"}]
  BY DEF TypeInv
<1>2. block[o] = "made"
  BY <1>1 DEF BlockOK
<1>3. blockRefs' = [blockRefs EXCEPT ![o] = n]
  BY <1>1 DEF ReleaseBlock
<1>4. block' = IF n = 0 THEN [block EXCEPT ![o] = "freed"] ELSE block
  BY DEF ReleaseBlock
<1>5. blockRefs' \in [Objects -> Nat] /\ blockRefs'[o] = n
      /\ \A x \in Objects : x # o => blockRefs'[x] = blockRefs[x]
  BY <1>1, <1>3
<1>6. block' \in [Objects -> {"none", "made", "freed"}] /\ block'[o] = (IF n = 0 THEN "freed" ELSE "made")
      /\ \A x \in Objects : x # o => block'[x] = block[x]
  BY <1>1, <1>2, <1>4
<1> QED BY <1>5, <1>6

\* The object is gone, and so is its reference to the block.
LEMMA DestroyPreserves ==
    ASSUME RefInv, NEW t \in Threads, DestroyWeakable(t)
    PROVE  RefInv'
<1> USE ObjectsAssumption
<1>1. TypeInv /\ StackInv /\ LockInv
  BY DEF RefInv
<1>2. PICK at : at = "clear"
  OBVIOUS
<1>3. PICK n \in Nat, o \in Objects : o = Top(t) /\ At(t, n, at, o)
  BY <1>1, <1>2, DoingIs DEF DestroyWeakable
<1>4. /\ mode' = mode /\ slot' = slot /\ next' = next /\ refs' = refs /\ crashed' = crashed
      /\ weak' = weak /\ sync' = sync
      /\ life' = [life EXCEPT ![o] = "dead"] /\ data' = [data EXCEPT ![o] = FALSE]
      /\ IF block[o] = "none" THEN UNCHANGED <<block, blockRefs>> ELSE ReleaseBlock(o)
      /\ Become(t, << >>)
  BY <1>3 DEF DestroyWeakable
<1>5. PICK cs \in Seq(CallSet) : cs = << >> /\ \A k \in 1 .. Len(cs) : FALSE
  BY NoCalls
<1>6. Stacked(t, n, cs)
  BY <1>1, <1>3, <1>4, <1>5, AtStacked
<1>7. /\ Ends(o) = {<<t, n + 1>>} /\ refs[o] = 0 /\ Here(o)
      /\ \A x \in Objects : sync[x] # t
  <2>1. Ends(o) = {<<t, n + 1>>} /\ refs[o] = 0 /\ Here(o)
    BY <1>2, <1>3, AtCounts
  <2>2. \A x \in Objects : sync[x] = t => at \in {"take", "grab", "sub", "unlock"}
    BY <1>3, AtFacts
  <2> QED BY <1>2, <2>1, <2>2
<1>8. /\ life' \in [Objects -> {"none", "alive", "dying", "dead"}] /\ life'[o] = "dead"
      /\ \A x \in Objects : x # o => life'[x] = life[x]
  BY <1>1, <1>4 DEF TypeInv
<1>9. /\ data' \in [Objects -> BOOLEAN] /\ data'[o] = FALSE
      /\ \A x \in Objects : x # o => data'[x] = data[x]
  BY <1>1, <1>4 DEF TypeInv
<1>10. BlockOK(o)
  BY DEF RefInv, BlockInv
<1>11. PICK w \in Nat : w = Cardinality(Watch(o)) /\ (block[o] # "none" => blockRefs[o] = w + 1)
  <2>1. Cardinality(Watch(o)) \in Nat
    BY <1>10, FS_CardinalityType DEF BlockOK
  <2>2. block[o] # "none" => blockRefs[o] = Cardinality(Watch(o)) + 1
    BY <1>7, <1>10 DEF BlockOK
  <2> QED BY <2>1, <2>2
<1>12. /\ blockRefs' \in [Objects -> Nat] /\ block' \in [Objects -> {"none", "made", "freed"}]
       /\ \A x \in Objects : x # o => blockRefs'[x] = blockRefs[x] /\ block'[x] = block[x]
       /\ block[o] = "none" => block'[o] = "none"
       /\ block[o] # "none" => blockRefs'[o] = w /\ block'[o] = IF w = 0 THEN "freed" ELSE "made"
  <2>1. CASE block[o] = "none"
    BY <1>1, <1>4, <2>1 DEF TypeInv
  <2>2. CASE block[o] # "none"
    <3>1. ReleaseBlock(o) /\ blockRefs[o] = w + 1
      BY <1>4, <1>11, <2>2
    <3>2. /\ blockRefs' \in [Objects -> Nat] /\ blockRefs'[o] = w
          /\ block' \in [Objects -> {"none", "made", "freed"}]
          /\ block'[o] = IF w = 0 THEN "freed" ELSE "made"
          /\ \A x \in Objects : x # o => blockRefs'[x] = blockRefs[x] /\ block'[x] = block[x]
      BY <1>1, <1>10, <2>2, <3>1, Releases
    <3> QED BY <2>2, <3>2
  <2> QED BY <2>1, <2>2
<1>13. TypeInv'
  BY <1>1, <1>4, <1>6, <1>8, <1>9, <1>12 DEF TypeInv, Stacked
<1>14. n + 1 = Len(todo[t]) /\ todo[t][n + 1].at = "clear" /\ todo[t][n + 1].o = o
  BY <1>2, <1>3 DEF At
<1>15. ASSUME NEW x \in Objects PROVE CountOK(x)'
  <2>1. CountOK(x) /\ Hold(x)' = Hold(x) /\ Links(x)' = Links(x) /\ refs'[x] = refs[x]
    BY <1>4 DEF RefInv, CountInv, Hold, Links
  <2>2. PICK ats : ats = {"lock", "sub"}
    OBVIOUS
  <2>3. ~Is(todo[t][n + 1], x, ats)
    BY <1>14, <2>2 DEF Is
  <2>4. CallsOf(x, ats)' = CallsOf(x, ats)
    BY <1>1, <1>5, <1>6, <2>3, CallsKeep
  <2> QED BY <2>1, <2>2, <2>4, CountKeeps
<1>16. ASSUME NEW x \in Objects, x # o PROVE EndOK(x)'
  <2>1. EndOK(x) /\ refs[x] \in Nat
    BY <1>1 DEF RefInv, EndInv, TypeInv
  <2>2. \A ats : ~Is(todo[t][n + 1], x, ats)
    BY <1>14, <1>16 DEF Is
  <2>3. \A ats : CallsOf(x, ats)' = CallsOf(x, ats)
    BY <1>1, <1>5, <1>6, <2>2, CallsKeep
  <2> QED BY <1>4, <1>8, <1>16, <2>1, <2>3, EndKeeps
<1>17. EndOK(o)'
  <2>1. PICK ats, d : ats = {"delete", "clear"} /\ d = <<t, n + 1>>
    OBVIOUS
  <2>2. PICK rest : rest = CallsOf(o, ats) \ {d}
    OBVIOUS
  <2>3. TopIs(t, n, o, ats) /\ NoneIs(cs, o, ats) /\ d = <<t, n + 1>>
    BY <1>5, <1>14, <2>1 DEF TopIs, NoneIs, Is
  <2>4. CallsOf(o, ats)' = rest
    BY <1>1, <1>6, <2>2, <2>3, CallsLose
  <2>5. Ends(o) = CallsOf(o, ats) /\ Ends(o)' = rest
    BY <2>1, <2>4, NamedCalls
  <2>6. Ends(o)' = {}
    BY <1>7, <2>1, <2>2, <2>5
  <2>7. Calls(o, "delete")' \subseteq Ends(o)'
    BY DEF Ends
  <2>8. refs'[o] = 0 /\ life'[o] = "dead" /\ ~Here(o)'
    BY <1>4, <1>7, <1>8 DEF Here
  <2>9. Calls(o, "delete")' = {}
    BY <2>6, <2>7
  <2> QED BY <2>6, <2>8, <2>9 DEF EndOK
<1>18. StackInv'
  BY <1>1, <1>4, <1>5, <1>6, StackKeeps
<1>19. LockInv'
  <2>1. \A x \in Objects : sync'[x] = t => LockOK(t, x)'
    BY <1>4, <1>7
  <2>2. \A u \in Threads : u # t => todo'[u] = todo[u] /\ weak'[u] = weak[u]
    BY <1>4, <1>6 DEF Stacked
  <2>3. \A x \in Objects, u \in Threads :
            u # t /\ sync'[x] = u => sync[x] = u /\ (refs[x] > 0 => refs'[x] > 0)
    BY <1>4
  <2>4. \A x \in Objects : block[x] # "none" => block'[x] # "none"
    BY <1>12
  <2> QED BY <1>1, <1>4, <2>1, <2>2, <2>3, <2>4, LockKeeps
<1>20. ASSUME NEW x \in Objects PROVE BlockOK(x)' /\ DataOK(x)'
  <2>1. BlockOK(x) /\ DataOK(x) /\ Watch(x)' = Watch(x)
    BY <1>4 DEF RefInv, BlockInv, DataInv, Watch
  <2>2. CASE x # o
    <3>1. Here(x)' = Here(x)
      BY <1>8, <2>2 DEF Here
    <3>2. BlockOK(x)'
      BY <1>8, <1>9, <1>12, <2>1, <2>2, <3>1, BlockKeeps
    <3>3. DataOK(x)'
      BY <1>4, <1>9, <2>1, <2>2, <3>1, DataKeeps
    <3> QED BY <3>2, <3>3
  <2>3. CASE x = o
    <3>1. life'[x] = "dead" /\ ~Here(x)' /\ ~data'[x]
      BY <1>8, <1>9, <2>3 DEF Here
    <3>2. DataOK(x)'
      BY <3>1 DEF DataOK
    <3>3. CASE block[o] = "none"
      BY <1>10, <1>12, <2>1, <2>3, <3>1, <3>2, <3>3 DEF BlockOK
    <3>4. CASE block[o] # "none"
      <4>1. blockRefs'[x] = w /\ w = Cardinality(Watch(x)') /\ block'[x] = IF w = 0 THEN "freed" ELSE "made"
        BY <1>11, <1>12, <2>1, <2>3, <3>4
      <4>2. blockRefs'[x] = Cardinality(Watch(x)') + 0
        BY <4>1
      <4>3. (block'[x] = "freed" => blockRefs'[x] = 0) /\ (block'[x] = "made" => blockRefs'[x] > 0)
            /\ block'[x] # "none"
        BY <4>1
      <4>4. IsFiniteSet(Watch(x)')
        BY <2>1 DEF BlockOK
      <4> QED BY <3>1, <3>2, <4>2, <4>3, <4>4 DEF BlockOK
    <3> QED BY <3>3, <3>4
  <2> QED BY <2>2, <2>3
<1>21. CountInv' /\ EndInv' /\ BlockInv' /\ DataInv'
  BY <1>15, <1>16, <1>17, <1>20 DEF CountInv, EndInv, BlockInv, DataInv
<1> QED BY <1>13, <1>18, <1>19, <1>21 DEF RefInv

LEMMA StrongSame ==
    ASSUME RefInv, UNCHANGED <<slot, next, refs, life, todo>>
    PROVE  CountInv' /\ EndInv'
<1>1. \A x : Hold(x)' = Hold(x) /\ Links(x)' = Links(x)
  BY DEF Hold, Links
<1>2. \A x, ats : CallsOf(x, ats)' = CallsOf(x, ats)
  BY CallsSame
<1>3. ASSUME NEW x \in Objects PROVE CountOK(x)' /\ EndOK(x)'
  <2>1. CountOK(x) /\ EndOK(x) /\ refs[x] \in Nat
    BY DEF RefInv, CountInv, EndInv, TypeInv
  <2>2. CountOK(x)'
    BY <1>1, <1>2, <2>1, CountKeeps
  <2>3. EndOK(x)'
    BY <1>2, <2>1, EndKeeps
  <2> QED BY <2>2, <2>3
<1> QED BY <1>3 DEF CountInv, EndInv

LEMMA GetWeakPreserves ==
    ASSUME RefInv, NEW t \in Threads, GetWeak(t)
    PROVE  RefInv'
<1> USE ObjectsAssumption
<1>1. TypeInv /\ StackInv /\ LockInv
  BY DEF RefInv
<1>2. PICK o : o = slot[t][1]
  OBVIOUS
<1>3. /\ mode' = mode /\ slot' = slot /\ next' = next /\ refs' = refs /\ life' = life
      /\ sync' = sync /\ todo' = todo /\ crashed' = crashed
      /\ todo[t] = << >> /\ o # None /\ weak[t] = None
      /\ weak' = [weak EXCEPT ![t] = o] /\ block' = [block EXCEPT ![o] = "made"]
      /\ data' = IF block[o] = "none" THEN [data EXCEPT ![o] = TRUE] ELSE data
      /\ blockRefs' = [blockRefs EXCEPT ![o] = IF block[o] = "none" THEN 2 ELSE @ + 1]
  BY <1>2 DEF GetWeak, Free, countVars
<1>4. o \in Objects /\ refs[o] > 0 /\ Here(o) /\ life[o] = "alive"
  <2>1. PICK i \in 1 .. 2 : i = 1
    OBVIOUS
  <2> QED BY <1>2, <1>3, <2>1, HeldFacts
<1>5. BlockOK(o)
  BY <1>4 DEF RefInv, BlockInv
<1>6. PICK n \in Nat : n = Cardinality(Watch(o)) /\ (block[o] # "none" => blockRefs[o] = n + 1)
  <2>1. Cardinality(Watch(o)) \in Nat
    BY <1>5, FS_CardinalityType DEF BlockOK
  <2>2. block[o] # "none" => blockRefs[o] = Cardinality(Watch(o)) + 1
    BY <1>4, <1>5 DEF BlockOK
  <2> QED BY <2>1, <2>2
<1>7. o \in MaybeObjects /\ o # None
  BY <1>3, <1>4 DEF MaybeObjects
<1>8. weak' \in [Threads -> MaybeObjects] /\ \A u \in Threads : u # t => weak'[u] = weak[u]
  BY <1>1, <1>3, <1>4, <1>7, WatchSet
<1>9. ASSUME NEW x \in Objects PROVE Watch(x)' = IF x = o THEN Watch(x) \cup {t} ELSE Watch(x)
  <2>1. t \notin Watch(x)
    BY <1>3 DEF Watch
  <2>2. CASE x = o
    BY <1>1, <1>3, <1>7, <2>2, WatchSet
  <2>3. CASE x # o
    <3>1. Watch(x)' = Watch(x) \ {t}
      BY <1>1, <1>3, <1>7, <2>3, WatchSet
    <3> QED BY <2>1, <2>3, <3>1
  <2> QED BY <2>2, <2>3
<1>10. /\ block' \in [Objects -> {"none", "made", "freed"}] /\ block'[o] = "made"
       /\ \A x \in Objects : x # o => block'[x] = block[x]
  BY <1>1, <1>3, <1>4 DEF TypeInv
<1>11. /\ data' \in [Objects -> BOOLEAN]
       /\ \A x \in Objects : x # o => data'[x] = data[x]
  BY <1>1, <1>3, <1>4 DEF TypeInv
<1>12. Watch(o)' = Watch(o) \cup {t} /\ t \notin Watch(o) /\ (block[o] = "none" => Watch(o) = {})
  BY <1>3, <1>4, <1>5, <1>9 DEF Watch, BlockOK
<1>13. IsFiniteSet(Watch(o)') /\ Cardinality(Watch(o)') = n + 1 /\ (block[o] = "none" => n = 0)
  <2>1. IsFiniteSet(Watch(o))
    BY <1>5 DEF BlockOK
  <2>2. IsFiniteSet(Watch(o) \cup {t}) /\ Cardinality(Watch(o) \cup {t}) = n + 1
    BY <1>6, <1>12, <2>1, FS_AddElement
  <2>3. block[o] = "none" => n = 0
    BY <1>6, <1>12, FS_EmptySet
  <2> QED BY <1>12, <2>2, <2>3
<1>14. /\ blockRefs' \in [Objects -> Nat] /\ blockRefs'[o] = n + 2
       /\ \A x \in Objects : x # o => blockRefs'[x] = blockRefs[x]
  <2>1. blockRefs \in [Objects -> Nat]
    BY <1>1 DEF TypeInv
  <2>2. CASE block[o] = "none"
    <3>1. blockRefs' = [blockRefs EXCEPT ![o] = 2] /\ n + 2 = 2
      BY <1>3, <1>13, <2>2
    <3> QED BY <1>4, <2>1, <3>1
  <2>3. CASE block[o] # "none"
    <3>1. PICK k \in Nat : k = n + 2 /\ k = (n + 1) + 1
      OBVIOUS
    <3>2. blockRefs' = [blockRefs EXCEPT ![o] = k]
      BY <1>3, <1>4, <1>6, <2>1, <2>3, <3>1
    <3> QED BY <1>4, <2>1, <3>1, <3>2
  <2> QED BY <2>2, <2>3
<1>15. TypeInv'
  BY <1>1, <1>3, <1>8, <1>10, <1>11, <1>14 DEF TypeInv
<1>16. CountInv' /\ EndInv'
  BY <1>3, StrongSame
<1>17. StackInv'
  BY <1>1, <1>3, StackSame
<1>18. LockInv'
  <2>1. \A x \in Objects : block[x] # "none" => block'[x] # "none"
    BY <1>10
  <2> QED BY <1>3, <1>8, <2>1, IdleLock
<1>19. ASSUME NEW x \in Objects PROVE BlockOK(x)' /\ DataOK(x)'
  <2>1. BlockOK(x) /\ DataOK(x) /\ Here(x)' = Here(x)
    BY <1>3 DEF RefInv, BlockInv, DataInv, Here
  <2>2. CASE x = o
    <3>1. DataOK(x)'
      BY <1>3, <1>4, <2>1, <2>2 DEF DataOK
    <3>2. blockRefs'[x] = Cardinality(Watch(x)') + 1 /\ blockRefs'[x] > 0
      BY <1>13, <1>14, <2>2
    <3>3. block'[x] = "made" /\ Here(x)' /\ life'[x] # "none"
      BY <1>3, <1>4, <1>10, <2>1, <2>2
    <3>4. BlockOK(x)'
      BY <1>13, <2>2, <3>2, <3>3 DEF BlockOK
    <3> QED BY <3>1, <3>4
  <2>3. CASE x # o
    <3>1. Watch(x)' = Watch(x)
      BY <1>9, <2>3
    <3>2. BlockOK(x)'
      BY <1>3, <1>10, <1>11, <1>14, <2>1, <2>3, <3>1, BlockKeeps
    <3>3. DataOK(x)'
      BY <1>3, <1>11, <2>1, <2>3, DataKeeps
    <3> QED BY <3>2, <3>3
  <2> QED BY <2>2, <2>3
<1>20. BlockInv' /\ DataInv'
  BY <1>19 DEF BlockInv, DataInv
<1> QED BY <1>15, <1>16, <1>17, <1>18, <1>20 DEF RefInv

LEMMA DropWeakPreserves ==
    ASSUME RefInv, NEW t \in Threads, DropWeak(t)
    PROVE  RefInv'
<1> USE ObjectsAssumption
<1>1. TypeInv /\ StackInv /\ LockInv
  BY DEF RefInv
<1>2. PICK o : o = weak[t]
  OBVIOUS
<1>3. /\ mode' = mode /\ slot' = slot /\ next' = next /\ refs' = refs /\ life' = life
      /\ sync' = sync /\ todo' = todo /\ crashed' = crashed /\ data' = data
      /\ todo[t] = << >> /\ o # None
      /\ weak' = [weak EXCEPT ![t] = None] /\ ReleaseBlock(o)
  BY <1>2 DEF DropWeak, Free, countVars
<1>4. o \in Objects /\ None \in MaybeObjects /\ t \in Watch(o)
  BY <1>1, <1>2, <1>3 DEF TypeInv, MaybeObjects, Watch
<1>5. BlockOK(o) /\ block[o] # "none"
  BY <1>4 DEF RefInv, BlockInv, BlockOK
<1>6. PICK h \in {0, 1} : h = IF Here(o) THEN 1 ELSE 0
  OBVIOUS
<1>7. PICK w \in Nat : /\ Cardinality(Watch(o)) = w + 1 /\ blockRefs[o] = (w + h) + 1
                       /\ IsFiniteSet(Watch(o) \ {t}) /\ Cardinality(Watch(o) \ {t}) = w
  <2>1. PICK c \in Nat : c = Cardinality(Watch(o)) /\ IsFiniteSet(Watch(o)) /\ blockRefs[o] = c + h
    <3>1. IsFiniteSet(Watch(o)) /\ Cardinality(Watch(o)) \in Nat
      BY <1>5, FS_CardinalityType DEF BlockOK
    <3>2. blockRefs[o] = Cardinality(Watch(o)) + h
      BY <1>5, <1>6 DEF BlockOK
    <3> QED BY <3>1, <3>2
  <2>2. IsFiniteSet(Watch(o) \ {t}) /\ Cardinality(Watch(o) \ {t}) = c - 1
    BY <1>4, <2>1, FS_RemoveElement
  <2>3. PICK w \in Nat : w = c - 1
    BY <2>2, FS_CardinalityType
  <2>4. c = w + 1 /\ c + h = (w + h) + 1
    BY <2>3
  <2> QED BY <2>1, <2>2, <2>3, <2>4
<1>8. PICK n \in Nat : n = w + h /\ blockRefs[o] = n + 1
  BY <1>7
<1>9. /\ blockRefs' \in [Objects -> Nat] /\ blockRefs'[o] = n
      /\ block' \in [Objects -> {"none", "made", "freed"}]
      /\ block'[o] = IF n = 0 THEN "freed" ELSE "made"
      /\ \A x \in Objects : x # o => blockRefs'[x] = blockRefs[x] /\ block'[x] = block[x]
  BY <1>1, <1>3, <1>4, <1>5, <1>8, Releases
<1>10. weak' \in [Threads -> MaybeObjects] /\ \A u \in Threads : u # t => weak'[u] = weak[u]
  BY <1>1, <1>3, <1>4, WatchSet
<1>11. ASSUME NEW x \in Objects PROVE Watch(x)' = Watch(x) \ {t} /\ (t \in Watch(x) <=> weak[t] = x)
  BY <1>1, <1>3, <1>4, WatchSet
<1>12. TypeInv'
  BY <1>1, <1>3, <1>9, <1>10 DEF TypeInv
<1>13. CountInv' /\ EndInv'
  BY <1>3, StrongSame
<1>14. StackInv'
  BY <1>1, <1>3, StackSame
<1>15. LockInv'
  <2>1. \A x \in Objects : block[x] # "none" => block'[x] # "none"
    BY <1>9
  <2> QED BY <1>3, <1>10, <2>1, IdleLock
<1>16. ASSUME NEW x \in Objects PROVE BlockOK(x)' /\ DataOK(x)'
  <2>1. BlockOK(x) /\ DataOK(x) /\ Here(x)' = Here(x)
    BY <1>3 DEF RefInv, BlockInv, DataInv, Here
  <2>2. DataOK(x)'
    BY <1>3, <2>1, DataKeeps
  <2>3. CASE x = o
    <3>1. IsFiniteSet(Watch(x)') /\ Cardinality(Watch(x)') = w
      BY <1>7, <1>11, <2>3
    <3>2. blockRefs'[x] = Cardinality(Watch(x)') + h
      BY <1>8, <1>9, <2>3, <3>1
    <3>3. /\ block'[x] # "none" /\ (block'[x] = "freed" => blockRefs'[x] = 0)
          /\ block'[x] = "made" => blockRefs'[x] > 0
      BY <1>9, <2>3
    <3>4. life'[x] # "none"
      BY <1>3, <1>5, <2>3 DEF BlockOK
    <3>5. h = IF Here(x)' THEN 1 ELSE 0
      BY <1>6, <2>1, <2>3
    <3>6. BlockOK(x)'
      BY <3>1, <3>2, <3>3, <3>4, <3>5 DEF BlockOK
    <3> QED BY <2>2, <3>6
  <2>4. CASE x # o
    <3>1. Watch(x)' = Watch(x)
      BY <1>2, <1>11, <2>4
    <3>2. BlockOK(x)'
      BY <1>3, <1>9, <2>1, <2>4, <3>1, BlockKeeps
    <3> QED BY <2>2, <3>2
  <2> QED BY <2>3, <2>4
<1>17. BlockInv' /\ DataInv'
  BY <1>16 DEF BlockInv, DataInv
<1> QED BY <1>12, <1>13, <1>14, <1>15, <1>17 DEF RefInv

-----------------------------------------------------------------------------
\* The invariant.

LEMMA InitRefInv == Init => RefInv
<1> USE ObjectsAssumption
<1>1. SUFFICES ASSUME Init PROVE RefInv
  OBVIOUS
<1>2. \A t \in Threads : slot[t] = <<None, None>> /\ todo[t] = << >> /\ weak[t] = None
  BY <1>1 DEF Init
<1>3. TypeInv
  <2>1. PICK s : s = <<None, None>>
    OBVIOUS
  <2>2. s \in Seq(MaybeObjects) /\ Len(s) = 2
    BY <2>1 DEF MaybeObjects
  <2>3. slot \in [Threads -> Seq(MaybeObjects)] /\ \A t \in Threads : Len(slot[t]) = 2
    BY <1>1, <2>1, <2>2 DEF Init
  <2>4. todo \in [Threads -> Seq(CallSet)]
    <3>1. << >> \in Seq(CallSet)
      OBVIOUS
    <3> QED BY <1>1, <3>1 DEF Init
  <2>5. /\ next \in [Objects -> MaybeObjects] /\ refs \in [Objects -> Nat]
        /\ life \in [Objects -> {"none", "alive", "dying", "dead"}]
        /\ weak \in [Threads -> MaybeObjects]
        /\ block \in [Objects -> {"none", "made", "freed"}]
        /\ blockRefs \in [Objects -> Nat]
        /\ sync \in [Objects -> Threads \cup {None}]
    BY <1>1 DEF Init, MaybeObjects
  <2>6. data \in [Objects -> BOOLEAN] /\ crashed \in BOOLEAN
    BY <1>1 DEF Init
  <2>7. mode \in {"exact", "derived"}
    BY <1>1 DEF Init
  <2> QED BY <2>3, <2>4, <2>5, <2>6, <2>7 DEF TypeInv
<1>4. ASSUME NEW o \in Objects PROVE CountOK(o) /\ EndOK(o) /\ BlockOK(o) /\ DataOK(o)
  <2>1. o # None /\ refs[o] = 0 /\ life[o] = "none" /\ block[o] = "none" /\ data[o] = FALSE
    BY <1>1 DEF Init
  <2>2. Hold(o) = {}
    <3>1. \A t \in Threads, i \in 1 .. 2 : slot[t][i] = None
      BY <1>2
    <3> QED BY <2>1, <3>1 DEF Hold
  <2>3. Links(o) = {} /\ Watch(o) = {}
    BY <1>1, <2>1 DEF Init, Links, Watch
  <2>4. \A ats : CallsOf(o, ats) = {}
    <3>1. \A t \in Threads : DOMAIN todo[t] = {}
      BY <1>2
    <3>2. \A ats, t, i : <<t, i>> \notin CallsOf(o, ats)
      BY <1>3, <3>1, CallsOfIs
    <3>3. \A ats : \A h \in CallsOf(o, ats) : \E t \in Threads, i \in Nat : h = <<t, i>>
      BY <1>3, CallsOfIs
    <3> QED BY <3>2, <3>3
  <2>5. Pend(o) = {} /\ Ends(o) = {} /\ Calls(o, "delete") = {}
    <3>1. Pend(o) = {} /\ Ends(o) = {}
      BY <2>4, NamedCalls
    <3> QED BY <3>1 DEF Ends
  <2>6. IsFiniteSet({}) /\ Cardinality({}) = 0
    BY FS_EmptySet
  <2>7. CountOK(o)
    BY <2>1, <2>2, <2>3, <2>5, <2>6 DEF CountOK, Counted
  <2>8. EndOK(o)
    BY <2>1, <2>5 DEF EndOK, Here
  <2>9. BlockOK(o)
    BY <2>1, <2>3, <2>6 DEF BlockOK
  <2>10. DataOK(o)
    BY <2>1 DEF DataOK
  <2> QED BY <2>7, <2>8, <2>9, <2>10
<1>5. StackInv
  BY <1>2 DEF StackInv
<1>6. LockInv
  BY <1>1 DEF Init, LockInv
<1> QED BY <1>3, <1>4, <1>5, <1>6 DEF RefInv, CountInv, EndInv, BlockInv, DataInv

LEMMA StepRefInv == RefInv /\ ~raced' /\ [Next]_vars => RefInv'
<1>1. SUFFICES ASSUME RefInv, ~raced', [Next]_vars PROVE RefInv'
  OBVIOUS
<1>2. CASE Next
  <2>1. PICK t \in Threads : ThreadNext(t)
    BY <1>2 DEF Next
  <2>2. CASE \E o \in Objects : New(t, o)
    BY <1>1, <2>2, NewPreserves
  <2>3. CASE Copy(t)
    BY <1>1, <2>3, CopyPreserves
  <2>4. CASE \E u \in Threads : Move(t, u)
    BY <1>1, <2>4, MovePreserves
  <2>5. CASE \E from \in {"copy", "member"} : Assign(t, from)
    BY <1>1, <2>5, AssignPreserves
  <2>6. CASE \E from \in {"copy", "member"} : AddRef(t, from)
    BY <1>1, <2>6, AddRefPreserves
  <2>7. CASE \E i \in 1 .. 2 : Drop(t, i)
    BY <1>1, <2>7, DropPreserves
  <2>8. CASE Link(t)
    BY <1>1, <2>8, LinkPreserves
  <2>9. CASE UnrefLock(t) \/ UnrefSub(t) \/ UnrefUnlock(t)
    BY <1>1, <2>9, UnrefLockPreserves, UnrefSubPreserves, UnrefUnlockPreserves
  <2>10. CASE Delete(t) \/ DestroyWeakable(t)
    BY <1>1, <2>10, DeletePreserves, DestroyPreserves
  <2>11. CASE GetWeak(t) \/ DropWeak(t) \/ WeakLock(t) \/ WeakTake(t) \/ WeakGrab(t)
    BY <1>1, <2>11, GetWeakPreserves, DropWeakPreserves, WeakLockPreserves, WeakTakePreserves,
       WeakGrabPreserves
  <2> QED BY <2>1, <2>2, <2>3, <2>4, <2>5, <2>6, <2>7, <2>8, <2>9, <2>10, <2>11 DEF ThreadNext
<1>3. CASE UNCHANGED vars
  <2>1. /\ mode' = mode /\ UNCHANGED <<slot, next, refs, life, weak, block, blockRefs, data, sync, todo>>
        /\ crashed' = crashed
    BY <1>3 DEF vars
  <2>2. crashed' \in BOOLEAN
    BY <1>1, <2>1 DEF RefInv, TypeInv
  <2> QED BY <1>1, <2>1, <2>2, CrashPreserves
<1> QED BY <1>1, <1>2, <1>3

\* Once lock() has met the drop of the last reference, nothing is claimed; under
\* the Unref that takes the lock, that never happens.
SafeInv == (raced \/ RefInv) /\ (mode = "exact" => ~raced)

\* Only two steps can bring it about, and neither of them under the lock.
LEMMA StepRaced ==
    ASSUME RefInv, ~raced, [Next]_vars
    PROVE  mode' = mode /\ (mode = "exact" => ~raced')
<1>1. CASE UNCHANGED vars
  BY <1>1 DEF vars
<1>2. CASE Next
  <2>1. PICK t \in Threads : ThreadNext(t)
    BY <1>2 DEF Next
  <2>2. CASE UnrefSub(t)
    <3>1. SUFFICES ASSUME mode = "exact", raced' PROVE FALSE
      BY <2>2 DEF UnrefSub
    <3>2. PICK at : at = "sub"
      OBVIOUS
    <3>3. PICK n \in Nat, o \in Objects : o = Top(t) /\ At(t, n, at, o)
      BY <2>2, <3>2, DoingIs DEF UnrefSub, RefInv
    <3>4. sync[o] = t /\ LockOK(t, o)
      <4>1. sync[o] = t
        BY <3>1, <3>2, <3>3, AtFacts
      <4> QED BY <3>3, <4>1 DEF RefInv, LockInv
    <3>5. Calls(o, "grab") # {}
      BY <2>2, <3>1, <3>3 DEF UnrefSub
    <3>6. PICK u \in Threads : \E j \in DOMAIN todo[u] : todo[u][j] = Call("grab", o)
      BY <3>5 DEF Calls
    <3>7. PICK j \in DOMAIN todo[u] : todo[u][j] = Call("grab", o)
      BY <3>6
    <3>8. sync[o] = u /\ j = Len(todo[u])
      <4>1. todo[u][j].at = "grab" /\ todo[u][j].o = o
        BY <3>7 DEF Call
      <4> QED BY <4>1 DEF RefInv, StackInv
    <3>9. todo[t][n + 1].at = "grab"
      BY <3>3, <3>4, <3>7, <3>8 DEF At, Call
    <3> QED BY <3>2, <3>3, <3>9 DEF At
  <2>3. CASE WeakTake(t)
    <3>1. SUFFICES ASSUME mode = "exact", raced' PROVE FALSE
      BY <2>3 DEF WeakTake
    <3>2. PICK at : at = "take"
      OBVIOUS
    <3>3. PICK n \in Nat, o \in Objects : o = Top(t) /\ At(t, n, at, o)
      BY <2>3, <3>2, DoingIs DEF WeakTake, RefInv
    <3>4. data[o] /\ refs[o] = 0
      BY <2>3, <3>1, <3>3 DEF WeakTake
    <3> QED BY <3>1, <3>4 DEF RefInv, DataInv, DataOK
  <2>4. CASE UnrefLock(t) \/ UnrefUnlock(t) \/ Delete(t) \/ DestroyWeakable(t)
    BY <2>4 DEF UnrefLock, UnrefUnlock, Delete, DestroyWeakable
  <2>5. CASE GetWeak(t) \/ DropWeak(t) \/ WeakLock(t) \/ WeakGrab(t)
    BY <2>5 DEF GetWeak, DropWeak, WeakLock, WeakGrab
  <2>6. CASE \E o \in Objects : New(t, o)
    BY <2>6 DEF New
  <2>7. CASE Copy(t)
    BY <2>7 DEF Copy
  <2>11. CASE \E u \in Threads : Move(t, u)
    <3>1. raced' = raced /\ mode' = mode
      BY <2>11 DEF Move
    <3> QED BY <3>1
  <2>8. CASE \E from \in {"copy", "member"} : Assign(t, from) \/ AddRef(t, from)
    BY <2>8 DEF Assign, AddRef
  <2>9. CASE \E i \in 1 .. 2 : Drop(t, i)
    BY <2>9 DEF Drop
  <2>10. CASE Link(t)
    <3>1. raced' = raced /\ mode' = mode
      BY <2>10 DEF Link
    <3> QED BY <3>1
  <2> QED BY <2>1, <2>2, <2>3, <2>4, <2>5, <2>6, <2>7, <2>8, <2>9, <2>10, <2>11 DEF ThreadNext
<1> QED BY <1>1, <1>2

\* What has happened stays so.
LEMMA RacedStays ==
    ASSUME raced, [Next]_vars
    PROVE  raced' /\ mode' = mode
<1>1. CASE UNCHANGED vars
  BY <1>1 DEF vars
<1>2. CASE Next
  <2>1. PICK t \in Threads : ThreadNext(t)
    BY <1>2 DEF Next
  <2>2. CASE UnrefLock(t) \/ UnrefSub(t) \/ UnrefUnlock(t) \/ Delete(t) \/ DestroyWeakable(t)
    BY <2>2 DEF UnrefLock, UnrefSub, UnrefUnlock, Delete, DestroyWeakable
  <2>3. CASE GetWeak(t) \/ DropWeak(t) \/ WeakLock(t) \/ WeakTake(t) \/ WeakGrab(t)
    BY <2>3 DEF GetWeak, DropWeak, WeakLock, WeakTake, WeakGrab
  <2>4. CASE \/ \E o \in Objects : New(t, o)
             \/ Copy(t) \/ Link(t)
             \/ \E u \in Threads : Move(t, u)
             \/ \E from \in {"copy", "member"} : Assign(t, from) \/ AddRef(t, from)
             \/ \E i \in 1 .. 2 : Drop(t, i)
    BY <2>4 DEF New, Copy, Link, Move, Assign, AddRef, Drop
  <2> QED BY <2>1, <2>2, <2>3, <2>4 DEF ThreadNext
<1> QED BY <1>1, <1>2

LEMMA SafeInvHolds == Spec => []SafeInv
<1>1. Init => SafeInv
  <2>1. Init => ~raced
    BY DEF Init
  <2> QED BY <2>1, InitRefInv DEF SafeInv
<1>2. SafeInv /\ [Next]_vars => SafeInv'
  <2>1. SUFFICES ASSUME SafeInv, [Next]_vars PROVE SafeInv'
    OBVIOUS
  <2>2. CASE raced
    BY <2>1, <2>2, RacedStays DEF SafeInv
  <2>3. CASE ~raced
    <3>1. RefInv
      BY <2>1, <2>3 DEF SafeInv
    <3>2. mode' = mode /\ (mode = "exact" => ~raced')
      BY <2>1, <2>3, <3>1, StepRaced
    <3>3. raced' \/ RefInv'
      BY <2>1, <3>1, StepRefInv
    <3> QED BY <3>2, <3>3 DEF SafeInv
  <2> QED BY <2>2, <2>3
<1> QED BY <1>1, <1>2, PTL DEF Spec

\* The count of an object is the number of handles to it and of Unref calls
\* that have not subtracted yet; an object without references is being deleted
\* by exactly one thread (rc.hpp, Strong and the two overloads of Unref).
THEOREM RefCountsHandles == Spec => []CountsHandles
<1>1. SafeInv => CountsHandles
  <2>1. SUFFICES ASSUME RefInv, NEW o \in Objects
                 PROVE  /\ refs[o] = Handles(o) + Cardinality(Calls(o, "lock") \cup Calls(o, "sub"))
                        /\ Cardinality(Calls(o, "delete") \cup Calls(o, "clear"))
                              = IF refs[o] = 0 /\ life[o] \in {"alive", "dying"} THEN 1 ELSE 0
    BY DEF CountsHandles, SafeInv
  <2>2. CountOK(o) /\ EndOK(o)
    BY <2>1 DEF RefInv, CountInv, EndInv
  <2>3. refs[o] = Handles(o) + Cardinality(Calls(o, "lock") \cup Calls(o, "sub"))
    BY <2>2 DEF CountOK, Counted, Handles, Hold, Links, Pend
  <2>4. CASE refs[o] = 0 /\ Here(o)
    <3>1. PICK d : Ends(o) = {d}
      BY <2>2, <2>4 DEF EndOK
    <3>2. Cardinality(Ends(o)) = 1
      BY <3>1, FS_Singleton
    <3> QED BY <2>3, <2>4, <3>2 DEF Ends, Here
  <2>5. CASE ~(refs[o] = 0 /\ Here(o))
    <3>1. Cardinality(Ends(o)) = 0
      BY <2>2, <2>5, FS_EmptySet DEF EndOK
    <3> QED BY <2>3, <2>5, <3>1 DEF Ends, Here
  <2> QED BY <2>4, <2>5
<1> QED BY <1>1, SafeInvHolds, PTL

\* Nothing that a handle, a call in progress, a Weak or a held lock still
\* reads has been freed (rc.hpp, Strong, Weak and WeakBlock).
THEOREM RefNoUseAfterFree == Spec => []NoUseAfterFree
<1>1. SafeInv => NoUseAfterFree
  <2>1. SUFFICES ASSUME RefInv PROVE NoUseAfterFree
    BY DEF SafeInv, NoUseAfterFree
  <2>2. TypeInv
    BY <2>1 DEF RefInv
  <2>3. \A t \in Threads, i \in 1 .. 2 : slot[t][i] # None => life[slot[t][i]] = "alive"
    BY <2>1, HeldFacts
  <2>4. ASSUME NEW o \in Objects
        PROVE  next[o] # None => life[next[o]] = "alive"
    <3>1. PICK p \in MaybeObjects : p = next[o]
      BY <2>2 DEF TypeInv
    <3>2. p # None => p \in Objects /\ o \in Links(p)
      BY <3>1 DEF Links, MaybeObjects
    <3>3. p # None => Hold(p) \cup Links(p) \cup Pend(p) # {}
      BY <3>2
    <3> QED BY <2>1, <3>1, <3>2, <3>3, Referred
  <2>5. ASSUME NEW o \in Objects, NEW at \in {"copy", "member", "lock", "sub", "delete", "grab"}, Calls(o, at) # {}
        PROVE  life[o] = "alive"
    <3>1. CASE at \in {"copy", "member"}
      <4>1. PICK u \in Threads : \E j \in DOMAIN todo[u] : todo[u][j] = Call(at, o)
        BY <2>5 DEF Calls
      <4>2. PICK j \in DOMAIN todo[u] : todo[u][j] = Call(at, o)
        BY <4>1
      <4>3. todo[u][j].at = at /\ todo[u][j].o = o
        BY <4>2 DEF Call
      <4>4. PICK i \in 1 .. 2 : i = 1
        OBVIOUS
      <4>5. slot[u][i] = o /\ o # None
        BY <2>1, <3>1, <4>3, <4>4, ObjectsAssumption DEF RefInv, StackInv
      <4> QED BY <2>3, <4>5
    <3>2. CASE at \in {"lock", "sub"}
      <4>1. Hold(o) \cup Links(o) \cup Pend(o) # {}
        BY <2>5, <3>2 DEF Pend
      <4> QED BY <2>1, <4>1, Referred
    <3>3. CASE at = "delete"
      BY <2>1, <2>5, <3>3 DEF RefInv, EndInv, EndOK
    <3>4. CASE at = "grab"
      <4>1. PICK u \in Threads : \E j \in DOMAIN todo[u] : todo[u][j] = Call(at, o)
        BY <2>5 DEF Calls
      <4>2. PICK j \in DOMAIN todo[u] : todo[u][j] = Call(at, o)
        BY <4>1
      <4>3. todo[u][j].at = at /\ todo[u][j].o = o
        BY <4>2 DEF Call
      <4>4. sync[o] = u /\ j = Len(todo[u])
        BY <2>1, <3>4, <4>3 DEF RefInv, StackInv
      <4>5. LockOK(u, o) /\ Grabs(u)
        BY <2>1, <3>4, <4>3, <4>4 DEF RefInv, LockInv, LockOK, Grabs
      <4>6. refs[o] > 0
        BY <4>5 DEF LockOK
      <4> QED BY <2>1, <4>6 DEF RefInv, EndInv, EndOK
    <3> QED BY <3>1, <3>2, <3>3, <3>4
  <2>6. ASSUME NEW o \in Objects, sync[o] # None \/ \E t \in Threads : weak[t] = o
        PROVE  block[o] = "made"
    <3>1. BlockOK(o) /\ EndOK(o) /\ refs[o] \in Nat
      BY <2>1, <2>2 DEF RefInv, BlockInv, EndInv, TypeInv
    <3>2. PICK w \in Nat : w = Cardinality(Watch(o)) /\ IsFiniteSet(Watch(o))
                           /\ (Watch(o) # {} => w > 0)
      <4>1. IsFiniteSet(Watch(o))
        BY <3>1 DEF BlockOK
      <4>2. Cardinality(Watch(o)) \in Nat /\ (Cardinality(Watch(o)) = 0 <=> Watch(o) = {})
        BY <4>1, FS_CardinalityType, FS_EmptySet
      <4> QED BY <4>1, <4>2
    <3>3. block[o] # "none" /\ (Watch(o) # {} \/ Here(o))
      <4>1. CASE \E t \in Threads : weak[t] = o
        <5>1. Watch(o) # {}
          BY <4>1 DEF Watch
        <5> QED BY <3>1, <5>1 DEF BlockOK
      <4>2. CASE sync[o] # None
        <5>1. PICK t \in Threads : LockOK(t, o)
          BY <2>1, <2>2, <4>2 DEF RefInv, TypeInv, LockInv
        <5>2. block[o] # "none" /\ Pinned(t, o)
          BY <5>1 DEF LockOK
        <5>3. CASE weak[t] = o
          BY <5>2, <5>3 DEF Watch
        <5>4. CASE refs[o] > 0
          BY <3>1, <5>2, <5>4 DEF EndOK, Here
        <5>5. CASE \E i \in DOMAIN todo[t] : todo[t][i] = Call("delete", o)
          <6>1. PICK i \in DOMAIN todo[t] : todo[t][i] = Call("delete", o)
            BY <5>5
          <6>2. \A h, at : h \in Calls(o, at) <=>
                    \E u \in Threads : \E j \in DOMAIN todo[u] : h = <<u, j>> /\ todo[u][j] = Call(at, o)
            BY DEF Calls
          <6>3. PICK h : h = <<t, i>>
            OBVIOUS
          <6>4. h \in Calls(o, "delete")
            BY <6>1, <6>2, <6>3
          <6>5. life[o] = "alive"
            BY <3>1, <6>4 DEF EndOK
          <6> QED BY <5>2, <6>5 DEF Here
        <5> QED BY <5>2, <5>3, <5>4, <5>5 DEF Pinned
      <4> QED BY <2>6, <4>1, <4>2
    <3>4. blockRefs[o] > 0
      <4>1. blockRefs[o] = w + IF Here(o) THEN 1 ELSE 0
        BY <3>1, <3>2, <3>3 DEF BlockOK
      <4> QED BY <3>2, <3>3, <4>1
    <3>5. block[o] # "freed"
      BY <3>1, <3>4 DEF BlockOK
    <3> QED BY <2>2, <3>3, <3>5 DEF TypeInv
  <2> QED BY <2>3, <2>4, <2>5, <2>6 DEF NoUseAfterFree
<1> QED BY <1>1, SafeInvHolds, PTL

\* The Unref that takes the block's lock keeps every lock() off the drop of the
\* last reference, so where it is the one that is called the theorems above and
\* below hold without exception (rc.hpp, Unref(WeakableVirtual*) and Weak::lock).
THEOREM RefLockNeverRaces == Spec => []LockNeverRaces
<1>1. SafeInv => LockNeverRaces
  BY DEF SafeInv, LockNeverRaces
<1> QED BY <1>1, SafeInvHolds, PTL

\* A block that still points to its object has an object that is not gone, and
\* one with a handle whenever Weak::lock may look (rc.hpp, Weak and GetWeak).
THEOREM RefWeakSeesLife == Spec => []WeakSeesLife
<1>1. SafeInv => WeakSeesLife
  BY DEF SafeInv, RefInv, DataInv, DataOK, Here, WeakSeesLife
<1> QED BY <1>1, SafeInvHolds, PTL

=============================================================================

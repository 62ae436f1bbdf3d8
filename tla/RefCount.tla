---------------------------- MODULE RefCount ----------------------------
(* Intrusive reference counting (include/rc/rc.hpp): Strong<T>, Weak<T>, the    *)
(* weak block with its spin lock, and the two overloads of Unref.               *)
(*                                                                              *)
(* A thread has two Strong variables and a Weak one; an object has a Strong     *)
(* member `next`.  Every atomic operation on a count, a lock or a block's data  *)
(* is one step.  `mode` tells the static type of all handles: Strong of         *)
(* WeakableVirtual itself picks the Unref that takes the block's lock, Strong   *)
(* of a class derived from it picks the template of DefaultBase, which does     *)
(* not (every handle of the library is of this kind).  Weak::lock is there in   *)
(* both modes.  What it reads and counts is not kept together by the second     *)
(* overload: `raced` records that a lock() met the end of its object.           *)
(* All handles have one static type, so the offset in a Weak is zero.           *)
EXTENDS Naturals, Sequences, FiniteSets, SequencesExt

CONSTANTS Threads, Objects, None

ASSUME ObjectsAssumption == IsFiniteSet(Objects) /\ None \notin Objects \cup Threads

VARIABLES
    mode,       \* "exact" or "derived": the static type of the handles
    slot,       \* slot[t][i]: the object the i-th Strong of thread t points to
    next,       \* the Strong member of an object
    refs,       \* DefaultBase::_refs of an object
    life,       \* "none", "alive", "dying" (delete has begun) or "dead"
    weak,       \* the object whose block the Weak of a thread points to
    block,      \* the block of an object: "none", "made" or "freed"
    blockRefs,  \* _refs of the block
    data,       \* whether WeakBlock::data still points to the object
    sync,       \* the thread that holds WeakBlock::_sync, or None
    todo,       \* the calls a thread is inside of, the innermost last
    crashed,    \* a null pointer or an object on its way out was used: undefined from here
    raced       \* history: lock() has met the drop of the last reference

vars == <<mode, slot, next, refs, life, weak, block, blockRefs, data, sync, todo, crashed, raced>>
countVars == <<refs, life, next>>
weakVars == <<weak, block, blockRefs, data, sync>>

Init ==
    /\ mode \in {"exact", "derived"}
    /\ slot = [t \in Threads |-> <<None, None>>]
    /\ next = [o \in Objects |-> None]
    /\ refs = [o \in Objects |-> 0]
    /\ life = [o \in Objects |-> "none"]
    /\ weak = [t \in Threads |-> None]
    /\ block = [o \in Objects |-> "none"]
    /\ blockRefs = [o \in Objects |-> 0]
    /\ data = [o \in Objects |-> FALSE]
    /\ sync = [o \in Objects |-> None]
    /\ todo = [t \in Threads |-> << >>]
    /\ crashed = FALSE
    /\ raced = FALSE

Call(at, o) == [at |-> at, o |-> o]
Free(t) == todo[t] = << >> /\ ~crashed
Doing(t, at) == ~crashed /\ todo[t] # << >> /\ Last(todo[t]).at = at
Top(t) == Last(todo[t]).o
Become(t, calls) == todo' = [todo EXCEPT ![t] = Front(@) \o calls]

\* Where the threads are inside of the call `at` on o.
Calls(o, at) ==
    UNION {{<<t, i>> : i \in {j \in DOMAIN todo[t] : todo[t][j] = Call(at, o)}} : t \in Threads}

(* What `if (data) Unref(data)` calls: the overload that fits the type.         *)
Unref(o) == IF o = None THEN << >> ELSE <<Call(IF mode = "exact" THEN "lock" ELSE "sub", o)>>

-----------------------------------------------------------------------------
(* Strong.                                                                      *)

\* Strong(T*) on a new object.
New(t, o) ==
    /\ Free(t) /\ life[o] = "none" /\ slot[t][1] = None
    /\ slot' = [slot EXCEPT ![t][1] = o]
    /\ refs' = [refs EXCEPT ![o] = 1]
    /\ life' = [life EXCEPT ![o] = "alive"]
    /\ UNCHANGED <<mode, next, weakVars, todo, crashed, raced>>

\* Strong(Strong const&): AddRef of what the other points to.
Copy(t) ==
    /\ Free(t) /\ slot[t][1] # None /\ slot[t][2] = None
    /\ slot' = [slot EXCEPT ![t][2] = slot[t][1]]
    /\ refs' = [refs EXCEPT ![slot[t][1]] = @ + 1]
    /\ UNCHANGED <<mode, next, life, weakVars, todo, crashed, raced>>

\* Seeded fault: the move assignment forgets what the target pointed to.
MoveOverwrites(t, u) ==
    /\ Free(t) /\ Free(u) /\ slot[t][1] # None
    /\ slot' = [slot EXCEPT ![t][1] = None, ![u][2] = slot[t][1]]
    /\ UNCHANGED <<mode, countVars, weakVars, todo, crashed, raced>>

\* operator=(Strong&&) swaps: also how a handle gets to another thread.
Move(t, u) ==
    /\ Free(t) /\ Free(u) /\ slot[t][1] # None
    /\ slot' = IF t = u THEN [slot EXCEPT ![t] = Reverse(@)]
               ELSE [slot EXCEPT ![t][1] = slot[u][2], ![u][2] = slot[t][1]]
    /\ UNCHANGED <<mode, countVars, weakVars, todo, crashed, raced>>

\* operator=(Strong const&) on the second variable: Unref of the old object,
\* then AddRef of the object that `from` points to at that moment.
Assign(t, from) ==
    /\ Free(t) /\ slot[t][1] # None
    /\ slot' = [slot EXCEPT ![t][2] = None]
    /\ todo' = [todo EXCEPT ![t] = <<Call(from, slot[t][1])>> \o Unref(slot[t][2])]
    /\ UNCHANGED <<mode, countVars, weakVars, crashed, raced>>

\* The object a copy assignment reads: the first variable or a member of its object.
Assigned(at, o) == IF at = "copy" THEN o ELSE next[o]

AddRef(t, at) ==
    /\ Doing(t, at)
    /\ LET from == Assigned(at, Top(t)) IN
       /\ slot' = [slot EXCEPT ![t][2] = from]
       /\ refs' = IF from = None THEN refs ELSE [refs EXCEPT ![from] = @ + 1]
    /\ Become(t, << >>)
    /\ UNCHANGED <<mode, next, life, weakVars, crashed, raced>>

\* ~Strong.
Drop(t, i) ==
    /\ Free(t) /\ slot[t][i] # None
    /\ slot' = [slot EXCEPT ![t][i] = None]
    /\ todo' = [todo EXCEPT ![t] = Unref(slot[t][i])]
    /\ UNCHANGED <<mode, countVars, weakVars, crashed, raced>>

\* The user links its second object behind its first, which only it refers to
\* (members are not synchronised; a cycle would leak).
Link(t) ==
    LET o == slot[t][1]
        p == slot[t][2]
    IN /\ Free(t) /\ o # None /\ p \notin {None, o}
       /\ refs[o] = 1 /\ next[o] = None /\ next[p] = None
       /\ next' = [next EXCEPT ![o] = p]
       /\ slot' = [slot EXCEPT ![t][2] = None]
       /\ UNCHANGED <<mode, refs, life, weakVars, todo, crashed, raced>>

-----------------------------------------------------------------------------
(* The two overloads of Unref, and delete.                                      *)

\* Unref(WeakableVirtual*) spins on the lock of a block that may not exist.
UnrefLock(t) ==
    /\ Doing(t, "lock")
    /\ IF block[Top(t)] = "none"
       THEN crashed' = TRUE /\ UNCHANGED <<sync, todo>>
       ELSE /\ sync[Top(t)] = None
            /\ sync' = [sync EXCEPT ![Top(t)] = t]
            /\ Become(t, <<Call("sub", Top(t))>>)
            /\ UNCHANGED crashed
    /\ UNCHANGED <<mode, slot, countVars, weak, block, blockRefs, data, raced>>

\* Seeded fault: only the destructor clears the block.
UnrefSubKeeps(t) ==
    LET o == Top(t) IN
    /\ Doing(t, "sub")
    /\ refs' = [refs EXCEPT ![o] = @ - 1]
    /\ Become(t, CASE refs[o] = 1 /\ mode = "exact" -> <<Call("delete", o), Call("unlock", o)>>
                   [] refs[o] = 1 /\ mode # "exact" -> <<Call("delete", o)>>
                   [] refs[o] # 1 /\ mode = "exact" -> <<Call("unlock", o)>>
                   [] OTHER -> << >>)
    /\ raced' = (raced \/ (refs[o] = 1 /\ Calls(o, "grab") # {}))
    /\ UNCHANGED <<mode, slot, next, life, weakVars, crashed>>

\* fetch_sub, and what follows for the last reference: the exact overload
\* clears the block under its lock.
UnrefSub(t) ==
    LET o == Top(t)
        last == refs[o] = 1
    IN /\ Doing(t, "sub")
       /\ refs' = [refs EXCEPT ![o] = @ - 1]
       /\ data' = IF last /\ mode = "exact" THEN [data EXCEPT ![o] = FALSE] ELSE data
       /\ Become(t, (IF last THEN <<Call("delete", o)>> ELSE << >>)
                    \o (IF mode = "exact" THEN <<Call("unlock", o)>> ELSE << >>))
       /\ raced' = (raced \/ (last /\ Calls(o, "grab") # {}))
       /\ UNCHANGED <<mode, slot, next, life, weak, block, blockRefs, sync, crashed>>

UnrefUnlock(t) ==
    /\ Doing(t, "unlock")
    /\ sync' = [sync EXCEPT ![Top(t)] = None]
    /\ Become(t, << >>)
    /\ UNCHANGED <<mode, slot, countVars, weak, block, blockRefs, data, crashed, raced>>

\* The members of the derived class go first ...
Delete(t) ==
    LET o == Top(t) IN
    /\ Doing(t, "delete")
    /\ life' = [life EXCEPT ![o] = "dying"]
    /\ next' = [next EXCEPT ![o] = None]
    /\ Become(t, <<Call("clear", o)>> \o Unref(next[o]))
    /\ UNCHANGED <<mode, slot, refs, weakVars, crashed, raced>>

ReleaseBlock(o) ==
    /\ blockRefs' = [blockRefs EXCEPT ![o] = @ - 1]
    /\ block' = IF blockRefs[o] = 1 THEN [block EXCEPT ![o] = "freed"] ELSE block

\* ... then ~WeakableVirtual clears the block and gives up its reference to it.
DestroyWeakable(t) ==
    LET o == Top(t) IN
    /\ Doing(t, "clear")
    /\ life' = [life EXCEPT ![o] = "dead"]
    /\ data' = [data EXCEPT ![o] = FALSE]
    /\ IF block[o] = "none" THEN UNCHANGED <<block, blockRefs>> ELSE ReleaseBlock(o)
    /\ Become(t, << >>)
    /\ UNCHANGED <<mode, slot, next, refs, weak, sync, crashed, raced>>

-----------------------------------------------------------------------------
(* Weak.                                                                        *)

\* Seeded fault: the weak handle does not count itself on a block that is there.
GetWeakUncounted(t) ==
    LET o == slot[t][1]
        fresh == block[o] = "none"
    IN /\ Free(t) /\ o # None /\ weak[t] = None
       /\ weak' = [weak EXCEPT ![t] = o]
       /\ block' = [block EXCEPT ![o] = "made"]
       /\ data' = IF fresh THEN [data EXCEPT ![o] = TRUE] ELSE data
       /\ blockRefs' = [blockRefs EXCEPT ![o] = IF fresh THEN 2 ELSE @]
       /\ UNCHANGED <<mode, slot, countVars, sync, todo, crashed, raced>>

\* Weak(Strong const&): GetWeak makes the block under the object's lock if
\* there is none, and the Weak refers to it.
GetWeak(t) ==
    LET o == slot[t][1]
        fresh == block[o] = "none"
    IN /\ Free(t) /\ o # None /\ weak[t] = None
       /\ weak' = [weak EXCEPT ![t] = o]
       /\ block' = [block EXCEPT ![o] = "made"]
       /\ data' = IF fresh THEN [data EXCEPT ![o] = TRUE] ELSE data
       /\ blockRefs' = [blockRefs EXCEPT ![o] = IF fresh THEN 2 ELSE @ + 1]
       /\ UNCHANGED <<mode, slot, countVars, sync, todo, crashed, raced>>

DropWeak(t) ==
    /\ Free(t) /\ weak[t] # None
    /\ weak' = [weak EXCEPT ![t] = None]
    /\ ReleaseBlock(weak[t])
    /\ UNCHANGED <<mode, slot, countVars, data, sync, todo, crashed, raced>>

\* Seeded fault: lock() does not wait for the lock.
WeakLockAtOnce(t) ==
    /\ Free(t) /\ weak[t] # None /\ slot[t][2] = None
    /\ sync' = [sync EXCEPT ![weak[t]] = t]
    /\ todo' = [todo EXCEPT ![t] = <<Call("take", weak[t])>>]
    /\ UNCHANGED <<mode, slot, countVars, weak, block, blockRefs, data, crashed, raced>>

\* Weak::lock takes the block's lock ...
WeakLock(t) ==
    /\ Free(t) /\ weak[t] # None /\ slot[t][2] = None
    /\ sync[weak[t]] = None
    /\ sync' = [sync EXCEPT ![weak[t]] = t]
    /\ todo' = [todo EXCEPT ![t] = <<Call("take", weak[t])>>]
    /\ UNCHANGED <<mode, slot, countVars, weak, block, blockRefs, data, crashed, raced>>

\* ... reads data, which may point to an object that nobody refers to any more ...
WeakTake(t) ==
    LET o == Top(t) IN
    /\ Doing(t, "take")
    /\ Become(t, <<Call(IF data[o] THEN "grab" ELSE "unlock", o)>>)
    /\ raced' = (raced \/ (data[o] /\ refs[o] = 0))
    /\ UNCHANGED <<mode, slot, countVars, weakVars, crashed>>

\* ... and adds a reference, to an object that may be gone by now; then it unlocks.
WeakGrab(t) ==
    LET o == Top(t) IN
    /\ Doing(t, "grab")
    /\ slot' = [slot EXCEPT ![t][2] = o]
    /\ refs' = [refs EXCEPT ![o] = @ + 1]
    /\ crashed' = (refs[o] = 0)
    /\ Become(t, <<Call("unlock", o)>>)
    /\ UNCHANGED <<mode, next, life, weakVars, raced>>

-----------------------------------------------------------------------------
ThreadNext(t) ==
    \/ \E o \in Objects : New(t, o)
    \/ Copy(t)
    \/ \E u \in Threads : Move(t, u)
    \/ \E from \in {"copy", "member"} : Assign(t, from) \/ AddRef(t, from)
    \/ \E i \in 1 .. 2 : Drop(t, i)
    \/ Link(t)
    \/ UnrefLock(t) \/ UnrefSub(t) \/ UnrefUnlock(t)
    \/ Delete(t) \/ DestroyWeakable(t)
    \/ GetWeak(t) \/ DropWeak(t) \/ WeakLock(t) \/ WeakTake(t) \/ WeakGrab(t)

Next == \E t \in Threads : ThreadNext(t)

Spec == Init /\ [][Next]_vars
-----------------------------------------------------------------------------
Handles(o) ==
    Cardinality({h \in Threads \X (1 .. 2) : slot[h[1]][h[2]] = o})
    + Cardinality({p \in Objects : next[p] = o})

(* The count of an object is the number of handles to it and of Unref calls     *)
(* that have not yet subtracted; an object whose count is zero has been deleted *)
(* or somebody is about to, exactly once (no leak, no double delete), unless    *)
(* lock() has met the drop of the last reference.                               *)
CountsHandles ==
    \/ raced
    \/ \A o \in Objects :
        /\ refs[o] = Handles(o) + Cardinality(Calls(o, "lock") \cup Calls(o, "sub"))
        /\ Cardinality(Calls(o, "delete") \cup Calls(o, "clear"))
              = IF refs[o] = 0 /\ life[o] \in {"alive", "dying"} THEN 1 ELSE 0

(* Nothing that is still to be read is freed: a handle, the source of a copy    *)
(* assignment, an Unref and a lock() in progress find their object, whoever     *)
(* holds or wants a block's lock finds the block, and so does every Weak.  The  *)
(* one way in which the code can break this is a lock() that met the drop of    *)
(* the last reference.                                                          *)
NoUseAfterFree ==
    \/ raced
    \/ /\ \A t \in Threads, i \in 1 .. 2 : slot[t][i] # None => life[slot[t][i]] = "alive"
       /\ \A o \in Objects :
           /\ next[o] # None => life[next[o]] = "alive"
           /\ \A at \in {"copy", "member", "lock", "sub", "delete", "grab"} :
                 Calls(o, at) # {} => life[o] = "alive"
           /\ (sync[o] # None \/ \E t \in Threads : weak[t] = o) => block[o] = "made"

(* What the Unref of WeakableVirtual has its lock for: where it is the one that *)
(* is called, no lock() ever meets the drop of the last reference.              *)
LockNeverRaces == mode = "exact" => ~raced

(* What Weak::peek and Weak::lock read: a block that still points to its object *)
(* has an object that is not gone; and under the Unref that takes the lock, one *)
(* that has a handle, whenever lock() may look.                                 *)
WeakSeesLife ==
    \/ raced
    \/ \A o \in Objects : data[o] =>
        /\ life[o] \in {"alive", "dying"}
        /\ mode = "exact" /\ sync[o] = None => refs[o] > 0
=============================================================================

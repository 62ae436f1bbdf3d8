----------------------------- MODULE JsonDoc -----------------------------
(* Documents of json_view: the immutable JsonView (json_view.hpp, algo.hpp,     *)
(* algo.cpp) and the mutable BasicMutJson (json.hpp).                           *)
(*                                                                              *)
(* A node is a pair of its type and its payload.  Strings, keys and binaries    *)
(* are sequences of bytes; integers and doubles are their 64 bits as 8 bytes,   *)
(* most significant first; an array is a sequence of nodes, an object a         *)
(* sequence of <<key, node>> as in JsonObjects.  An operation that throws       *)
(* yields Thrown.                                                               *)
EXTENDS JsonObjects, Integers, FiniteSetsExt, TLC

\* data.hpp: the types, and Data as the pair.
Type == {"null", "binary", "boolean", "number", "string", "signed", "unsigned", "array",
         "object", "discarded", "custom"}
Null == <<"null", << >> >>
Thrown == <<"thrown", << >> >>
Small(n) == <<0, 0, 0, 0, 0, 0, 0, n>>
Str(s) == <<"string", s>>
Arr(s) == <<"array", s>>
Obj(s) == <<"object", s>>

Is(j, t) == j[1] = t
IsContainer(j) == j[1] \in {"array", "object"}

\* The nodes inside of a container, in order, and the container rebuilt from
\* what an operation makes of them: the first exception is the result.
Kids(j) == IF Is(j, "array") THEN j[2] ELSE [i \in DOMAIN j[2] |-> Val(j[2][i])]
MapKids(Op(_), j) ==
    LET kids == [i \in DOMAIN j[2] |-> Op(Kids(j)[i])] IN
    IF ~IsContainer(j) THEN j
    ELSE IF \E i \in DOMAIN kids : kids[i] = Thrown THEN Thrown
    ELSE IF Is(j, "array") THEN Arr(kids)
    ELSE Obj([i \in DOMAIN kids |-> <<Key(j[2][i]), kids[i]>>])

-----------------------------------------------------------------------------
(* Objects: construction and lookup.                                           *)

\* JsonView(JsonPair*, size): std::sort is not stable, so std::unique may keep
\* any of the values given for a key.
SortUnique(pairs) ==
    LET keys == {Key(pairs[i]) : i \in DOMAIN pairs}
        order == SortSeq(SetToSeq(keys), KeyLess)
        kept == {f \in [keys -> Range(pairs)] : \A k \in keys : Key(f[k]) = k}
    IN {Obj([i \in DOMAIN order |-> f[order[i]]]) : f \in kept}

\* A part of a JsonPointer: JsonKey is a string or an index.
KeyPart(k) == <<"key", k>>
IndexPart(i) == <<"index", i>>

\* JsonView::Find and FindVal of one part: the node, none, or a type mismatch.
None == <<"none", << >> >>
FindPart(j, part) ==
    CASE part[1] = "key" /\ Is(j, "object") ->
           LET at == SortedFind(j[2], part[2]) IN
           IF at = 0 THEN None ELSE Val(j[2][at])
      [] part[1] = "index" /\ Is(j, "array") ->
           IF Len(j[2]) <= part[2] THEN None ELSE j[2][part[2] + 1]
      [] OTHER -> Thrown

\* JsonView::Find(JsonPointer): stops where a part finds nothing.
Find(j, ptr) ==
    FoldLeft(LAMBDA n, part : IF n \in {None, Thrown} THEN n ELSE FindPart(n, part), j, ptr)

-----------------------------------------------------------------------------
(* Copies and comparison, with the depth that is left.                          *)

RECURSIVE DoCopy(_, _)
DoCopy(j, depth) ==
    IF depth = 0 THEN Thrown ELSE MapKids(LAMBDA n : DoCopy(n, depth - 1), j)

Negative(bits) == bits[1] >= 128
Double(n) == <<<<0, 0, 0, 0, 0, 0, 0, 0>>, <<63, 240, 0, 0, 0, 0, 0, 0>>, <<64, 0, 0, 0, 0, 0, 0, 0>>>>[n + 1]
NaN == <<127, 248, 0, 0, 0, 0, 0, 0>>
Infinities == {<<127, 240, 0, 0, 0, 0, 0, 0>>, <<255, 240, 0, 0, 0, 0, 0, 0>>}

\* A double and an integer are equal within the margin: for the doubles that
\* are used here, when they are the same small number.
SameNumber(double, bits) == \E n \in 0 .. 2 : double = Double(n) /\ bits = Small(n)

\* DeepEqual: "yes", "no", or "thrown" when it gets too deep before it differs.
RECURSIVE DeepEqual(_, _, _)
DeepEqual(l, r, depth) ==
    LET ints == {"signed", "unsigned"}
        Truth(b) == IF b THEN "yes" ELSE "no"
        \* the first child that is not equal decides
        Children ==
            LET both == [i \in DOMAIN l[2] |->
                           IF Is(l, "object") /\ Key(l[2][i]) # Key(r[2][i]) THEN "no"
                           ELSE DeepEqual(Kids(l)[i], Kids(r)[i], depth - 1)]
                bad == {i \in DOMAIN both : both[i] # "yes"}
            IN IF bad = {} THEN "yes" ELSE both[CHOOSE i \in bad : \A k \in bad : i <= k]
        numbers == ints \cup {"number"}
    IN IF depth = 0 THEN "thrown"
       ELSE IF {l[1], r[1]} \subseteq ints
            THEN Truth(l[2] = r[2] /\ (l[1] # r[1] => ~Negative(l[2])))
       ELSE IF l[1] # r[1]
            THEN Truth({l[1], r[1]} \subseteq numbers
                       /\ IF Is(l, "number") THEN SameNumber(l[2], r[2]) ELSE SameNumber(r[2], l[2]))
       ELSE IF Is(l, "number") THEN Truth(l[2] = r[2] \/ {l[2], r[2]} \subseteq Infinities)
       ELSE IF IsContainer(l) THEN IF Len(l[2]) # Len(r[2]) THEN "no" ELSE Children
       ELSE Truth(l[1] \in {"boolean", "string", "binary"} => l[2] = r[2])

-----------------------------------------------------------------------------
(* BasicMutJson.                                                                *)

\* BasicMutJson(JsonView, depth): copy; what is neither data nor container
\* becomes null, and emplace_hint keeps the first of two equal keys.
EmplaceNew(pairs, e) ==
    IF \E i \in DOMAIN pairs : Key(pairs[i]) = Key(e) THEN pairs ELSE SortedInsert(pairs, e)

RECURSIVE FromView(_, _)
FromView(j, depth) ==
    IF depth = 0 THEN Thrown
    ELSE IF j[1] \in {"discarded", "custom"} THEN Null
    ELSE LET copy == MapKids(LAMBDA n : FromView(n, depth - 1), j) IN
         IF Is(copy, "object") THEN Obj(FoldLeft(EmplaceNew, << >>, copy[2])) ELSE copy

\* BasicMutJson::View(alloc, depth).
RECURSIVE View(_, _)
View(m, depth) ==
    IF depth = 0 THEN Thrown ELSE MapKids(LAMBDA n : View(n, depth - 1), m)

Entry(m, key) == CHOOSE i \in DOMAIN m[2] : Key(m[2][i]) = key
HasKey(m, key) == \E i \in DOMAIN m[2] : Key(m[2][i]) = key

\* What a change of a mutable document leaves behind: the document, also when
\* an exception ended the change half way.
Done(m) == [doc |-> m, ok |-> TRUE]
Failed(m) == [doc |-> m, ok |-> FALSE]
Put(m, key, r) == [doc |-> Obj(SortedInsert(m[2], <<key, r.doc>>)), ok |-> r.ok]
Erase(m, key) == Obj(EraseKey(m[2], key))

\* Assign(ptr) = value: nulls on the way become containers, arrays grow, and a
\* node of the wrong type throws after whatever was created before it.
RECURSIVE Assign(_, _, _)
Assign(m, ptr, value) ==
    LET part == Head(ptr)
        Inside(n) == Assign(n, Tail(ptr), value)
    IN IF ptr = << >> THEN Done(value)
       ELSE IF part[1] = "key"
       THEN LET obj == IF Is(m, "null") THEN Obj(<< >>) ELSE m
                full == IF HasKey(obj, part[2]) THEN obj
                        ELSE Obj(SortedInsert(obj[2], <<part[2], Null>>))
                at == Entry(full, part[2])
                r == Inside(Val(full[2][at]))
            IN IF ~Is(obj, "object") THEN Failed(m)
               ELSE [doc |-> Obj([full[2] EXCEPT ![at] = <<part[2], r.doc>>]), ok |-> r.ok]
       ELSE LET arr == IF Is(m, "null") THEN Arr(<< >>) ELSE m
                full == Arr(arr[2] \o [i \in 1 .. part[2] + 1 - Len(arr[2]) |-> Null])
                r == Inside(full[2][part[2] + 1])
            IN IF ~Is(arr, "array") THEN Failed(m)
               ELSE [doc |-> Arr([full[2] EXCEPT ![part[2] + 1] = r.doc]), ok |-> r.ok]

\* Seeded fault: a key that is new to the target is copied from the patch with
\* the nulls it has inside.
RECURSIVE MergePatchShallow(_, _, _)
MergePatchShallow(target, patch, depth) ==
    LET copy == FromView(patch, depth - 1)
        Apply(r, pair) ==
            LET m == r.doc
                new == FromView(Val(pair), depth - 1)
                sub(n) == MergePatchShallow(n, Val(pair), depth - 1)
            IN IF ~r.ok THEN r
               ELSE IF Is(Val(pair), "null") THEN Done(Erase(m, Key(pair)))
               ELSE IF HasKey(m, Key(pair))
                    THEN Put(m, Key(pair), sub(Val(m[2][Entry(m, Key(pair))])))
               ELSE IF new = Thrown THEN Failed(m) ELSE Put(m, Key(pair), Done(new))
    IN IF depth = 0 THEN Failed(target)
       ELSE IF Is(patch, "object")
            THEN FoldLeft(Apply, Done(IF Is(target, "object") THEN target ELSE Obj(<< >>)), patch[2])
       ELSE IF copy = Thrown THEN Failed(target) ELSE Done(copy)

\* MergePatch: entry by entry; what a DepthError interrupts stays half done.
RECURSIVE MergePatch(_, _, _)
MergePatch(target, patch, depth) ==
    LET copy == FromView(patch, depth - 1)
        Apply(r, pair) ==
            LET m == r.doc
                new == FromView(Val(pair), depth - 1)
                sub(n) == MergePatch(n, Val(pair), depth - 1)
            IN IF ~r.ok THEN r
               ELSE IF Is(Val(pair), "null") THEN Done(Erase(m, Key(pair)))
               ELSE IF HasKey(m, Key(pair))
                    THEN Put(m, Key(pair), sub(Val(m[2][Entry(m, Key(pair))])))
               ELSE IF new = Thrown THEN Failed(m) ELSE Put(m, Key(pair), sub(new))
    IN IF depth = 0 THEN Failed(target)
       ELSE IF Is(patch, "object")
            THEN FoldLeft(Apply, Done(IF Is(target, "object") THEN target ELSE Obj(<< >>)), patch[2])
       ELSE IF copy = Thrown THEN Failed(target) ELSE Done(copy)
=============================================================================

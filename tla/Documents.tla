----------------------------- MODULE Documents -----------------------------
(* The life of a document, in four kinds of behaviour: a MutableJson that is    *)
(* edited ("store"), a document that is dumped, carried by memory buffers and   *)
(* parsed again ("pipe"), a C++ value that is converted ("convert"), and the    *)
(* arenas that documents live in ("arena").  A dump that throws (DepthError) is  *)
(* "failed": nobody parses what it left in the buffer.                          *)
EXTENDS JsonPointers, JsonText, JsonConvert, MemBuff, Arena

CONSTANTS
    Keys,       \* keys of objects in the store
    Pointers,   \* where the store is assigned to
    Values,     \* what is assigned
    Loads,      \* lists of pairs that an object is made from
    Patches,    \* documents to merge
    Flats,      \* flattened objects to unflatten
    Depth,      \* maxDepth of the store: more than any document needs
    Sent,       \* what is sent: [format, doc, depth], or [format, bytes, depth] for "raw"
    Converted   \* what is converted: [type, value], or [type, node]

VARIABLES
    scene,
    doc,        \* the MutableJson of the store; the result of a conversion
    job         \* what is sent or converted

docVars == <<scene, doc, job>>

-----------------------------------------------------------------------------
(* The store.                                                                   *)

\* MutableJson(JsonView(pairs, size)).
Load(pairs) == \E v \in SortUnique(pairs) : doc' = FromView(v, Depth)

\* Assign(ptr) = value.
AssignAt(ptr, value) == doc' = Assign(doc, ptr, value).doc

\* MergePatch and Unflatten into the document.
Patch(p) == doc' = MergePatch(doc, p, Depth).doc
Unflatten(flat) == doc' = UnflattenDoc(doc, flat, Depth).doc

\* It is moved from.
MoveOut == doc # Null /\ doc' = Null

StoreNext ==
    /\ scene = "store"
    /\ \/ \E pairs \in Loads : Load(pairs)
       \/ \E ptr \in Pointers, value \in Values : AssignAt(ptr, value)
       \/ \E p \in Patches : Patch(p)
       \/ \E flat \in Flats : Unflatten(flat)
       \/ MoveOut
    /\ UNCHANGED <<scene, job, buffVars, arenaVars>>

-----------------------------------------------------------------------------
(* The pipe.                                                                    *)

Dump(j) == IF j.format = "msgpack" THEN DumpMsgPack(j.doc, j.depth)
           ELSE IF j.format = "text" THEN Visit(j.doc, j.depth)
           ELSE Wrote(<<j.bytes>>)
Parse(j, input) == IF j.format = "text" THEN ParseText(input, j.depth) ELSE ParseMsgPack(input, j.depth)

PipeNext ==
    /\ scene = "pipe"
    /\ BuffNext
    /\ UNCHANGED <<docVars, arenaVars>>

ConvertNext ==
    /\ scene = "convert" /\ job.step = "value"
    /\ doc' = IF "node" \in DOMAIN job THEN job.node ELSE Into(job.type, job.value)
    /\ job' = [job EXCEPT !.step = "json"]
    /\ UNCHANGED <<scene, buffVars, arenaVars>>

Init ==
    /\ doc = Null /\ ArenaInit
    /\ \/ scene \in {"store", "arena"} /\ job = Null /\ BuffInit(<< >>)
       \/ \E j \in Sent : LET dump == Dump(j) IN
             job = j /\ scene = (IF dump.ok THEN "pipe" ELSE "failed") /\ BuffInit(dump.out)
       \/ scene = "convert" /\ job \in Converted /\ BuffInit(<< >>)
    \* what a scene does not use has one value
    /\ scene # "arena" => \A x \in Arenas : blockSize[x] = Max(BlockSizes)
    /\ scene # "pipe" => kind = "string"

Next ==
    \/ StoreNext
    \/ PipeNext
    \/ ConvertNext
    \/ scene = "arena" /\ ArenaNext /\ UNCHANGED <<docVars, buffVars>>

Spec == Init /\ [][Next]_<<docVars, buffVars, arenaVars>>

-----------------------------------------------------------------------------
(* What the operations mean, without storage or order.                          *)

\* A document as a value: an object is a function from its keys.
RECURSIVE Meaning(_)
Meaning(j) ==
    IF Is(j, "array") THEN Arr([i \in DOMAIN j[2] |-> Meaning(j[2][i])])
    ELSE IF ~Is(j, "object") THEN j
    ELSE <<"object", [k \in {Key(j[2][i]) : i \in DOMAIN j[2]} |-> Meaning(Val(j[2][Entry(j, k)]))]>>

\* RFC 7386, section 2, on meanings.
RECURSIVE Merged(_, _)
Merged(target, patch) ==
    LET old == IF Is(target, "object") THEN target[2] ELSE << >>
        keep == {k \in DOMAIN old \cup DOMAIN patch[2] : k \in DOMAIN patch[2] => patch[2][k] # Null}
        Before(k) == IF k \in DOMAIN old THEN old[k] ELSE Null
    IN IF ~Is(patch, "object") THEN patch
       ELSE <<"object", [k \in keep |->
                IF k \in DOMAIN patch[2] THEN Merged(Before(k), patch[2][k]) ELSE old[k]]>>

\* What a pointer leads to.
RECURSIVE Target(_, _)
Target(m, ptr) ==
    LET part == Head(ptr) IN
    IF ptr = << >> THEN m
    ELSE IF part[1] = "key"
         THEN IF ~Is(m, "object") THEN Thrown
              ELSE IF part[2] \in DOMAIN m[2] THEN Target(m[2][part[2]], Tail(ptr)) ELSE None
    ELSE IF ~Is(m, "array") THEN Thrown
    ELSE IF part[2] < Len(m[2]) THEN Target(m[2][part[2] + 1], Tail(ptr)) ELSE None

RECURSIVE Height(_)
Height(j) ==
    IF ~IsContainer(j) THEN 1 ELSE 1 + Max({0} \cup {Height(Kids(j)[i]) : i \in DOMAIN j[2]})

\* What Flatten keeps: no empty containers, only scalars in arrays (a pointer
\* can have an index at its end only), no escapes and no numbers for keys.
RECURSIVE Flattenable(_)
Flattenable(j) ==
    /\ IsContainer(j) => j[2] # << >>
    /\ Is(j, "array") => \A i \in DOMAIN j[2] : ~IsContainer(j[2][i])
    /\ Is(j, "object") => \A i \in DOMAIN j[2] :
          /\ Key(j[2][i]) # << >> /\ Range(Key(j[2][i])) \cap {Slash, Tilde} = {} /\ ~IsNumber(Key(j[2][i]))
          /\ Flattenable(Val(j[2][i]))

\* A document that went through JSON text.
RECURSIVE Texted(_)
Texted(j) == IF IsContainer(j) THEN MapKids(Texted, j) ELSE Printed(j)

-----------------------------------------------------------------------------
(* Binary search finds in a view of the store exactly what its pointers lead    *)
(* to: whatever the order of insertions, overwrites, erasures and merges, the   *)
(* objects stay sorted and have every key once (sortedFind, SortedInsert, the   *)
(* sort and unique of the constructor).                                         *)
ViewFinds ==
    scene = "store" =>
        LET v == View(doc, Depth) IN
        \A ptr \in Pointers \cup {<<KeyPart(k)>> : k \in Keys} : 
            LET found == Find(v, ptr) IN
            (IF found \in {None, Thrown} THEN found ELSE Meaning(found)) = Target(Meaning(doc), ptr)

(* MergePatch is the merge of RFC 7386 on every document the store can reach:   *)
(* in particular no null of a patch survives in a subtree that is new to the    *)
(* target, and nothing else of the target changes.                              *)
PatchIsRfc7386 ==
    scene = "store" => \A p \in Patches :
        LET r == MergePatch(doc, p, Depth) IN
        r.ok /\ Meaning(r.doc) = Merged(Meaning(doc), Meaning(p))

(* Unflatten undoes Flatten on documents whose pointers can be told from each   *)
(* other; DeepIterate, Join, FromString and Assign agree about every part.      *)
FlattenInverts ==
    scene = "store" /\ Is(doc, "object") /\ Flattenable(doc) =>
        UnflattenDoc(Null, FlattenDoc(View(doc, Depth), Depth), Depth) = Done(doc)

(* What was dumped is parsed to an equal document, by a reader with the depth   *)
(* limit of the writer (JSON text turns what it cannot express into null), and  *)
(* dumping fails exactly for documents beyond that limit; a                     *)
(* MessagePack that is cut short is refused, whatever the place of the cut; and *)
(* whatever bytes the reader accepts, its document is not deeper than allowed   *)
(* and can be written and read again.                                           *)
RoundTrip ==
    /\ scene \in {"pipe", "failed"} /\ job.format # "raw" => (scene = "pipe" <=> Height(job.doc) <= job.depth)
    /\ scene = "pipe" /\ phase = "done" =>
        LET r == Parse(job, got) IN
        IF job.format = "raw"
        THEN r # Thrown =>
                LET again == DumpMsgPack(r, job.depth) IN
                /\ Height(r) <= job.depth /\ again.ok
                /\ DeepEqual(ParseMsgPack(FlattenSeq(again.out), job.depth), r, job.depth) = "yes"
        ELSE /\ r # Thrown
             /\ DeepEqual(r, IF job.format = "text" THEN Texted(job.doc) ELSE job.doc, job.depth) = "yes"
             /\ job.format = "msgpack" =>
                    \A n \in 0 .. Len(got) - 1 : ParseMsgPack(SubSeq(got, 1, n), job.depth) = Thrown

(* A value that was converted to a document comes back from it unchanged, for   *)
(* all types but std::tuple; a number is read into a C++ integer if and only if *)
(* the type has it, and is never wrapped; a static view writes every pair of    *)
(* the storage that was computed for it once.                                   *)
ConvertsBack ==
    scene = "convert" /\ job.step = "json" =>
        LET t == job.type
            r == FromJson(t, doc)
            slots == StaticView(t, 0)
        IN IF "node" \in DOMAIN job
           THEN r = IF doc[2] \in MinOf(t) .. MaxOf(t) THEN <<"value", doc[2]>> ELSE Thrown
           ELSE /\ ~HasTuple(t) => r = <<"value", job.value>>
                /\ t.kind = "struct" =>
                      IsInjective(slots) /\ Range(slots) = 0 .. StaticStorage(t) - 1
=============================================================================

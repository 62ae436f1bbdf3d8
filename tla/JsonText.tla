----------------------------- MODULE JsonText -----------------------------
(* The JSON writer and reader (dump_json.cpp, parse_json.cpp) at the level of   *)
(* the tokens that RapidJSON's writer prints and its reader reports: a token is *)
(* <<"[">>, <<"]">>, <<"{">>, <<"}">>, <<"key", k>>, or <<"value", node>>.      *)
EXTENDS MsgPack

Mark(m) == << << <<m>> >> >>

\* RapidJSON prints doubles that are no numbers as null, and its reader calls
\* Uint or Uint64 for every integer without a sign (external).
Lexed(j) ==
    IF Is(j, "number") /\ j[2] \in Infinities \cup {NaN} THEN Null
    ELSE IF Is(j, "signed") /\ ~Negative(j[2]) THEN <<"unsigned", j[2]>> ELSE j

\* What visit writes for a node that is no container: what JSON cannot express is null.
Printed(j) == IF j[1] \in {"binary", "discarded", "custom"} THEN Null ELSE Lexed(j)

\* visit: the tokens, and whether it came to its end.
RECURSIVE Visit(_, _)
Visit(j, depth) ==
    LET Item(i) == IF Is(j, "array") THEN Visit(j[2][i], depth - 1)
                   ELSE Then(Wrote(<< << <<"key", Key(j[2][i])>> >> >>), Visit(Val(j[2][i]), depth - 1))
        All(open, close) ==
            Then(FoldLeft(LAMBDA a, i : Then(a, Item(i)), Wrote(Mark(open)), [i \in DOMAIN j[2] |-> i]),
                 Wrote(Mark(close)))
    IN IF depth = 0 THEN [out |-> << >>, ok |-> FALSE]
       ELSE IF Is(j, "array") THEN All("[", "]")
       ELSE IF Is(j, "object") THEN All("{", "}")
       ELSE Wrote(<< << <<"value", Printed(j)>> >> >>)

-----------------------------------------------------------------------------
(* SaxHandler.                                                                  *)

Level(tag) == [tag |-> tag, items |-> << >>, capacity |-> 0, key |-> << >>]

\* appendToArray, appendToObject: the storage doubles when it is full.
Grown(c) ==
    IF Len(c.items) # c.capacity THEN c.capacity
    ELSE IF c.capacity = 0 THEN 2 ELSE 2 * c.capacity

\* doAdd.
DoAdd(h, j) ==
    LET c == h.current
        items == IF c.tag = "obj" THEN SortedInsert(c.items, <<c.key, j>>) ELSE Append(c.items, j)
    IN IF c.tag = "val" THEN [h EXCEPT !.result = j]
       ELSE [h EXCEPT !.current = [c EXCEPT !.items = items, !.capacity = Grown(c)]]

\* Push, which bounds the stack and not the depth of the document.
Push(h, tag, maxDepth) ==
    IF Len(h.stack) = maxDepth THEN [h EXCEPT !.ok = FALSE]
    ELSE [h EXCEPT !.stack = Append(@, h.current), !.current = Level(tag)]

\* Pop and doAdd of EndArray, EndObject.
End(h, type) ==
    DoAdd([h EXCEPT !.current = Last(h.stack), !.stack = Front(@)], <<type, h.current.items>>)

OnToken(h, tok, maxDepth) ==
    IF ~h.ok THEN h
    ELSE CASE tok[1] = "[" -> Push(h, "arr", maxDepth)
           [] tok[1] = "{" -> Push(h, "obj", maxDepth)
           [] tok[1] = "]" -> End(h, "array")
           [] tok[1] = "}" -> End(h, "object")
           [] tok[1] = "key" -> [h EXCEPT !.current.key = tok[2]]
           [] tok[1] = "value" -> DoAdd(h, tok[2])

\* parseOwnedBuff of a text that RapidJSON accepts.
ParseText(toks, maxDepth) ==
    LET h == FoldLeft(LAMBDA a, tok : OnToken(a, tok, maxDepth),
                      [stack |-> << >>, current |-> Level("val"), result |-> Null, ok |-> TRUE], toks)
    IN IF h.ok THEN h.result ELSE Thrown
=============================================================================

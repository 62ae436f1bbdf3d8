--------------------------- MODULE JsonPointers ---------------------------
(* JSON pointers (pointer.hpp, pointer.cpp): parsing, joining, and flattening   *)
(* of documents into pairs of a pointer and a value (algo.cpp, json.hpp).       *)
EXTENDS JsonDoc

Slash == 47
Tilde == 126
Percent == 37
Hash == 35
Digits == 48 .. 57

IsNumber(s) == s # << >> /\ Range(s) \subseteq Digits
ToNumber(s) == FoldLeft(LAMBDA n, ch : 10 * n + (ch - 48), 0, s)
RECURSIVE ToChars(_)
ToChars(n) == IF n < 10 THEN <<48 + n>> ELSE Append(ToChars(n \div 10), 48 + (n % 10))

\* needPercentEncode: all but letters, digits and a few marks.
NeedPercentEncode(ch) ==
    ch \notin Digits \cup (65 .. 90) \cup (97 .. 122) \cup {45, 46, 95, Tilde}
HexValue(ch) == IF ch \in Digits THEN ch - 48
                ELSE IF ch \in 65 .. 70 THEN ch - 55
                ELSE IF ch \in 97 .. 102 THEN ch - 87 ELSE -1
HexDigit(n) == IF n < 10 THEN 48 + n ELSE 55 + n

\* parseOne: a token that was seen to hold digits only is an index.
ParseOne(tok, onlyNumbers) ==
    IF tok # << >> /\ onlyNumbers THEN IndexPart(ToNumber(tok)) ELSE KeyPart(tok)

AddToken(s) == [s EXCEPT !.toks = Append(@, ParseOne(s.tok, s.num)), !.tok = << >>, !.num = TRUE]
Bad(s) == [s EXCEPT !.ok = FALSE]

\* Seeded fault: no token is ever seen to hold digits only.
ParseCharNoIndex(s, ch, rest, uri) ==
    LET a == [s EXCEPT !.num = FALSE] IN
    IF ch = Slash THEN AddToken(a) ELSE [a EXCEPT !.tok = Append(@, ch)]

\* A separator ends the token before it and is itself kept outside of the next;
\* it also counts as a character that is no digit, so that only the last token
\* can be an index.
Separate(s, ch) ==
    LET a == [s EXCEPT !.num = @ /\ ch \in Digits] IN IF ch = Slash THEN AddToken(a) ELSE a

\* What a character adds to the token.  `escape` is never reset.
Decode(s, ch, rest, uri) ==
    LET high == HexValue(rest[1])
        low == HexValue(rest[2])
    IN IF s.escape
       THEN IF ch = 48 THEN [s EXCEPT !.tok = Append(@, Tilde)]
            ELSE IF ch = 49 THEN [s EXCEPT !.tok = Append(@, Slash)] ELSE Bad(s)
       ELSE IF ch = Tilde THEN [s EXCEPT !.escape = TRUE]
       ELSE IF uri /\ ch = Percent
            THEN IF Len(rest) < 2 THEN Bad(s)
                 ELSE IF -1 \in {high, low} THEN Bad(s)
                 ELSE [s EXCEPT !.tok = Append(@, 16 * high + low), !.skip = 2]
       ELSE IF uri /\ NeedPercentEncode(ch) THEN Bad(s)
       ELSE IF ch = Slash THEN s
       ELSE [s EXCEPT !.tok = Append(@, ch)]

\* One character of parseTokens.
ParseChar(s, ch, rest, uri) == Decode(Separate(s, ch), ch, rest, uri)

\* The end of the source adds the last token; a percent sign continues the loop,
\* past the test for the end.
AtEnd(s, rest) ==
    IF s.ok /\ rest = << >> /\ s.skip = 0 THEN AddToken(s) ELSE [s EXCEPT !.skip = 0]

RECURSIVE ParseTokens(_, _, _)
ParseTokens(s, src, uri) ==
    LET n == ParseChar(s, Head(src), Tail(src), uri)
        rest == SubSeq(src, 2 + n.skip, Len(src))
    IN IF src = << >> \/ ~s.ok THEN s ELSE ParseTokens(AtEnd(n, rest), rest, uri)

\* JsonPointer::FromString with '/': `count` tokens are there, of which those
\* after the parsed ones are not initialized.
FromString(src) ==
    LET uri == src # << >> /\ src[1] = Hash
        start == IF src = << >> THEN src ELSE IF src[1] \in {Hash, Slash} THEN Tail(src) ELSE src
        count == Cardinality({i \in DOMAIN src : src[i] = Slash})
                 + (IF src # << >> /\ src[1] # Slash THEN 1 ELSE 0)
        s == ParseTokens([toks |-> << >>, tok |-> << >>, num |-> TRUE, escape |-> FALSE,
                          skip |-> 0, ok |-> TRUE], start, uri)
    IN [ok |-> s.ok, toks |-> s.toks, count |-> count]

\* writeString, JoinInto.
WriteChar(ch, uri) ==
    IF ch = Tilde THEN <<Tilde, 48>> ELSE IF ch = Slash THEN <<Tilde, 49>>
    ELSE IF uri /\ NeedPercentEncode(ch) THEN <<Percent, HexDigit(ch \div 16), HexDigit(ch % 16)>>
    ELSE <<ch>>
WritePart(part, uri) ==
    <<Slash>> \o IF part[1] = "index" THEN ToChars(part[2])
                 ELSE FoldLeft(LAMBDA out, ch : out \o WriteChar(ch, uri), << >>, part[2])
Join(ptr, uri) == FoldLeft(LAMBDA out, part : out \o WritePart(part, uri), << >>, ptr)

-----------------------------------------------------------------------------
\* DeepIterate: every node that is no container, with its pointer, in order;
\* << <<"thrown">> >> when the document is too deep.
TooDeepPairs == << <<"thrown", Null>> >>
RECURSIVE DeepIterate(_, _, _)
DeepIterate(j, ptr, depth) ==
    LET Part(i) == IF Is(j, "array") THEN IndexPart(i - 1) ELSE KeyPart(Key(j[2][i]))
        inside == [i \in DOMAIN j[2] |-> DeepIterate(Kids(j)[i], Append(ptr, Part(i)), depth - 1)]
    IN IF depth = 0 THEN TooDeepPairs
       ELSE IF ~IsContainer(j) THEN << <<ptr, j>> >>
       ELSE IF \E i \in DOMAIN inside : inside[i] = TooDeepPairs THEN TooDeepPairs
       ELSE FlattenSeq(inside)

\* Flatten: the pairs in that order, said to be sorted.
FlattenDoc(j, depth) ==
    LET all == DeepIterate(j, << >>, depth) IN
    IF ~Is(j, "object") \/ all = TooDeepPairs THEN Thrown
    ELSE Obj([i \in DOMAIN all |-> <<Join(all[i][1], FALSE), DoCopy(all[i][2], depth)>>])

\* One pair of a flattened object, its pointer parsed.  A pointer with
\* uninitialized tokens has no defined effect and is treated as a failure.
AssignFlat(m, ptr, json, depth) ==
    LET value == FromView(json, depth - ptr.count) IN
    IF ~ptr.ok \/ ptr.count # Len(ptr.toks) \/ ptr.count > depth THEN Failed(m)
    ELSE IF value = Thrown THEN Failed(m) ELSE Assign(m, ptr.toks, value)

\* Unflatten into a document, pair by pair.
UnflattenDoc(m, flat, depth) ==
    LET Apply(r, pair) ==
            IF r.ok THEN AssignFlat(r.doc, FromString(Key(pair)), Val(pair), depth) ELSE r
    IN FoldLeft(Apply, Done(m), flat[2])
=============================================================================

----------------------------- MODULE MsgPack -----------------------------
(* The MessagePack writer and reader (dump_msgpack.cpp, parse_msgpack.cpp) at   *)
(* the level of bytes.                                                          *)
EXTENDS JsonDoc

Widths == {1, 2, 4, 8}
\* toBig of a length, and the last w bytes of a number.
BigEndian(n, w) == [i \in 1 .. w |-> (n \div (256 ^ (w - i))) % 256]
LastBytes(bits, w) == SubSeq(bits, 9 - w, 8)
Narrowest(Fit(_)) == CHOOSE w \in Widths : Fit(w) /\ \A v \in Widths : Fit(v) => w <= v

-----------------------------------------------------------------------------
(* Writing: the sequence of Write calls, each the bytes it is given.            *)

TagOf(first, w) == first + (CASE w = 1 -> 0 [] w = 2 -> 1 [] w = 4 -> 2 [] w = 8 -> 3)

\* The head of a string, a binary, an array or an object of n elements: one
\* byte up to `fix`, else the tag of the narrowest width and the number.
HeadOf(n, fix, fixTag, first, widths) ==
    LET Fits(w) == w \in widths /\ (w < 4 => n < 256 ^ w)
        w == Narrowest(Fits)
    IN IF n <= fix THEN << <<fixTag + n>> >> ELSE << <<TagOf(first, w)>>, BigEndian(n, w)>>

WriteString(s) == Append(HeadOf(Len(s), 31, 160, 217, {1, 2, 4}), s)
WriteBinary(s) == Append(HeadOf(Len(s), -1, 0, 196, {1, 2, 4}), s)

\* writeNegInt: the narrowest width that keeps the sign.
WriteNegInt(bits) ==
    LET Fit(w) == (\A i \in 1 .. 8 - w : bits[i] = 255) /\ bits[9 - w] >= 128
        w == Narrowest(Fit)
    IN IF w = 1 /\ bits[8] >= 224 THEN << <<bits[8]>> >>
       ELSE << <<TagOf(208, w)>>, LastBytes(bits, w)>>

\* Seeded fault: 128 still fits into a fixint.
WritePosIntWide(bits) ==
    LET Fit(w) == \A i \in 1 .. 8 - w : bits[i] = 0
        w == Narrowest(Fit)
    IN IF w = 1 /\ bits[8] <= 128 THEN << <<bits[8]>> >>
       ELSE << <<TagOf(204, w)>>, LastBytes(bits, w)>>

\* writePosInt.
WritePosInt(bits) ==
    LET Fit(w) == \A i \in 1 .. 8 - w : bits[i] = 0
        w == Narrowest(Fit)
    IN IF w = 1 /\ bits[8] < 128 THEN << <<bits[8]>> >>
       ELSE << <<TagOf(204, w)>>, LastBytes(bits, w)>>

\* Two dumps one after the other: nothing is written after an exception.
Then(a, b) == IF a.ok THEN [out |-> a.out \o b.out, ok |-> b.ok] ELSE a
Wrote(out) == [out |-> out, ok |-> TRUE]

\* DumpMsgPackInto: the Write calls, and whether it came to its end.
RECURSIVE DumpMsgPack(_, _)
DumpMsgPack(j, depth) ==
    LET Item(i) == IF Is(j, "array") THEN DumpMsgPack(j[2][i], depth - 1)
                   ELSE Then(Wrote(WriteString(Key(j[2][i]))), DumpMsgPack(Val(j[2][i]), depth - 1))
        All(head) == FoldLeft(LAMBDA a, i : Then(a, Item(i)), Wrote(head), [i \in DOMAIN j[2] |-> i])
        Plain == CASE j[1] = "null" -> << <<192>> >>
                   [] j[1] = "boolean" -> << <<194 + j[2][1]>> >>
                   [] j[1] = "number" -> << <<203>>, j[2]>>
                   [] j[1] = "signed" -> IF Negative(j[2]) THEN WriteNegInt(j[2]) ELSE WritePosInt(j[2])
                   [] j[1] = "unsigned" -> WritePosInt(j[2])
                   [] j[1] = "binary" -> WriteBinary(j[2])
                   [] j[1] = "string" -> WriteString(j[2])
                   [] j[1] \in {"discarded", "custom"} -> << >>
    IN IF depth = 0 THEN [out |-> << >>, ok |-> FALSE]
       ELSE IF Is(j, "array") THEN All(HeadOf(Len(j[2]), 15, 144, 219, {2, 4}))
       ELSE IF Is(j, "object") THEN All(HeadOf(Len(j[2]), 15, 128, 221, {2, 4}))
       ELSE Wrote(Plain)

-----------------------------------------------------------------------------
(* Reading: a node (or Discarded) and the position after it.                    *)

Discarded == <<"discarded", << >> >>
Got(j, pos) == [j |-> j, pos |-> pos]

\* unpackTrivial: `w` bytes from pos, or the end of the input.
Has(b, pos, w) == Len(b) - pos >= w
Take(b, pos, w) == SubSeq(b, pos + 1, pos + w)
Number(s) == FoldLeft(LAMBDA n, x : 256 * n + x, 0, s)
Extend(s) == [i \in 1 .. 8 - Len(s) |-> IF s[1] >= 128 THEN 255 ELSE 0] \o s
Pad(s) == [i \in 1 .. 8 - Len(s) |-> 0] \o s

\* A float widened to a double (no denormals here).
Widen(f) ==
    LET e == (f[1] % 128) * 2 + f[2] \div 128
        m == (f[2] % 128) * 65536 + f[3] * 256 + f[4]
        big == IF e = 0 THEN 0 ELSE IF e = 255 THEN 2047 ELSE e + 896
    IN <<(f[1] \div 128) * 128 + big \div 16, (big % 16) * 16 + m \div 524288,
         (m \div 2048) % 256, (m \div 8) % 256, (m % 8) * 32, 0, 0, 0>>

UnpackNumber(b, pos, w, Make(_)) ==
    IF Has(b, pos, w) THEN Got(Make(Take(b, pos, w)), pos + w) ELSE Got(Discarded, pos)

\* A string or binary of len bytes; with a width, the length comes first.
UnpackBytes(b, pos, type, len) ==
    IF Has(b, pos, len) THEN Got(<<type, Take(b, pos, len)>>, pos + len) ELSE Got(Discarded, pos)
UnpackSized(b, pos, type, w, add) ==
    IF Has(b, pos, w) THEN UnpackBytes(b, pos + w, type, Number(Take(b, pos, w)) + add)
    ELSE Got(Discarded, pos)

\* parseOne, parseArray and parseObject: `count` items are read in a row.
RECURSIVE ParseMsg(_, _, _)
RECURSIVE ParseItems(_, _, _, _, _)
ParseMsg(b, pos, depth) ==
    LET head == b[pos + 1]
        at == pos + 1
        Items(type, count, from) == ParseItems(b, Got(<<type, << >> >>, from), count, depth - 1, type)
        SizedItems(type, w) ==
            IF Has(b, at, w) THEN Items(type, Number(Take(b, at, w)), at + w) ELSE Got(Discarded, at)
        W(first) == <<1, 2, 4, 8>>[head - first + 1]
    IN IF depth = 0 \/ pos >= Len(b) THEN Got(Discarded, pos)
       ELSE CASE head \in 0 .. 127 -> Got(<<"unsigned", Small(head)>>, at)
              [] head \in 128 .. 143 -> Items("object", head % 16, at)
              [] head \in 144 .. 159 -> Items("array", head % 16, at)
              [] head \in 160 .. 191 -> UnpackBytes(b, at, "string", head % 32)
              [] head = 192 -> Got(Null, at)
              [] head = 193 -> Got(Discarded, at)
              [] head \in 194 .. 195 -> Got(<<"boolean", <<head - 194>> >>, at)
              [] head \in 196 .. 198 -> UnpackSized(b, at, "binary", W(196), 0)
              [] head \in 199 .. 201 -> UnpackSized(b, at, "binary", W(199), 1)
              [] head = 202 -> UnpackNumber(b, at, 4, LAMBDA s : <<"number", Widen(s)>>)
              [] head = 203 -> UnpackNumber(b, at, 8, LAMBDA s : <<"number", s>>)
              [] head \in 204 .. 207 -> UnpackNumber(b, at, W(204), LAMBDA s : <<"unsigned", Pad(s)>>)
              [] head \in 208 .. 211 -> UnpackNumber(b, at, W(208), LAMBDA s : <<"signed", Extend(s)>>)
              [] head \in 212 .. 216 -> UnpackBytes(b, at, "binary", 1 + <<1, 2, 4, 8, 16>>[head - 211])
              [] head \in 217 .. 219 -> UnpackSized(b, at, "string", W(217), 0)
              [] head \in 220 .. 221 -> SizedItems("array", 2 * (head - 219))
              [] head \in 222 .. 223 -> SizedItems("object", 2 * (head - 221))
              [] head \in 224 .. 255 -> Got(<<"signed", Extend(<<head>>)>>, at)

ParseItems(b, so, count, depth, type) ==
    LET key == ParseMsg(b, so.pos, depth)
        value == IF type = "array" THEN key ELSE ParseMsg(b, key.pos, depth)
        more == IF type = "array" THEN Arr(Append(so.j[2], value.j))
                ELSE Obj(SortedInsert(so.j[2], <<key.j[2], value.j>>))
    IN IF count = 0 THEN so
       ELSE IF Is(key.j, "discarded") \/ (type = "object" /\ ~Is(key.j, "string"))
            THEN Got(Discarded, key.pos)
       ELSE IF Is(value.j, "discarded") THEN Got(Discarded, value.pos)
       ELSE ParseItems(b, Got(more, value.pos), count - 1, depth, type)

\* ParseMsgPackInPlace: what follows the first value is left alone.
ParseMsgPack(b, depth) ==
    LET r == ParseMsg(b, 0, depth) IN IF Is(r.j, "discarded") THEN Thrown ELSE r.j
=============================================================================

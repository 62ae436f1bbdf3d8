---------------------------- MODULE MCDocuments ----------------------------
(* Documents over two keys in the store; documents at the boundaries of the     *)
(* encodings and short byte strings in the pipe; all integer types of up to     *)
(* Bits bits and one type of every other kind for conversions.                  *)
EXTENDS Documents

a == <<97>>
b == <<98>>
One == <<"unsigned", Small(1)>>
Times(n, x) == [i \in 1 .. n |-> x]
Slashed(keys) == FlattenSeq([i \in DOMAIN keys |-> <<Slash>> \o keys[i]])

MCKeys == {a, b}
MCPointers == {<< >>, <<KeyPart(a)>>, <<KeyPart(b), KeyPart(a)>>, <<KeyPart(b), IndexPart(1)>>}
MCValues == {Null, One, Obj(<< >>)}
MCLoads == {<< >>, << <<b, One>>, <<a, Str(a)>>, <<b, Null>> >>, << <<b, Arr(<<One, Null>>)>> >>}
MCPatches == {One,
              Obj(<< <<a, Null>> >>),
              Obj(<< <<a, Obj(<< <<a, Null>>, <<b, One>> >>)>>, <<b, Obj(<< <<a, Null>> >>)>> >>)}
MCFlats == {Obj(<< <<Slashed(<<b, a>>), One>>, <<Slashed(<<b, b>>), Str(b)>> >>),
            Obj(<< <<Slashed(<<a, <<48>> >>), One>>, <<Slashed(<<a, b>>), One>> >>)}

-----------------------------------------------------------------------------
IntNode(bits) == {<<"signed", bits>>, <<"unsigned", bits>>}
Edges == {0, 1, 127, 128, 255, 256, 65535, 65536, 2147483647}
NegativeEdges == {-1, -32, -33, -128, -129, -32768}
Wide == {Times(4, 0) \o Times(4, 255), <<0, 0, 0, 1>> \o Times(4, 0), <<127>> \o Times(7, 255),
         <<128>> \o Times(7, 0), Times(4, 255) \o <<128, 0, 0, 0>>, Times(4, 255) \o <<127, 255, 255, 255>>,
         Times(8, 255)}
Low(n) == <<n \div 16777216, (n \div 65536) % 256, (n \div 256) % 256, n % 256>>
MSB(n) == IF n >= 0 THEN Times(4, 0) \o Low(n) ELSE Times(6, 255) \o SubSeq(Low(n + 65536), 3, 4)
Numbers == {MSB(n) : n \in Edges} \cup {MSB(n) : n \in NegativeEdges}
           \cup {Times(5, 255) \o <<255, 127, 255>>} \cup Wide
Strings == {Times(n, 120) : n \in {0, 1, 31, 32, 255, 256}}
Scalars == UNION {IntNode(n) : n \in Numbers}
           \cup {Null, <<"boolean", <<0>> >>, <<"boolean", <<1>> >>}
           \cup {<<"number", d>> : d \in {Double(0), Double(1), NaN} \cup Infinities}
           \cup {Str(s) : s \in Strings} \cup {<<"binary", s>> : s \in Strings}
KeyOf(n) == <<97 + (n \div 10), 48 + (n % 10)>>
Nested == {Arr(Times(n, Null)) : n \in {0, 1, 15, 16, 17}}
          \cup {Obj([i \in 1 .. n |-> <<KeyOf(i), One>>]) : n \in {0, 1, 15, 16, 17}}
          \cup {Arr(<<One, Arr(<< >>), Obj(<< <<a, Arr(<<Str(b)>>)>>, <<b, <<"binary", a>> >> >>)>>)}
Heads == {0, 1, 129, 130, 145, 146, 161, 192, 193, 196, 199, 202, 204, 208, 212, 217, 220, 222, 224}
Raw == {<<x, y, z>> : x \in Heads, y \in Heads, z \in {0, 1, 97, 161}}
       \cup {<<130, 161, 97, 1, 161, 97, 2>>, <<130, 161, 98, 1, 161, 97, 145, 255>>,
             <<202, 63, 128, 0, 0>>, <<202, 127, 128, 0, 0>>, <<213, 1, 2, 3>>, <<199, 1, 5, 6>>,
             <<221, 0, 0, 0, 2, 1, 2>>, <<223, 0, 0, 0, 1, 161, 97, 192>>}

MCSent == {[format |-> f, doc |-> d, depth |-> 2] : f \in {"msgpack", "text"}, d \in Scalars}
          \cup {[format |-> f, doc |-> d, depth |-> n] : f \in {"msgpack", "text"}, d \in Nested, n \in 1 .. 4}
          \cup {[format |-> "raw", bytes |-> s, depth |-> 2] : s \in Raw}

-----------------------------------------------------------------------------
Integer(s, n) == [kind |-> "int", signed |-> s, bits |-> n]
Bool == [kind |-> "bool"]
String == [kind |-> "string"]
Of(k, t) == [kind |-> k, of |-> t]
Struct(types, tuple, skip) ==
    [kind |-> "struct", of |-> types, names |-> <<b, a, <<99>> >>, tuple |-> tuple, skipMissing |-> skip]
Enum == [kind |-> "enum", names |-> <<a, b>>, fallback |-> 0]
Inner == Struct(<<Of("optional", Bool), String>>, FALSE, FALSE)
Typed(t, vs) == {[step |-> "value", type |-> t, value |-> v] : v \in vs}

IntTypes == {Integer(s, n) : s \in BOOLEAN, n \in 2 .. Bits}
MCConverted ==
    UNION {Typed(t, MinOf(t) .. MaxOf(t)) : t \in IntTypes}
    \cup {[step |-> "value", type |-> t, node |-> <<"signed", n>>] : t \in IntTypes, n \in MinOf(Int64) .. MaxOf(Int64)}
    \cup {[step |-> "value", type |-> t, node |-> <<"unsigned", n>>] : t \in IntTypes, n \in 0 .. MaxOf(Uint64)}
    \cup Typed(Of("map", Of("vector", Bool)), {<< >>, << <<a, <<0, 1>> >>, <<b, << >> >> >>})
    \cup Typed(Of("pair", <<String, Enum>>), {<<a, 2>>, << << >>, 1>>})
    \cup Typed(Of("tuple", <<Bool>>), {<<1>>})
    \cup UNION {Typed(Struct(<<Inner, Of("optional", Inner), Inner>>, tuple, skip),
                      {<< << << >>, a>>, << >>, << <<1>>, b>> >>, << << <<0>>, a>>, << << << >>, b>> >>, << <<1>>, b>> >>})
               : tuple, skip \in BOOLEAN}
=============================================================================

---------------------------- MODULE JsonConvert ----------------------------
(* Conversions between C++ values and documents (Convert<T>, IntoJson, FromJson *)
(* and the described structs and enums of json_view.hpp).                       *)
(*                                                                              *)
(* A C++ type is a record with a `kind`.  Integers have the width of the type,  *)
(* and Bits stands for the 64 bits of int64_t and uint64_t, which is what a     *)
(* document stores; here a node of type "signed" or "unsigned" holds the        *)
(* number itself.  A conversion that throws yields Thrown.                      *)
EXTENDS JsonDoc

CONSTANT Bits
ASSUME BitsAssumption == Bits \in 2 .. 8

Power(n) == 2 ^ n
MinOf(t) == IF t.signed THEN -Power(t.bits - 1) ELSE 0
MaxOf(t) == IF t.signed THEN Power(t.bits - 1) - 1 ELSE Power(t.bits) - 1
Int64 == [kind |-> "int", signed |-> TRUE, bits |-> Bits]
Uint64 == [kind |-> "int", signed |-> FALSE, bits |-> Bits]

\* Seeded fault: the upper end of the range is off by one.
IntCheckedLoose(to, from, x) ==
    IF to.signed = from.signed THEN to.bits >= from.bits \/ (MinOf(to) <= x /\ x <= MaxOf(to) + 1)
    ELSE IF from.signed THEN x >= 0 /\ (MaxOf(from) > MaxOf(to) => x <= MaxOf(to))
    ELSE x <= MaxOf(to)

\* detail::intChecked: whether static_cast<To> is reached; which comparisons are
\* compiled depends on the two types.
IntChecked(to, from, x) ==
    IF to.signed = from.signed THEN to.bits >= from.bits \/ (MinOf(to) <= x /\ x <= MaxOf(to))
    ELSE IF from.signed THEN x >= 0 /\ (MaxOf(from) > MaxOf(to) => x <= MaxOf(to))
    ELSE x <= MaxOf(to)

\* static_cast<To>: the low bits, read with the sign of the type.
Cast(to, x) == LET low == x % Power(to.bits) IN IF low > MaxOf(to) THEN low - Power(to.bits) ELSE low

-----------------------------------------------------------------------------
(* DoIntoJson.                                                                  *)

RECURSIVE Into(_, _)

\* The elements of a std::pair, a std::tuple, or a struct with StructAsTuple
\* (without explicit field indices), in order.
IntoElements(types, v) == Arr([i \in DOMAIN types |-> Into(types[i], v[i])])
IntoVector(t, v) == Arr([i \in DOMAIN v |-> Into(t.of, v[i])])
\* The keys of a map are distinct: there is one way to sort them.
IntoMap(t, v) ==
    CHOOSE j \in SortUnique([i \in DOMAIN v |-> <<Key(v[i]), Into(t.of, Val(v[i]))>>]) : TRUE
IntoFields(t, v) ==
    Obj(FoldLeft(LAMBDA obj, i : SortedInsert(obj, <<t.names[i], Into(t.of[i], v[i])>>),
                 << >>, [i \in DOMAIN t.of |-> i]))

Into(t, v) ==
    CASE t.kind = "bool" -> <<"boolean", <<v>> >>
      [] t.kind = "int" -> <<IF t.signed THEN "signed" ELSE "unsigned", v>>
      [] t.kind = "string" -> Str(v)
      [] t.kind = "optional" -> IF v = << >> THEN Null ELSE Into(t.of, v[1])
      [] t.kind = "vector" -> IntoVector(t, v)
      [] t.kind = "map" -> IntoMap(t, v)
      [] t.kind \in {"pair", "tuple"} -> IntoElements(t.of, v)
      [] t.kind = "struct" -> IF t.tuple THEN IntoElements(t.of, v) ELSE IntoFields(t, v)
      [] t.kind = "enum" -> Str(t.names[v])

\* ComputeStaticStorage: the pairs that a StaticJsonView of a type reserves.
RECURSIVE StaticStorage(_)
StaticStorage(t) ==
    IF t.kind # "struct" THEN 0
    ELSE FoldLeft(LAMBDA n, f : n + 1 + StaticStorage(f), 0, t.of)

\* staticView: the pairs it writes, from `at` on; a struct inside of another
\* comes after the fields of the outer one and what was consumed before.
RECURSIVE StaticView(_, _)
StaticView(t, at) ==
    LET total == Len(t.of)
        Inside(used, f) == used \o StaticView(f, at + total + Len(used))
    IN IF t.kind # "struct" THEN << >>
       ELSE [i \in 1 .. total |-> at + i - 1] \o FoldLeft(Inside, << >>, t.of)

-----------------------------------------------------------------------------
(* DoFromJson, into a value that was constructed by default.                    *)

RECURSIVE Default(_)
Default(t) ==
    CASE t.kind \in {"bool", "int"} -> 0
      [] t.kind = "enum" -> 1
      [] t.kind \in {"string", "optional", "vector", "map"} -> << >>
      [] t.kind \in {"pair", "tuple", "struct"} -> [i \in DOMAIN t.of |-> Default(t.of[i])]

\* A value, wrapped, or Thrown; several of them, of which the first exception is
\* the result.
Value(v) == <<"value", v>>
All(rs) == IF \E i \in DOMAIN rs : rs[i] = Thrown THEN Thrown ELSE Value([i \in DOMAIN rs |-> rs[i][2]])

RECURSIVE FromJson(_, _)

FromInt(t, j) ==
    IF /\ j[1] \in {"signed", "unsigned"}
       /\ IntChecked(t, IF Is(j, "signed") THEN Int64 ELSE Uint64, j[2])
    THEN Value(Cast(t, j[2])) ELSE Thrown

FromOptional(t, j) ==
    LET r == FromJson(t.of, j) IN
    IF Is(j, "null") THEN Value(<< >>) ELSE IF r = Thrown THEN r ELSE Value(<<r[2]>>)

FromVector(t, j) ==
    IF Is(j, "array") THEN All([i \in DOMAIN j[2] |-> FromJson(t.of, j[2][i])]) ELSE Thrown

FromMap(t, j) ==
    LET r == All([i \in DOMAIN j[2] |-> FromJson(t.of, Val(j[2][i]))]) IN
    IF ~Is(j, "object") \/ r = Thrown THEN Thrown
    ELSE Value([i \in DOMAIN j[2] |-> <<Key(j[2][i]), r[2][i]>>])

\* std::pair asks for two elements, std::tuple for more elements than it has.
FromElements(t, j) == All([i \in DOMAIN t.of |-> FromJson(t.of[i], j[2][i])])
FromPair(t, j) == IF Is(j, "array") /\ Len(j[2]) >= 2 THEN FromElements(t, j) ELSE Thrown
FromTuple(t, j) == IF Is(j, "array") /\ Len(j[2]) > Len(t.of) THEN FromElements(t, j) ELSE Thrown

\* isRequired
Required(t, i) == ~t.skipMissing /\ t.of[i].kind # "optional"

\* deserializeFromTuple and tupleGet: what is missing is read as null.
DeserializeFromTuple(t, j) ==
    LET Slot(i) == IF i <= Len(j[2]) THEN FromJson(t.of[i], j[2][i])
                   ELSE IF Required(t, i) THEN Thrown ELSE FromJson(t.of[i], Null)
    IN IF Is(j, "array") THEN All([i \in DOMAIN t.of |-> Slot(i)]) ELSE Thrown

\* deserializeFields: what is missing stays as it was.
DeserializeFields(t, j) ==
    LET Field(i) ==
            LET at == SortedFind(j[2], t.names[i]) IN
            IF at # 0 THEN FromJson(t.of[i], Val(j[2][at]))
            ELSE IF Required(t, i) THEN Thrown ELSE Value(Default(t.of[i]))
    IN IF Is(j, "object") THEN All([i \in DOMAIN t.of |-> Field(i)]) ELSE Thrown

FromEnum(t, j) ==
    LET named == {i \in DOMAIN t.names : Is(j, "string") /\ t.names[i] = j[2]} IN
    IF ~Is(j, "string") THEN Thrown
    ELSE IF named # {} THEN Value(CHOOSE i \in named : TRUE)
    ELSE IF t.fallback # 0 THEN Value(t.fallback) ELSE Thrown

FromJson(t, j) ==
    CASE t.kind = "bool" -> IF Is(j, "boolean") THEN Value(j[2][1]) ELSE Thrown
      [] t.kind = "int" -> FromInt(t, j)
      [] t.kind = "string" -> IF Is(j, "string") THEN Value(j[2]) ELSE Thrown
      [] t.kind = "optional" -> FromOptional(t, j)
      [] t.kind = "vector" -> FromVector(t, j)
      [] t.kind = "map" -> FromMap(t, j)
      [] t.kind = "pair" -> FromPair(t, j)
      [] t.kind = "tuple" -> FromTuple(t, j)
      [] t.kind = "struct" -> IF t.tuple THEN DeserializeFromTuple(t, j) ELSE DeserializeFields(t, j)
      [] t.kind = "enum" -> FromEnum(t, j)

\* The types that can read what they write: all but those with a std::tuple inside.
RECURSIVE HasTuple(_)
HasTuple(t) ==
    \/ t.kind = "tuple"
    \/ t.kind \in {"optional", "vector", "map"} /\ HasTuple(t.of)
    \/ t.kind \in {"pair", "struct"} /\ \E i \in DOMAIN t.of : HasTuple(t.of[i])
=============================================================================

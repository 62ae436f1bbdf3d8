----------------------------- MODULE JsonObjects -----------------------------
(* Objects of json_view: arrays of pairs, sorted by key (json_view.hpp,         *)
(* algo.hpp).  A pair is <<key, value>>; a key is the sequence of its bytes.    *)
(* The std::map of a mutable object (json.hpp) is the sequence of its entries   *)
(* in iteration order, so it is sorted by construction.                         *)
EXTENDS Naturals, Sequences, SequencesExt, FiniteSets

Key(p) == p[1]
Val(p) == p[2]

\* KeyLess: std::string_view compares bytes.
KeyLess(a, b) ==
    \/ Len(a) < Len(b) /\ \A i \in DOMAIN a : a[i] = b[i]
    \/ \E i \in DOMAIN a \cap DOMAIN b : a[i] < b[i] /\ \A j \in 1 .. i - 1 : a[j] = b[j]

\* Seeded fault: a new key is always put at the end.
SortedInsertLast(pairs, e) ==
    LET same == {i \in DOMAIN pairs : Key(pairs[i]) = Key(e)} IN
    IF same = {} THEN Append(pairs, e) ELSE [pairs EXCEPT ![CHOOSE i \in same : TRUE] = e]

\* SortedInsert, SortedInsertJson: at the lower bound, the new value replaces
\* the old one of the same key.
SortedInsert(pairs, e) ==
    LET pos == 1 + Cardinality({i \in DOMAIN pairs : KeyLess(Key(pairs[i]), Key(e))}) IN
    IF pos \in DOMAIN pairs /\ Key(pairs[pos]) = Key(e) THEN [pairs EXCEPT ![pos] = e]
    ELSE InsertAt(pairs, pos, e)

\* std::map::erase.
EraseKey(pairs, key) ==
    IF \E i \in DOMAIN pairs : Key(pairs[i]) = key
    THEN RemoveAt(pairs, CHOOSE i \in DOMAIN pairs : Key(pairs[i]) = key)
    ELSE pairs

\* The ranges of an array of size elements: how many are before it, and its length.
Ranges(size) == {r \in (0 .. size) \X (0 .. size) : r[1] + r[2] <= size}

\* detail::sortedFind: the index of the pair with the key, or 0.
SortedFind(pairs, key) ==
    LET Search[r \in Ranges(Len(pairs))] ==
          LET half == r[2] \div 2
              middle == r[1] + half + 1
          IN IF r[2] = 0 THEN 0
             ELSE IF KeyLess(Key(pairs[middle]), key) THEN Search[<<middle, r[2] - half - 1>>]
             ELSE IF Key(pairs[middle]) = key THEN middle
             ELSE Search[<<r[1], half>>]
    IN Search[<<0, Len(pairs)>>]
==============================================================================

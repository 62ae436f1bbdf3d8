--------------------------- MODULE StorageProofs ---------------------------
(* Proofs about the buffers of MemBuff, the arenas of Arena and the sorted      *)
(* arrays of JsonObjects, for all sizes of buffers, all writes, any number of   *)
(* arenas, blocks and requests, and objects of any size with any keys.          *)
EXTENDS MemBuff, Arena, JsonObjects, SequenceTheorems, FiniteSetTheorems, WellFoundedInduction, TLAPS

-----------------------------------------------------------------------------
(* Sequences of bytes.                                                          *)

LEMMA LeastIs ==
    ASSUME NEW a \in Nat, NEW b \in Nat
    PROVE  Least(a, b) \in Nat /\ Least(a, b) <= a /\ Least(a, b) <= b
           /\ (Least(a, b) = a \/ Least(a, b) = b)
BY DEF Least

\* Concatenation, as an operator that proofs leave unexpanded.
Joined(s, t) == s \o t

LEMMA Joins ==
    ASSUME NEW B, NEW s \in Seq(B), NEW t \in Seq(B)
    PROVE  /\ Joined(s, t) \in Seq(B) /\ Len(Joined(s, t)) = Len(s) + Len(t)
           /\ Joined(s, << >>) = s /\ Joined(<< >>, s) = s
BY ConcatProperties, ConcatEmptySeq DEF Joined

LEMMA JoinsAnyWay ==
    ASSUME NEW B, NEW s \in Seq(B), NEW t \in Seq(B), NEW u \in Seq(B)
    PROVE  Joined(Joined(s, t), u) = Joined(s, Joined(t, u))
BY ConcatAssociative DEF Joined

\* Upto and From cut a sequence in two.
LEMMA Cuts ==
    ASSUME NEW B, NEW s \in Seq(B), NEW n \in Nat, n <= Len(s)
    PROVE  /\ Upto(s, n) \in Seq(B) /\ From(s, n) \in Seq(B)
           /\ Len(Upto(s, n)) = n /\ Len(From(s, n)) = Len(s) - n
           /\ Joined(Upto(s, n), From(s, n)) = s
<1>1. Len(s) \in Nat /\ \A i \in 1 .. Len(s) : s[i] \in B
  BY LenProperties, ElementOfSeq
<1>2. Upto(s, n) \in Seq(B) /\ Len(Upto(s, n)) = n
  <2>1. \A i \in 1 .. n : s[i] \in B
    BY <1>1
  <2>2. SubSeq(s, 1, n) \in Seq(B) /\ Len(SubSeq(s, 1, n)) = IF 1 <= n THEN n - 1 + 1 ELSE 0
    BY <2>1, SubSeqProperties, 1 \in Int, n \in Int
  <2> QED BY <2>2 DEF Upto
<1>3. From(s, n) \in Seq(B) /\ Len(From(s, n)) = Len(s) - n
  <2>1. \A i \in n + 1 .. Len(s) : s[i] \in B
    BY <1>1
  <2>2. /\ SubSeq(s, n + 1, Len(s)) \in Seq(B)
        /\ Len(SubSeq(s, n + 1, Len(s))) = IF n + 1 <= Len(s) THEN Len(s) - (n + 1) + 1 ELSE 0
    BY <1>1, <2>1, SubSeqProperties, n + 1 \in Int, Len(s) \in Int
  <2> QED BY <1>1, <2>2 DEF From
<1>4. Joined(Upto(s, n), From(s, n)) = s
  <2>1. 1 \in 1 .. Len(s) + 1 /\ n \in 1 - 1 .. Len(s) /\ Len(s) \in n .. Len(s)
    BY <1>1
  <2>2. SubSeq(s, 1, n) \o SubSeq(s, n + 1, Len(s)) = SubSeq(s, 1, Len(s))
    BY <2>1, ConcatAdjacentSubSeq
  <2>3. SubSeq(s, 1, Len(s)) = s
    BY SubSeqFull
  <2> QED BY <2>2, <2>3 DEF Upto, From, Joined
<1> QED BY <1>2, <1>3, <1>4

-----------------------------------------------------------------------------
(* The buffers.                                                                 *)

\* The types, for writes of bytes of B.
BuffType(B) ==
    /\ kind \in {"string", "func"} /\ phase \in {"write", "read", "done"}
    /\ pieces \in Seq(Seq(B))
    /\ piece \in Seq(B) /\ buffer \in Seq(B) /\ stream \in Seq(B)
    /\ inbuf \in Seq(B) /\ temp \in Seq(B) /\ got \in Seq(B) /\ sent \in Seq(B)
    /\ capacity \in Nat /\ want \in Nat

\* Where the bytes are: an Out is never overrun; a reader between two Reads has
\* a full buffer or the end of the stream, and in the loop of a Read it has
\* either got nothing yet, and then asks for a whole buffer, or it is at the end.
BuffPlaces ==
    /\ Len(buffer) <= capacity
    /\ phase = "write" => /\ stream \o buffer \o piece = sent
                          /\ want = 0 /\ temp = << >> /\ inbuf = << >> /\ got = << >>
    /\ phase # "write" => got \o temp \o inbuf \o stream = sent
    /\ Len(inbuf) <= InSize
    /\ want = 0 => temp = << >> /\ (Len(inbuf) \in {0, InSize} \/ stream = << >>)
    /\ want > 0 => /\ inbuf = << >> \/ stream = << >>
                   /\ Len(inbuf) < InSize
                   /\ \/ want = ReadSize /\ temp = << >>
                      \/ inbuf = << >> /\ stream = << >> /\ Len(temp) <= ReadSize

BuffInv(B) == BuffType(B) /\ BuffPlaces

LEMMA BuffInitInv ==
    ASSUME NEW B, NEW writes \in Seq(Seq(B)), BuffInit(writes)
    PROVE  BuffInv(B)
<1>1. << >> \in Seq(B) /\ Len(<< >>) = 0 /\ << >> \o << >> \o << >> = << >>
  BY EmptySeq, ConcatEmptySeq
<1>2. BuffType(B)
  BY <1>1, SizesAssumption DEF BuffInit, BuffType
<1>3. BuffPlaces
  BY <1>1, SizesAssumption DEF BuffInit, BuffPlaces
<1> QED BY <1>2, <1>3 DEF BuffInv

LEMMA WriteKeeps ==
    ASSUME NEW B, BuffInv(B), Write
    PROVE  BuffInv(B)'
<1>1. PICK p : p = Head(pieces)
  OBVIOUS
<1>2. p \in Seq(B) /\ Tail(pieces) \in Seq(Seq(B))
  BY <1>1, HeadTailProperties DEF Write, BuffInv, BuffType
<1>3. buffer \in Seq(B) /\ stream \in Seq(B) /\ sent \in Seq(B)
  BY DEF BuffInv, BuffType
<1>4. Joined(stream, buffer) = sent
  <2>1. Joined(Joined(stream, buffer), << >>) = sent
    BY DEF Write, BuffInv, BuffPlaces, Joined
  <2> QED BY <1>3, <2>1, Joins
<1>5. PICK longer : longer = Joined(buffer, p)
  OBVIOUS
<1>6. longer \in Seq(B) /\ Len(longer) = Len(buffer) + Len(p) /\ Joined(sent, p) \in Seq(B)
  BY <1>2, <1>3, <1>5, Joins
<1>7. Joined(Joined(stream, longer), << >>) = Joined(sent, p)
  BY <1>2, <1>3, <1>4, <1>5, <1>6, Joins, JoinsAnyWay
<1>8. Len(buffer) \in Nat /\ Len(p) \in Nat /\ capacity \in Nat
  BY <1>2, <1>3, LenProperties DEF BuffInv, BuffType
<1>9. /\ want' = want /\ temp' = temp /\ inbuf' = inbuf /\ got' = got /\ phase' = "write" /\ phase = "write"
      /\ capacity' = capacity /\ kind' = kind /\ stream' = stream /\ pieces' = Tail(pieces)
      /\ sent' = Joined(sent, p)
  BY <1>1 DEF Write, inVars, Joined
<1>10. \/ piece' = p /\ buffer' = buffer
       \/ piece' = << >> /\ buffer' = longer /\ Len(buffer) + Len(p) <= capacity
  BY <1>1, <1>5, <1>8 DEF Write, Joined
<1>11. BuffType(B)'
  BY <1>2, <1>3, <1>6, <1>9, <1>10, EmptySeq DEF BuffInv, BuffType
<1>12. Joined(Joined(stream', buffer'), piece') = sent'
  BY <1>4, <1>7, <1>9, <1>10
<1>13. BuffPlaces'
  BY <1>6, <1>9, <1>10, <1>12 DEF BuffInv, BuffPlaces, Joined
<1> QED BY <1>11, <1>13 DEF BuffInv

LEMMA WriteLoopKeeps ==
    ASSUME NEW B, BuffInv(B), WriteLoop
    PROVE  BuffInv(B)'
<1>1. PICK flushed, room, min :
          /\ flushed = IF kind = "func" THEN << >> ELSE buffer
          /\ room = IF kind = "func" THEN capacity ELSE 2 * capacity
          /\ min = Least(Len(piece), room - Len(flushed))
  OBVIOUS
<1>2. PICK head, tail : head = Upto(piece, min) /\ tail = From(piece, min)
  OBVIOUS
<1>3. /\ stream' = IF kind = "func" THEN Joined(stream, buffer) ELSE stream
      /\ capacity' = room /\ buffer' = Joined(flushed, head) /\ piece' = tail
      /\ kind' = kind /\ pieces' = pieces /\ sent' = sent /\ phase' = "write" /\ phase = "write"
      /\ want' = want /\ temp' = temp /\ inbuf' = inbuf /\ got' = got
  BY <1>1, <1>2 DEF WriteLoop, inVars, Joined
<1>4. /\ piece \in Seq(B) /\ buffer \in Seq(B) /\ stream \in Seq(B) /\ << >> \in Seq(B) /\ Len(<< >>) = 0
      /\ capacity \in Nat /\ Len(buffer) \in Nat /\ Len(piece) \in Nat /\ Len(buffer) <= capacity
      /\ Joined(Joined(stream, buffer), piece) = sent
  BY <1>3, EmptySeq, LenProperties DEF BuffInv, BuffType, BuffPlaces, Joined
<1>5. room \in Nat /\ flushed \in Seq(B) /\ Len(flushed) \in Nat /\ Len(flushed) <= room
  BY <1>1, <1>4
<1>6. min \in Nat /\ min <= Len(piece) /\ Len(flushed) + min <= room
  <2>1. PICK n, m : n = Len(piece) /\ m = room - Len(flushed)
    OBVIOUS
  <2>2. n \in Nat /\ m \in Nat /\ min = Least(n, m)
    BY <1>1, <1>4, <1>5, <2>1
  <2>3. min \in Nat /\ min <= n /\ min <= m
    BY <2>2, LeastIs
  <2> QED BY <1>5, <2>1, <2>3
<1>7. head \in Seq(B) /\ tail \in Seq(B) /\ Len(head) = min /\ Joined(head, tail) = piece
  BY <1>2, <1>4, <1>6, Cuts
<1>8. Joined(flushed, head) \in Seq(B) /\ Len(Joined(flushed, head)) <= room
  BY <1>5, <1>6, <1>7, Joins
<1>9. stream' \in Seq(B) /\ Joined(Joined(stream', buffer'), piece') = sent
  <2>1. PICK all : all = Joined(stream, buffer)
    OBVIOUS
  <2>2. all \in Seq(B)
    BY <1>4, <2>1, Joins
  <2>5. Joined(Joined(all, head), tail) = Joined(all, piece)
    BY <1>7, <2>2, JoinsAnyWay
  <2>3. Joined(stream, Joined(buffer, head)) = Joined(all, head)
    BY <1>4, <1>7, <2>1, JoinsAnyWay
  <2>4. kind = "func" => Joined(flushed, head) = head
    BY <1>1, <1>7, Joins
  <2> QED BY <1>1, <1>3, <1>4, <2>1, <2>2, <2>3, <2>4, <2>5
<1>10. BuffType(B)'
  BY <1>3, <1>5, <1>7, <1>8, <1>9 DEF BuffInv, BuffType
<1>11. BuffPlaces'
  <2>1. want = 0 /\ temp = << >> /\ inbuf = << >> /\ got = << >>
    BY <1>3 DEF BuffInv, BuffPlaces
  <2>2. stream' \o buffer' \o piece' = sent'
    BY <1>3, <1>9 DEF Joined
  <2> QED BY <1>3, <1>4, <1>8, <2>1, <2>2, SizesAssumption DEF BuffPlaces
<1> QED BY <1>10, <1>11 DEF BuffInv

LEMMA FinishKeeps ==
    ASSUME NEW B, BuffInv(B), Finish
    PROVE  BuffInv(B)'
<1>1. PICK all : all = Joined(stream, buffer)
  OBVIOUS
<1>2. PICK n : n = Least(InSize, Len(all))
  OBVIOUS
<1>3. PICK fresh, rest : fresh = Upto(all, n) /\ rest = From(all, n)
  OBVIOUS
<1>4. /\ buffer' = << >> /\ capacity' \in {0, capacity} /\ inbuf' = fresh /\ stream' = rest
      /\ phase = "write" /\ phase' = "read" /\ kind' = kind /\ pieces' = pieces /\ piece' = piece
      /\ piece = << >> /\ sent' = sent /\ want' = want /\ temp' = temp /\ got' = got
  BY <1>1, <1>2, <1>3 DEF Finish, Joined
<1>5. /\ stream \in Seq(B) /\ buffer \in Seq(B) /\ << >> \in Seq(B) /\ Len(<< >>) = 0
      /\ capacity \in Nat
      /\ want = 0 /\ temp = << >> /\ got = << >> /\ Joined(all, << >>) = sent
  BY <1>1, <1>4, EmptySeq DEF BuffInv, BuffType, BuffPlaces, Joined
<1>6. all \in Seq(B) /\ all = sent /\ Len(all) \in Nat
  BY <1>1, <1>5, Joins, LenProperties
<1>7. n \in Nat /\ n <= InSize /\ n <= Len(all) /\ (n = InSize \/ n = Len(all))
  BY <1>2, <1>6, LeastIs, SizesAssumption
<1>8. /\ fresh \in Seq(B) /\ rest \in Seq(B) /\ Len(fresh) = n /\ Len(rest) = Len(all) - n
      /\ Joined(fresh, rest) = all
  BY <1>3, <1>6, <1>7, Cuts
<1>9. n = InSize \/ rest = << >>
  BY <1>6, <1>7, <1>8, EmptySeq
<1>10. Joined(Joined(Joined(<< >>, << >>), fresh), rest) = sent
  BY <1>5, <1>6, <1>8, Joins
<1>11. BuffType(B)'
  BY <1>4, <1>5, <1>8 DEF BuffInv, BuffType
<1>12. BuffPlaces'
  <2>1. got' \o temp' \o inbuf' \o stream' = sent'
    BY <1>4, <1>5, <1>10 DEF Joined
  <2>2. Len(inbuf') \in {0, InSize} \/ stream' = << >>
    BY <1>4, <1>8, <1>9
  <2> QED BY <1>4, <1>5, <1>7, <1>8, <2>1, <2>2, SizesAssumption DEF BuffPlaces
<1> QED BY <1>11, <1>12 DEF BuffInv

\* What a reader has read and has yet to read, as the proofs write it.
Reading(g, t, i, s) == Joined(Joined(Joined(g, t), i), s)

LEMMA ReadKeeps ==
    ASSUME NEW B, BuffInv(B), Read
    PROVE  BuffInv(B)'
<1>1. PICK fresh, rest : fresh = Upto(inbuf, ReadSize) /\ rest = From(inbuf, ReadSize)
  OBVIOUS
<1>2. /\ phase = "read" /\ phase' = "read" /\ want = 0
      /\ kind' = kind /\ pieces' = pieces /\ piece' = piece /\ buffer' = buffer
      /\ capacity' = capacity /\ sent' = sent /\ stream' = stream /\ temp' = temp
  BY DEF Read, outVars
<1>3. /\ inbuf \in Seq(B) /\ stream \in Seq(B) /\ got \in Seq(B) /\ Len(inbuf) \in Nat /\ InSize \in Nat \ {0}
      /\ << >> \in Seq(B) /\ Len(<< >>) = 0 /\ ReadSize = InSize
  BY EmptySeq, LenProperties, SizesAssumption DEF BuffInv, BuffType
<1>4. /\ temp = << >> /\ Len(buffer) <= capacity /\ Len(inbuf) <= InSize
      /\ Len(inbuf) \in {0, InSize} \/ stream = << >>
      /\ Reading(got, << >>, inbuf, stream) = sent
  BY <1>2 DEF BuffInv, BuffPlaces, Reading, Joined
<1>5. CASE Len(inbuf) >= ReadSize /\ got' = Joined(got, fresh) /\ inbuf' = rest /\ want' = want
  <2>1. /\ fresh \in Seq(B) /\ rest \in Seq(B) /\ Len(rest) = 0 /\ Joined(fresh, rest) = inbuf
    BY <1>1, <1>3, <1>4, <1>5, Cuts
  <2>2. rest = << >>
    BY <2>1, EmptySeq
  <2>3. Joined(got, fresh) \in Seq(B) /\ Joined(Joined(got, fresh), rest) = Joined(got, inbuf)
    BY <1>3, <2>1, Joins, JoinsAnyWay
  <2>4. Reading(got', << >>, rest, stream) = sent
    BY <1>3, <1>4, <1>5, <2>1, <2>3, Joins DEF Reading
  <2>5. BuffType(B)'
    BY <1>2, <1>5, <2>1, <2>3 DEF BuffInv, BuffType
  <2>6. got' \o temp' \o inbuf' \o stream' = sent'
    BY <1>2, <1>4, <1>5, <2>4 DEF Reading, Joined
  <2>7. BuffPlaces'
    BY <1>2, <1>3, <1>4, <1>5, <2>1, <2>6 DEF BuffPlaces
  <2> QED BY <2>5, <2>7 DEF BuffInv
<1>6. CASE Len(inbuf) < ReadSize /\ want' = ReadSize /\ got' = got /\ inbuf' = inbuf
  <2>1. BuffType(B)'
    BY <1>2, <1>3, <1>6 DEF BuffInv, BuffType
  <2>2. inbuf = << >> \/ stream = << >>
    BY <1>3, <1>4, <1>6, EmptySeq
  <2>3. got' \o temp' \o inbuf' \o stream' = sent'
    BY <1>2, <1>6 DEF BuffInv, BuffPlaces
  <2>4. BuffPlaces'
    BY <1>2, <1>3, <1>4, <1>6, <2>2, <2>3 DEF BuffPlaces
  <2> QED BY <2>1, <2>4 DEF BuffInv
<1> QED BY <1>1, <1>3, <1>5, <1>6 DEF Read, Joined

LEMMA ReadLoopKeeps ==
    ASSUME NEW B, BuffInv(B), ReadLoop
    PROVE  BuffInv(B)'
<1>1. PICK n : n = Least(InSize, Len(stream))
  OBVIOUS
<1>2. PICK fresh, later : fresh = Upto(stream, n) /\ later = From(stream, n)
  OBVIOUS
<1>3. PICK min : min = Least(want, Len(fresh))
  OBVIOUS
<1>4. PICK now, over : now = Upto(fresh, min) /\ over = From(fresh, min)
  OBVIOUS
<1>5. PICK read : read = Joined(Joined(temp, inbuf), now)
  OBVIOUS
<1>6. /\ stream \in Seq(B) /\ inbuf \in Seq(B) /\ temp \in Seq(B) /\ got \in Seq(B)
      /\ Len(stream) \in Nat /\ Len(inbuf) \in Nat /\ Len(temp) \in Nat /\ want \in Nat /\ InSize \in Nat \ {0}
      /\ << >> \in Seq(B) /\ Len(<< >>) = 0 /\ ReadSize = InSize
  BY EmptySeq, LenProperties, SizesAssumption DEF BuffInv, BuffType
<1>7. n \in Nat /\ n <= InSize /\ n <= Len(stream) /\ (n = InSize \/ n = Len(stream))
  BY <1>1, <1>6, LeastIs
<1>8. /\ fresh \in Seq(B) /\ later \in Seq(B) /\ Len(fresh) = n /\ Len(later) = Len(stream) - n
      /\ Joined(fresh, later) = stream
  BY <1>2, <1>6, <1>7, Cuts
<1>9. min \in Nat /\ min <= want /\ min <= n /\ (min = want \/ min = n)
  BY <1>3, <1>6, <1>7, <1>8, LeastIs
<1>10. /\ now \in Seq(B) /\ over \in Seq(B) /\ Len(now) = min /\ Len(over) = n - min
       /\ Joined(now, over) = fresh
  BY <1>4, <1>7, <1>8, <1>9, Cuts
<1>11. PICK returns \in BOOLEAN : returns <=> fresh = << >> \/ want = min
  OBVIOUS
<1>12. /\ phase = "read" /\ want > 0
       /\ kind' = kind /\ pieces' = pieces /\ piece' = piece /\ buffer' = buffer
       /\ capacity' = capacity /\ sent' = sent
       /\ stream' = From(stream, Len(fresh)) /\ inbuf' = over
       /\ want' = IF returns THEN 0 ELSE want - min
       /\ temp' = IF returns THEN << >> ELSE read
       /\ got' = IF returns THEN Joined(got, read) ELSE got
       /\ phase' = IF returns /\ read = << >> THEN "done" ELSE "read"
  BY <1>1, <1>2, <1>3, <1>4, <1>5, <1>11 DEF ReadLoop, outVars, Joined
<1>13. stream' = later
  BY <1>2, <1>8, <1>12
<1>14. /\ inbuf = << >> \/ stream = << >>
       /\ Len(inbuf) < InSize /\ Len(buffer) <= capacity
       /\ \/ want = ReadSize /\ temp = << >>
          \/ inbuf = << >> /\ stream = << >> /\ Len(temp) <= ReadSize
       /\ Reading(got, temp, inbuf, stream) = sent
  BY <1>12 DEF BuffInv, BuffPlaces, Reading, Joined
<1>15. read \in Seq(B) /\ Len(read) = Len(temp) + Len(inbuf) + min /\ Joined(got, read) \in Seq(B)
  <2>1. PICK ti : ti = Joined(temp, inbuf)
    OBVIOUS
  <2>2. ti \in Seq(B) /\ Len(ti) = Len(temp) + Len(inbuf)
    BY <1>6, <2>1, Joins
  <2>3. read \in Seq(B) /\ Len(read) = Len(ti) + min
    BY <1>5, <1>10, <2>1, <2>2, Joins
  <2> QED BY <1>6, <2>2, <2>3, Joins
<1>16. Joined(Joined(Joined(got, read), over), later) = sent
  <2>1. PICK a, b : a = Joined(got, temp) /\ b = Joined(a, inbuf)
    OBVIOUS
  <2>2. a \in Seq(B) /\ b \in Seq(B)
    BY <1>6, <2>1, Joins
  <2>3. PICK ti : ti = Joined(temp, inbuf)
    OBVIOUS
  <2>4. ti \in Seq(B) /\ Joined(got, ti) = b
    BY <1>6, <2>1, <2>3, Joins, JoinsAnyWay
  <2>5. Joined(b, now) = Joined(got, read) /\ Joined(b, now) \in Seq(B)
    BY <1>5, <1>6, <1>10, <2>2, <2>3, <2>4, Joins, JoinsAnyWay
  <2>6. Joined(Joined(b, now), over) = Joined(b, fresh)
    BY <1>10, <2>2, JoinsAnyWay
  <2>7. Joined(Joined(b, fresh), later) = Joined(b, stream)
    BY <1>8, <2>2, JoinsAnyWay
  <2> QED BY <1>14, <2>1, <2>5, <2>6, <2>7 DEF Reading
<1>17. CASE returns
  <2>1. over = << >> \/ want = min
    BY <1>8, <1>10, <1>11, <1>17, <1>6, <1>7, <1>9, EmptySeq
  <2>2. BuffType(B)'
    BY <1>6, <1>8, <1>10, <1>12, <1>13, <1>15, <1>17 DEF BuffInv, BuffType
  <2>3. Len(over) \in {0, InSize} \/ later = << >>
    <3>1. CASE want = ReadSize
      BY <1>6, <1>7, <1>8, <1>9, <1>10, <1>11, <1>17, <3>1, EmptySeq
    <3>2. CASE stream = << >>
      BY <1>6, <1>7, <1>8, <3>2, EmptySeq
    <3> QED BY <1>14, <3>1, <3>2
  <2>4. Reading(got', << >>, over, later) = sent
    BY <1>12, <1>15, <1>16, <1>17, Joins DEF Reading
  <2>5. got' \o temp' \o inbuf' \o stream' = sent'
    BY <1>12, <1>13, <1>17, <2>4 DEF Reading, Joined
  <2>6. Len(over) <= InSize
    BY <1>6, <1>7, <1>9, <1>10
  <2>7. BuffPlaces'
    BY <1>12, <1>13, <1>14, <1>17, <2>3, <2>5, <2>6 DEF BuffPlaces
  <2> QED BY <2>2, <2>7 DEF BuffInv
<1>18. CASE ~returns
  <2>1. min = n /\ min < want /\ n > 0
    BY <1>6, <1>7, <1>8, <1>9, <1>11, <1>18, EmptySeq
  <2>2. stream # << >> /\ inbuf = << >> /\ temp = << >> /\ want = ReadSize
    BY <1>6, <1>7, <1>14, <2>1, EmptySeq
  <2>3. n = Len(stream) /\ over = << >> /\ later = << >>
    BY <1>6, <1>7, <1>8, <1>9, <1>10, <2>1, <2>2, EmptySeq
  <2>4. BuffType(B)'
    BY <1>6, <1>9, <1>10, <1>12, <1>13, <1>15, <1>18, <1>8, <2>1 DEF BuffInv, BuffType
  <2>5. Reading(got', read, over, later) = sent
    BY <1>12, <1>16, <1>18 DEF Reading
  <2>6. got' \o temp' \o inbuf' \o stream' = sent'
    BY <1>12, <1>13, <1>18, <2>5 DEF Reading, Joined
  <2>7. Len(read) <= ReadSize
    <3>1. Len(temp) = 0 /\ Len(inbuf) = 0
      BY <2>2
    <3> QED BY <1>6, <1>9, <1>15, <2>1, <2>2, <3>1
  <2>8. BuffPlaces'
    BY <1>6, <1>9, <1>12, <1>13, <1>14, <1>18, <2>1, <2>3, <2>6, <2>7 DEF BuffPlaces
  <2> QED BY <2>4, <2>8 DEF BuffInv
<1> QED BY <1>17, <1>18

LEMMA BuffStepInv ==
    ASSUME NEW B, BuffInv(B), [BuffNext]_buffVars
    PROVE  BuffInv(B)'
<1>1. CASE UNCHANGED buffVars
  BY <1>1 DEF BuffInv, BuffType, BuffPlaces, buffVars, outVars, inVars
<1> QED BY <1>1, WriteKeeps, WriteLoopKeeps, FinishKeeps, ReadKeeps, ReadLoopKeeps DEF BuffNext

\* The bytes that a reader gets are the bytes that were given to Write, in their
\* order, and no buffer is overrun (membuff.hpp, Write, Grow, Read, Refill): for
\* buffers of all sizes, and all lists of writes of bytes of any set B.
THEOREM BuffKeepsBytes ==
    ASSUME NEW B, NEW writes \in Seq(Seq(B))
    PROVE  BuffInit(writes) /\ [][BuffNext]_buffVars => []BytesInOrder
<1>1. BuffInit(writes) => BuffInv(B)
  BY BuffInitInv
<1>2. BuffInv(B) /\ [BuffNext]_buffVars => BuffInv(B)'
  BY BuffStepInv
<1>3. BuffInv(B) => BytesInOrder
  <2>1. SUFFICES ASSUME BuffInv(B), want > 0
                 PROVE  Len(temp) + Len(inbuf) + Least(want, Least(InSize, Len(stream))) <= ReadSize
    BY DEF BuffInv, BuffPlaces, BytesInOrder
  <2>2. /\ Len(stream) \in Nat /\ Len(inbuf) \in Nat /\ Len(temp) \in Nat /\ want \in Nat
        /\ InSize \in Nat \ {0} /\ ReadSize = InSize /\ Len(<< >>) = 0
    BY <2>1, LenProperties, EmptySeq, SizesAssumption DEF BuffInv, BuffType
  <2>3. /\ inbuf = << >> \/ stream = << >>
        /\ Len(inbuf) < InSize
        /\ \/ want = ReadSize /\ temp = << >>
           \/ inbuf = << >> /\ stream = << >> /\ Len(temp) <= ReadSize
    BY <2>1 DEF BuffInv, BuffPlaces
  <2>4. /\ inbuf = << >> => Len(inbuf) = 0
        /\ stream = << >> => Len(stream) = 0
        /\ temp = << >> => Len(temp) = 0
    BY EmptySeq
  <2>5. PICK k, m : k = Least(InSize, Len(stream)) /\ m = Least(want, k)
    OBVIOUS
  <2>6. k \in Nat /\ k <= Len(stream)
    BY <2>2, <2>5, LeastIs
  <2>7. m \in Nat /\ m <= want /\ m <= k
    BY <2>2, <2>5, <2>6, LeastIs
  <2>8. Len(temp) + Len(inbuf) + m <= ReadSize
    <3>1. CASE temp = << >> /\ want = ReadSize
      BY <2>2, <2>3, <2>4, <2>6, <2>7, <3>1
    <3>2. CASE inbuf = << >> /\ stream = << >> /\ Len(temp) <= ReadSize
      BY <2>2, <2>4, <2>6, <2>7, <3>2
    <3> QED BY <2>3, <3>1, <3>2
  <2> QED BY <2>5, <2>8
<1> QED BY <1>1, <1>2, <1>3, PTL

-----------------------------------------------------------------------------
(* The arenas.                                                                  *)

LEMMA AlignedIs ==
    ASSUME NEW at \in Nat, NEW align \in Nat, align # 0
    PROVE  Aligned(at, align) \in Nat /\ Aligned(at, align) >= at /\ Aligned(at, align) % align = 0
<1>1. PICK q, r : q = (at + align - 1) \div align /\ r = (at + align - 1) % align
  OBVIOUS
<1>2. q \in Nat /\ r \in 0 .. align - 1 /\ align * q + r = at + align - 1
  BY <1>1
<1>3. q * align \in Nat /\ q * align >= at
  BY <1>2
<1>4. (q * align) % align = 0
  BY <1>2, SMTT(30)
<1> QED BY <1>1, <1>3, <1>4 DEF Aligned

ArenaType ==
    /\ buffptr \in [Arenas -> [block : Blocks \cup Arenas \cup {Nowhere}, at : Nat]]
    /\ space \in [Arenas -> Nat] /\ blockSize \in [Arenas -> Nat \ {0}]
    /\ allocs \in [Arenas -> SUBSET Blocks] /\ size \in [Blocks -> Nat]
    /\ regions \subseteq [block : Blocks \cup Arenas, at : Nat, bytes : Nat, align : Nat \ {0}, owner : Arenas]
    /\ DOMAIN view = Arenas

\* Where an arena may hand out memory: in its blocks, and on the stack only if it
\* has a buffer there.
Places(a) == allocs[a] \cup (IF a \in Stacked THEN {a} ELSE {})

\* buffptr and space of an arena span the rest of one of its places.
PtrOK(a) ==
    \/ buffptr[a] = Null0
    \/ buffptr[a].block \in Places(a) /\ buffptr[a].at + space[a] = Extent(buffptr[a].block)

RegionOK(r) ==
    /\ r.at % r.align = 0 /\ r.block \in Places(r.owner)
    /\ r.at + r.bytes <= Extent(r.block)
    /\ buffptr[r.owner].block = r.block => r.at + r.bytes <= buffptr[r.owner].at

Apart(r, q) == r # q /\ r.block = q.block => Bytes(r) \cap Bytes(q) = {}

ViewOK(a) == view[a] # Nowhere => view[a] \in regions /\ view[a].owner = a

\* A block in use is not free, and has one owner.
AllocsOK ==
    /\ \A a \in Arenas : \A b \in allocs[a] : size[b] > 0
    /\ \A a, o \in Arenas : a # o => allocs[a] \cap allocs[o] = {}

ArenaInv ==
    /\ ArenaType /\ AllocsOK
    /\ \A a \in Arenas : PtrOK(a) /\ ViewOK(a)
    /\ \A r \in regions : RegionOK(r)
    /\ \A r, q \in regions : Apart(r, q)

LEMMA ArenaInitInv == ArenaInit => ArenaInv
<1>1. SUFFICES ASSUME ArenaInit PROVE ArenaInv
  OBVIOUS
<1>2. \A a \in Arenas : StackBuff(a) \in [block : Blocks \cup Arenas \cup {Nowhere}, at : Nat] /\ StackSize(a) \in Nat
  BY ArenaAssumption DEF StackBuff, StackSize, Null0, Ptr
<1>3. ArenaType
  BY <1>1, <1>2, ArenaAssumption DEF ArenaInit, ArenaType
<1>4. ASSUME NEW a \in Arenas PROVE PtrOK(a) /\ ViewOK(a)
  <2>1. CASE a \in Stacked
    BY <1>1, <2>1, ArenaAssumption DEF ArenaInit, PtrOK, ViewOK, Places, Extent, StackBuff, StackSize, Ptr
  <2>2. CASE a \notin Stacked
    BY <1>1, <2>2 DEF ArenaInit, PtrOK, ViewOK, StackBuff
  <2> QED BY <2>1, <2>2
<1>5. AllocsOK /\ regions = {}
  BY <1>1 DEF ArenaInit, AllocsOK
<1> QED BY <1>3, <1>4, <1>5 DEF ArenaInv

\* What the owner of a place is.
LEMMA PlaceOwner ==
    ASSUME ArenaInv, NEW a \in Arenas, NEW o \in Arenas, a # o
    PROVE  /\ Places(a) \cap Places(o) = {} /\ Places(a) \cap Owned(o) = {}
           /\ Places(a) \subseteq Blocks \cup Arenas /\ Places(a) \subseteq Owned(a)
BY ArenaAssumption DEF ArenaInv, ArenaType, AllocsOK, Places, Owned

\* A new region that starts behind all others in its block, and a step that moves
\* no other pointer and takes no block away.
LEMMA HandKeeps ==
    ASSUME ArenaInv, ArenaType', NEW a \in Arenas, NEW r, r.owner = a,
           regions' = regions \cup {r}, view' = view, AllocsOK',
           PtrOK(a)', RegionOK(r)',
           \A o \in Arenas : o # a => buffptr'[o] = buffptr[o] /\ space'[o] = space[o] /\ allocs'[o] = allocs[o],
           allocs[a] \subseteq allocs'[a],
           \A o \in Arenas : \A b \in allocs[o] : size'[b] = size[b],
           \A q \in regions : q.block = r.block => q.at + q.bytes <= r.at,
           \A q \in regions : q.owner = a => buffptr'[a].block # q.block \/ q.at + q.bytes <= buffptr'[a].at
    PROVE  ArenaInv'
<1>1. \A b \in Arenas : Extent(b)' = Extent(b)
  BY DEF Extent
<1>2. \A o \in Arenas : \A b \in Places(o) : Extent(b)' = Extent(b)
  BY <1>1 DEF Extent, Places
<1>3. \A o \in Arenas : Places(o) \subseteq Places(o)' /\ (o # a => Places(o)' = Places(o))
  BY DEF Places
<1>4. ASSUME NEW o \in Arenas PROVE PtrOK(o)' /\ ViewOK(o)'
  <2>1. ViewOK(o)'
    BY DEF ArenaInv, ViewOK
  <2>2. CASE o # a
    <3>1. PtrOK(o) /\ buffptr'[o] = buffptr[o] /\ space'[o] = space[o]
      BY <2>2 DEF ArenaInv
    <3>2. Null0' = Null0
      BY DEF Null0, Ptr
    <3> QED BY <1>2, <1>3, <2>1, <2>2, <3>1, <3>2 DEF PtrOK
  <2> QED BY <2>1, <2>2
<1>5. ASSUME NEW q \in regions PROVE RegionOK(q)'
  <2>1. RegionOK(q) /\ q.owner \in Arenas
    BY DEF ArenaInv, ArenaType
  <2>2. q.block \in Places(q.owner) /\ q.block \in Places(q.owner)' /\ Extent(q.block)' = Extent(q.block)
    BY <1>2, <1>3, <2>1 DEF RegionOK
  <2>3. buffptr'[q.owner].block = q.block => q.at + q.bytes <= buffptr'[q.owner].at
    BY <2>1 DEF RegionOK
  <2> QED BY <2>1, <2>2, <2>3 DEF RegionOK
<1>6. ASSUME NEW q \in regions, q.block = r.block
      PROVE  Bytes(q) \cap Bytes(r) = {}
  <2>1. q.at \in Nat /\ q.bytes \in Nat /\ r.at \in Nat /\ r.bytes \in Nat /\ q.at + q.bytes <= r.at
    BY <1>6 DEF ArenaInv, ArenaType
  <2> QED BY <2>1 DEF Bytes
<1>7. ASSUME NEW q \in regions', NEW p \in regions' PROVE Apart(q, p)'
  <2>1. Apart(q, p)' <=> Apart(q, p)
    BY DEF Apart, Bytes
  <2>2. CASE q \in regions /\ p \in regions
    BY <2>1, <2>2 DEF ArenaInv
  <2>3. CASE q = r \/ p = r
    BY <1>6, <2>1, <2>3 DEF Apart
  <2> QED BY <2>2, <2>3
<1> QED BY <1>4, <1>5, <1>7 DEF ArenaInv

LEMMA RegionIs ==
    ASSUME NEW b, NEW at, NEW bytes, NEW align, NEW a
    PROVE  LET r == Region(Ptr(b, at), bytes, align, a) IN
           /\ r.block = b /\ r.at = at /\ r.bytes = bytes /\ r.align = align /\ r.owner = a
           /\ b \in Blocks \cup Arenas /\ at \in Nat /\ bytes \in Nat /\ align \in Nat \ {0} /\ a \in Arenas =>
                 r \in [block : Blocks \cup Arenas, at : Nat, bytes : Nat, align : Nat \ {0}, owner : Arenas]
BY DEF Region, Ptr

\* A block that is free is nobody's, and nothing is in it.
LEMMA FreeIsFresh ==
    ASSUME ArenaInv, NEW b \in FreeBlocks
    PROVE  /\ b \in Blocks /\ b \notin Arenas /\ \A o \in Arenas : b \notin allocs[o] /\ b \notin Places(o)
           /\ \A q \in regions : q.block # b
<1>1. b \in Blocks /\ size[b] = 0 /\ b \notin Arenas
  BY ArenaAssumption DEF FreeBlocks
<1>2. \A o \in Arenas : b \notin allocs[o] /\ b \notin Places(o)
  BY <1>1, ArenaAssumption DEF ArenaInv, AllocsOK, Places
<1> QED BY <1>1, <1>2 DEF ArenaInv, RegionOK, ArenaType

LEMMA AllocOwnKeeps ==
    ASSUME ArenaInv, NEW a \in Arenas, NEW bytes \in Sizes, NEW align \in Aligns, AllocOwn(a, bytes, align)
    PROVE  ArenaInv'
<1>1. PICK b \in FreeBlocks :
          /\ size' = [size EXCEPT ![b] = bytes]
          /\ allocs' = [allocs EXCEPT ![a] = @ \cup {b}]
          /\ Hand(a, Ptr(b, 0), bytes, align)
  BY DEF AllocOwn
<1>2. PICK r : r = Region(Ptr(b, 0), bytes, align, a)
  OBVIOUS
<1>3. bytes \in Nat /\ align \in Nat \ {0} /\ bytes > 0 /\ 0 % align = 0
  BY ArenaAssumption DEF AllocOwn, ArenaInv, ArenaType
<1>4. /\ b \in Blocks /\ b \notin Arenas /\ \A o \in Arenas : b \notin allocs[o] /\ b \notin Places(o)
      /\ \A q \in regions : q.block # b
  BY FreeIsFresh
<1>5. /\ r.block = b /\ r.at = 0 /\ r.bytes = bytes /\ r.align = align /\ r.owner = a
      /\ r \in [block : Blocks \cup Arenas, at : Nat, bytes : Nat, align : Nat \ {0}, owner : Arenas]
  BY <1>2, <1>3, <1>4, RegionIs
<1>6. regions' = regions \cup {r}
  BY <1>1, <1>2 DEF Hand
<1>7. buffptr' = buffptr /\ space' = space /\ blockSize' = blockSize /\ view' = view
  BY DEF AllocOwn
<1>8. ArenaType'
  BY <1>1, <1>3, <1>4, <1>5, <1>6, <1>7 DEF ArenaInv, ArenaType
<1>9. size'[b] = bytes /\ \A c \in Blocks : c # b => size'[c] = size[c]
  BY <1>1, <1>4 DEF ArenaInv, ArenaType
<1>10. allocs'[a] = allocs[a] \cup {b} /\ \A o \in Arenas : o # a => allocs'[o] = allocs[o]
  BY <1>1 DEF ArenaInv, ArenaType
<1>11. AllocsOK'
  BY <1>3, <1>4, <1>9, <1>10 DEF ArenaInv, ArenaType, AllocsOK
<1>12. \A o \in Arenas : \A c \in allocs[o] : size'[c] = size[c]
  BY <1>4, <1>9 DEF ArenaInv, ArenaType
<1>13. PtrOK(a) /\ PtrOK(a)'
  <2>1. PtrOK(a) /\ Null0' = Null0
    BY DEF ArenaInv, Null0, Ptr
  <2>2. \A c \in Places(a) : c \in Places(a)' /\ Extent(c)' = Extent(c)
    BY <1>10, <1>12 DEF Places, Extent
  <2> QED BY <1>7, <2>1, <2>2 DEF PtrOK
<1>14. RegionOK(r)'
  <2>1. b \in Places(a)' /\ Extent(b)' = bytes
    BY <1>4, <1>9, <1>10 DEF Places, Extent
  <2>2. buffptr[a].block # b
    BY <1>4, <1>13, ArenaAssumption DEF PtrOK, Null0, Ptr
  <2> QED BY <1>3, <1>5, <1>7, <2>1, <2>2 DEF RegionOK
<1>15. \A q \in regions : q.owner = a => buffptr'[a].block # q.block \/ q.at + q.bytes <= buffptr'[a].at
  BY <1>7 DEF ArenaInv, RegionOK
<1>16. /\ \A o \in Arenas : o # a => buffptr'[o] = buffptr[o] /\ space'[o] = space[o] /\ allocs'[o] = allocs[o]
       /\ allocs[a] \subseteq allocs'[a]
       /\ \A q \in regions : q.block = r.block => q.at + q.bytes <= r.at
  BY <1>4, <1>5, <1>7, <1>10
<1> QED BY <1>5, <1>6, <1>7, <1>8, <1>11, <1>12, <1>13, <1>14, <1>15, <1>16, HandKeeps

LEMMA AllocBumpKeeps ==
    ASSUME ArenaInv, NEW a \in Arenas, NEW bytes \in Sizes, NEW align \in Aligns, AllocBump(a, bytes, align)
    PROVE  ArenaInv'
<1>1. PICK b, from, at : b = buffptr[a].block /\ from = buffptr[a].at /\ at = Aligned(from, align)
  OBVIOUS
<1>2. PICK r : r = Region(Ptr(b, at), bytes, align, a)
  OBVIOUS
<1>3. /\ buffptr[a] # Null0 /\ at + bytes <= from + space[a]
      /\ buffptr' = [buffptr EXCEPT ![a].at = at + bytes]
      /\ space' = [space EXCEPT ![a] = @ - (at - from) - bytes]
      /\ Hand(a, Ptr(b, at), bytes, align)
      /\ blockSize' = blockSize /\ allocs' = allocs /\ size' = size /\ view' = view
  BY <1>1 DEF AllocBump, Fits
<1>4. bytes \in Nat /\ align \in Nat \ {0} /\ from \in Nat /\ space[a] \in Nat
  BY <1>1, ArenaAssumption DEF ArenaInv, ArenaType
<1>5. at \in Nat /\ at >= from /\ at % align = 0
  BY <1>1, <1>4, AlignedIs
<1>6. b \in Places(a) /\ from + space[a] = Extent(b)
  BY <1>1, <1>3 DEF ArenaInv, PtrOK
<1>7. b \in Blocks \cup Arenas
  BY <1>6 DEF ArenaInv, ArenaType, Places
<1>8. /\ r.block = b /\ r.at = at /\ r.bytes = bytes /\ r.align = align /\ r.owner = a
      /\ r \in [block : Blocks \cup Arenas, at : Nat, bytes : Nat, align : Nat \ {0}, owner : Arenas]
  BY <1>2, <1>4, <1>5, <1>7, RegionIs
<1>9. regions' = regions \cup {r}
  BY <1>2, <1>3 DEF Hand
<1>10. buffptr'[a].block = b /\ buffptr'[a].at = at + bytes /\ buffptr'[a] \in [block : Blocks \cup Arenas \cup {Nowhere}, at : Nat]
       /\ \A o \in Arenas : o # a => buffptr'[o] = buffptr[o]
  BY <1>1, <1>3, <1>4, <1>5 DEF ArenaInv, ArenaType
<1>11. space'[a] = space[a] - (at - from) - bytes /\ space'[a] \in Nat
       /\ \A o \in Arenas : o # a => space'[o] = space[o]
  BY <1>3, <1>4, <1>5 DEF ArenaInv, ArenaType
<1>12. ArenaType'
  <2>1. buffptr' \in [Arenas -> [block : Blocks \cup Arenas \cup {Nowhere}, at : Nat]]
    BY <1>3, <1>4, <1>5 DEF ArenaInv, ArenaType
  <2>2. space' \in [Arenas -> Nat]
    BY <1>3, <1>11 DEF ArenaInv, ArenaType
  <2> QED BY <1>3, <1>8, <1>9, <2>1, <2>2 DEF ArenaInv, ArenaType
<1>13. AllocsOK'
  BY <1>3 DEF ArenaInv, AllocsOK
<1>14. \A c : Extent(c)' = Extent(c)
  BY <1>3 DEF Extent, StackSize
<1>15. \A o : Places(o)' = Places(o)
  BY <1>3 DEF Places
<1>16. PtrOK(a)'
  <2>1. at + bytes + space'[a] = Extent(b)
    BY <1>4, <1>5, <1>6, <1>11
  <2> QED BY <1>6, <1>10, <1>14, <1>15, <2>1 DEF PtrOK
<1>17. RegionOK(r)'
  BY <1>3, <1>4, <1>5, <1>6, <1>8, <1>10, <1>14, <1>15 DEF RegionOK
<1>18. ASSUME NEW q \in regions, q.block = b
       PROVE  q.at + q.bytes <= from
  <2>1. RegionOK(q) /\ q.owner \in Arenas
    BY DEF ArenaInv, ArenaType
  <2>2. q.owner = a
    BY <1>6, <1>18, <2>1, PlaceOwner DEF RegionOK
  <2> QED BY <1>1, <1>18, <2>1, <2>2 DEF RegionOK
<1>19. \A q \in regions : q.at \in Nat /\ q.bytes \in Nat
  BY DEF ArenaInv, ArenaType
<1>20. /\ \A q \in regions : q.block = r.block => q.at + q.bytes <= r.at
       /\ \A q \in regions : q.owner = a => buffptr'[a].block # q.block \/ q.at + q.bytes <= buffptr'[a].at
  BY <1>4, <1>5, <1>8, <1>10, <1>18, <1>19
<1>21. /\ \A o \in Arenas : o # a => buffptr'[o] = buffptr[o] /\ space'[o] = space[o] /\ allocs'[o] = allocs[o]
       /\ allocs[a] \subseteq allocs'[a] /\ \A o \in Arenas : \A c \in allocs[o] : size'[c] = size[c]
  BY <1>3, <1>10, <1>11
<1> QED BY <1>3, <1>8, <1>9, <1>12, <1>13, <1>16, <1>17, <1>20, <1>21, HandKeeps

LEMMA AllocNewBlockKeeps ==
    ASSUME ArenaInv, NEW a \in Arenas, NEW bytes \in Sizes, NEW align \in Aligns, AllocNewBlock(a, bytes, align)
    PROVE  ArenaInv'
<1>1. PICK b \in FreeBlocks :
          /\ size' = [size EXCEPT ![b] = blockSize[a]]
          /\ allocs' = [allocs EXCEPT ![a] = @ \cup {b}]
          /\ buffptr' = [buffptr EXCEPT ![a] = Ptr(b, bytes)]
          /\ space' = [space EXCEPT ![a] = blockSize[a] - bytes]
          /\ Hand(a, Ptr(b, 0), bytes, align)
  BY DEF AllocNewBlock
<1>2. PICK r : r = Region(Ptr(b, 0), bytes, align, a)
  OBVIOUS
<1>3. /\ bytes \in Nat /\ align \in Nat \ {0} /\ 0 % align = 0 /\ blockSize[a] \in Nat \ {0} /\ bytes <= blockSize[a]
      /\ blockSize' = blockSize /\ view' = view
  BY ArenaAssumption DEF AllocNewBlock, ArenaInv, ArenaType
<1>4. /\ b \in Blocks /\ b \notin Arenas /\ \A o \in Arenas : b \notin allocs[o] /\ b \notin Places(o)
      /\ \A q \in regions : q.block # b
  BY FreeIsFresh
<1>5. /\ r.block = b /\ r.at = 0 /\ r.bytes = bytes /\ r.align = align /\ r.owner = a
      /\ r \in [block : Blocks \cup Arenas, at : Nat, bytes : Nat, align : Nat \ {0}, owner : Arenas]
  BY <1>2, <1>3, <1>4, RegionIs
<1>6. regions' = regions \cup {r}
  BY <1>1, <1>2 DEF Hand
<1>7. /\ buffptr'[a] = Ptr(b, bytes) /\ space'[a] = blockSize[a] - bytes
      /\ \A o \in Arenas : o # a => buffptr'[o] = buffptr[o] /\ space'[o] = space[o]
  BY <1>1 DEF ArenaInv, ArenaType
<1>8. buffptr'[a].block = b /\ buffptr'[a].at = bytes
  BY <1>7 DEF Ptr
<1>9. ArenaType'
  <2>1. Ptr(b, bytes) \in [block : Blocks \cup Arenas \cup {Nowhere}, at : Nat]
    BY <1>3, <1>4 DEF Ptr
  <2>2. blockSize[a] - bytes \in Nat
    BY <1>3
  <2>3. buffptr' \in [Arenas -> [block : Blocks \cup Arenas \cup {Nowhere}, at : Nat]] /\ space' \in [Arenas -> Nat]
    BY <1>1, <2>1, <2>2 DEF ArenaInv, ArenaType
  <2> QED BY <1>1, <1>3, <1>4, <1>5, <1>6, <2>3 DEF ArenaInv, ArenaType
<1>10. size'[b] = blockSize[a] /\ \A c \in Blocks : c # b => size'[c] = size[c]
  BY <1>1, <1>4 DEF ArenaInv, ArenaType
<1>11. allocs'[a] = allocs[a] \cup {b} /\ \A o \in Arenas : o # a => allocs'[o] = allocs[o]
  BY <1>1 DEF ArenaInv, ArenaType
<1>12. AllocsOK'
  BY <1>3, <1>4, <1>10, <1>11 DEF ArenaInv, ArenaType, AllocsOK
<1>13. \A o \in Arenas : \A c \in allocs[o] : size'[c] = size[c]
  BY <1>4, <1>10 DEF ArenaInv, ArenaType
<1>14. b \in Places(a)' /\ Extent(b)' = blockSize[a]
  BY <1>4, <1>10, <1>11 DEF Places, Extent
<1>15. PtrOK(a)'
  BY <1>3, <1>7, <1>8, <1>14 DEF PtrOK
<1>16. RegionOK(r)'
  BY <1>3, <1>5, <1>8, <1>14 DEF RegionOK
<1>17. /\ \A o \in Arenas : o # a => buffptr'[o] = buffptr[o] /\ space'[o] = space[o] /\ allocs'[o] = allocs[o]
       /\ allocs[a] \subseteq allocs'[a]
       /\ \A q \in regions : q.block = r.block => q.at + q.bytes <= r.at
       /\ \A q \in regions : q.owner = a => buffptr'[a].block # q.block \/ q.at + q.bytes <= buffptr'[a].at
  BY <1>4, <1>5, <1>7, <1>8, <1>11
<1> QED BY <1>3, <1>5, <1>6, <1>9, <1>12, <1>13, <1>15, <1>16, <1>17, HandKeeps

\* What is left when the regions of one arena go, and nothing else changes for
\* the others.
LEMMA ClearKeeps ==
    ASSUME ArenaInv, NEW a \in Arenas, Clear(a)
    PROVE  ArenaInv'
<1>1. /\ regions' = Without(a) /\ size' = Freed(a) /\ blockSize' = blockSize
      /\ allocs' = [allocs EXCEPT ![a] = {}]
      /\ buffptr' = [buffptr EXCEPT ![a] = StackBuff(a)]
      /\ space' = [space EXCEPT ![a] = StackSize(a)]
      /\ view' = [view EXCEPT ![a] = Nowhere]
  BY DEF Clear
<1>2. /\ allocs'[a] = {} /\ buffptr'[a] = StackBuff(a) /\ space'[a] = StackSize(a) /\ view'[a] = Nowhere
      /\ \A o \in Arenas : o # a => /\ allocs'[o] = allocs[o] /\ buffptr'[o] = buffptr[o]
                                    /\ space'[o] = space[o] /\ view'[o] = view[o]
  BY <1>1 DEF ArenaInv, ArenaType
<1>3. StackBuff(a) \in [block : Blocks \cup Arenas \cup {Nowhere}, at : Nat] /\ StackSize(a) \in Nat
  BY ArenaAssumption DEF StackBuff, StackSize, Null0, Ptr
<1>4. size' \in [Blocks -> Nat] /\ \A b \in Blocks : b \notin allocs[a] => size'[b] = size[b]
  BY <1>1 DEF Freed, ArenaInv, ArenaType
<1>5. regions' \subseteq regions /\ \A r \in regions' : r.block \notin Owned(a)
  BY <1>1 DEF Without
<1>6. ArenaType'
  <2>1. allocs' \in [Arenas -> SUBSET Blocks] /\ space' \in [Arenas -> Nat]
        /\ buffptr' \in [Arenas -> [block : Blocks \cup Arenas \cup {Nowhere}, at : Nat]]
        /\ DOMAIN view' = Arenas
    BY <1>1, <1>3 DEF ArenaInv, ArenaType
  <2> QED BY <1>1, <1>4, <1>5, <2>1 DEF ArenaInv, ArenaType
<1>7. ASSUME NEW o \in Arenas, o # a
      PROVE  Places(o)' = Places(o) /\ \A b \in Places(o) : Extent(b)' = Extent(b) /\ b \notin Owned(a)
  <2>1. Places(o)' = Places(o)
    BY <1>2, <1>7 DEF Places
  <2>2. \A b \in Places(o) : b \notin Owned(a) /\ b \in Blocks \cup Arenas
    BY <1>7, PlaceOwner
  <2>3. \A b \in Places(o) : Extent(b)' = Extent(b)
    BY <1>4, <2>2 DEF Extent, Owned, StackSize
  <2> QED BY <2>1, <2>2, <2>3
<1>8. AllocsOK'
  <2>1. ASSUME NEW o \in Arenas, NEW b \in allocs'[o] PROVE size'[b] > 0
    BY <1>2, <1>4, <2>1 DEF ArenaInv, ArenaType, AllocsOK
  <2>2. \A p, o \in Arenas : p # o => allocs'[p] \cap allocs'[o] = {}
    BY <1>2 DEF ArenaInv, AllocsOK
  <2> QED BY <2>1, <2>2 DEF AllocsOK
<1>9. ASSUME NEW r \in regions'
      PROVE  r.owner # a /\ RegionOK(r)'
  <2>1. r \in regions /\ RegionOK(r) /\ r.owner \in Arenas
    BY <1>5 DEF ArenaInv, ArenaType
  <2>2. r.owner # a
    BY <1>5, <1>9, <2>1 DEF RegionOK, Places, Owned
  <2> QED BY <1>2, <1>7, <2>1, <2>2 DEF RegionOK
<1>10. ASSUME NEW o \in Arenas PROVE PtrOK(o)' /\ ViewOK(o)'
  <2>1. CASE o = a
    <3>1. PtrOK(a)'
      BY <1>2, ArenaAssumption DEF PtrOK, Places, Extent, StackBuff, StackSize, Ptr, Null0
    <3>2. ViewOK(a)'
      BY <1>2 DEF ViewOK
    <3> QED BY <2>1, <3>1, <3>2
  <2>2. CASE o # a
    <3>1. PtrOK(o) /\ ViewOK(o) /\ Null0' = Null0
      BY DEF ArenaInv, Null0, Ptr
    <3>2. PtrOK(o)'
      BY <1>2, <1>7, <2>2, <3>1 DEF PtrOK
    <3>3. ASSUME view[o] # Nowhere PROVE view[o] \in regions'
      <4>1. view[o] \in regions /\ view[o].owner = o /\ RegionOK(view[o])
        BY <3>1, <3>3 DEF ViewOK, ArenaInv
      <4>2. view[o].block \notin Owned(a)
        BY <1>7, <2>2, <4>1 DEF RegionOK
      <4> QED BY <1>1, <4>1, <4>2 DEF Without
    <3> QED BY <1>2, <2>2, <3>1, <3>2, <3>3 DEF ViewOK
  <2> QED BY <2>1, <2>2
<1>11. \A r, q \in regions' : Apart(r, q)'
  BY <1>5 DEF ArenaInv, Apart, Bytes
<1> QED BY <1>6, <1>8, <1>9, <1>10, <1>11 DEF ArenaInv

LEMMA SetBlockSizeKeeps ==
    ASSUME ArenaInv, NEW a \in Arenas, NEW n \in BlockSizes, SetBlockSize(a, n)
    PROVE  ArenaInv'
<1>1. UNCHANGED <<buffptr, space, allocs, size, regions, view>> /\ blockSize' = [blockSize EXCEPT ![a] = n]
  BY DEF SetBlockSize
<1>2. ArenaType'
  BY <1>1, ArenaAssumption DEF ArenaInv, ArenaType
<1> QED BY <1>1, <1>2 DEF ArenaInv, AllocsOK, PtrOK, ViewOK, RegionOK, Apart, Bytes, Places, Extent,
                          StackSize, Null0, Ptr

LEMMA SetViewKeeps ==
    ASSUME ArenaInv, NEW a \in Arenas, NEW r, SetView(a, r)
    PROVE  ArenaInv'
<1>1. /\ UNCHANGED <<buffptr, space, blockSize, allocs, size, regions>>
      /\ view' = [view EXCEPT ![a] = r] /\ r \in regions /\ r.owner = a
  BY DEF SetView
<1>2. ArenaType' /\ \A o \in Arenas : ViewOK(o)'
  BY <1>1 DEF ArenaInv, ArenaType, ViewOK
<1>3. AllocsOK' /\ (\A o \in Arenas : PtrOK(o)') /\ \A q \in regions' : RegionOK(q)'
  BY <1>1 DEF ArenaInv, AllocsOK, PtrOK, RegionOK, Places, Extent, StackSize, Null0, Ptr
<1>4. \A q, p \in regions' : Apart(q, p)'
  BY <1>1 DEF ArenaInv, Apart, Bytes
<1> QED BY <1>2, <1>3, <1>4 DEF ArenaInv

\* What a move makes of a region.
Given(r, o, a) == IF r.owner = o THEN [r EXCEPT !.owner = a] ELSE r

\* The members of it, as one fact.
GivenOK(g, r, o, a) ==
    /\ g.block = r.block /\ g.at = r.at /\ g.bytes = r.bytes /\ g.align = r.align
    /\ g.owner = IF r.owner = o THEN a ELSE r.owner
    /\ g \in [block : Blocks \cup Arenas, at : Nat, bytes : Nat, align : Nat \ {0}, owner : Arenas]

LEMMA GivenIs ==
    ASSUME ArenaInv, NEW a \in Arenas, NEW o \in Arenas, NEW r \in regions, NEW g, g = Given(r, o, a)
    PROVE  GivenOK(g, r, o, a)
BY DEF ArenaInv, ArenaType, Given, GivenOK

LEMMA MoveIntoKeeps ==
    ASSUME ArenaInv, NEW a \in Arenas, NEW o \in Arenas, MoveInto(a, o)
    PROVE  ArenaInv'
<1>1. /\ a # o /\ a \notin Stacked /\ o \notin Stacked
      /\ buffptr' = [buffptr EXCEPT ![a] = buffptr[o], ![o] = Null0]
      /\ space' = [space EXCEPT ![a] = space[o], ![o] = 0]
      /\ blockSize' = [blockSize EXCEPT ![a] = blockSize[o]]
      /\ allocs' = [allocs EXCEPT ![a] = allocs[o], ![o] = {}]
      /\ size' = Freed(a)
      /\ regions' = {Given(r, o, a) : r \in Without(a)}
      /\ view' = [view EXCEPT ![a] = IF view[o] = Nowhere THEN Nowhere ELSE [view[o] EXCEPT !.owner = a],
                              ![o] = Nowhere]
  BY DEF MoveInto, Given
<1>2. /\ allocs'[a] = allocs[o] /\ allocs'[o] = {}
      /\ buffptr'[a] = buffptr[o] /\ buffptr'[o] = Null0
      /\ space'[a] = space[o] /\ view'[o] = Nowhere
      /\ view'[a] = IF view[o] = Nowhere THEN Nowhere ELSE [view[o] EXCEPT !.owner = a]
  BY <1>1 DEF ArenaInv, ArenaType
<1>3. \A p \in Arenas : p \notin {a, o} => /\ allocs'[p] = allocs[p] /\ buffptr'[p] = buffptr[p]
                                           /\ space'[p] = space[p] /\ view'[p] = view[p]
  BY <1>1 DEF ArenaInv, ArenaType
<1>4. size' \in [Blocks -> Nat] /\ \A b \in Blocks : b \notin allocs[a] => size'[b] = size[b]
  BY <1>1 DEF Freed, ArenaInv, ArenaType
<1>5. \A b : b \in Without(a) => b \in regions /\ b.block \notin Owned(a)
  BY DEF Without
<1>6. ASSUME NEW g \in regions'
      PROVE  \E r \in regions :
                 /\ r.block \notin Owned(a) /\ g = Given(r, o, a)
                 /\ g.block = r.block /\ g.at = r.at /\ g.bytes = r.bytes /\ g.align = r.align
                 /\ g.owner = IF r.owner = o THEN a ELSE r.owner
                 /\ g \in [block : Blocks \cup Arenas, at : Nat, bytes : Nat, align : Nat \ {0}, owner : Arenas]
  <2>1. PICK r \in Without(a) : g = Given(r, o, a)
    BY <1>1, <1>6
  <2>2. r \in regions /\ r.block \notin Owned(a)
    BY <1>5
  <2>3. GivenOK(g, r, o, a)
    BY <2>1, <2>2, GivenIs
  <2> QED BY <2>1, <2>2, <2>3 DEF GivenOK
<1>7. Null0 \in [block : Blocks \cup Arenas \cup {Nowhere}, at : Nat] /\ Null0' = Null0
  BY DEF Null0, Ptr
<1>8. ArenaType'
  <2>1. allocs' \in [Arenas -> SUBSET Blocks] /\ space' \in [Arenas -> Nat]
        /\ buffptr' \in [Arenas -> [block : Blocks \cup Arenas \cup {Nowhere}, at : Nat]]
        /\ blockSize' \in [Arenas -> Nat \ {0}] /\ DOMAIN view' = Arenas
    BY <1>1, <1>7 DEF ArenaInv, ArenaType
  <2> QED BY <1>4, <1>6, <2>1 DEF ArenaType
<1>9. /\ Places(a)' = Places(o) /\ Places(o)' = {}
      /\ \A p \in Arenas : p \notin {a, o} => Places(p)' = Places(p)
  BY <1>1, <1>2, <1>3 DEF Places
<1>10. ASSUME NEW p \in Arenas, p # a
       PROVE  \A b \in Places(p) : b \notin Owned(a) /\ Extent(b)' = Extent(b)
  <2>1. \A b \in Places(p) : b \notin Owned(a) /\ b \in Blocks \cup Arenas
    BY <1>10, PlaceOwner
  <2> QED BY <1>4, <2>1 DEF Extent, Owned, StackSize
<1>11. AllocsOK'
  <2>1. ASSUME NEW p \in Arenas, NEW b \in allocs'[p] PROVE size'[b] > 0
    <3>1. PICK q \in Arenas : q # a /\ b \in allocs[q]
      BY <1>1, <1>2, <1>3, <2>1
    <3>2. b \in Blocks /\ b \notin allocs[a] /\ size[b] > 0
      BY <3>1 DEF ArenaInv, ArenaType, AllocsOK
    <3> QED BY <1>4, <3>2
  <2>2. \A p, q \in Arenas : p # q => allocs'[p] \cap allocs'[q] = {}
    <3>1. \A p, q \in Arenas : p # q => allocs[p] \cap allocs[q] = {}
      BY DEF ArenaInv, AllocsOK
    <3>2. ASSUME NEW q \in Arenas, q # a PROVE allocs'[a] \cap allocs'[q] = {}
      BY <1>1, <1>2, <1>3, <3>1, <3>2
    <3>3. ASSUME NEW p \in Arenas, NEW q \in Arenas, p # q, p # a, q # a
          PROVE  allocs'[p] \cap allocs'[q] = {}
      BY <1>2, <1>3, <3>1, <3>3
    <3> QED BY <3>2, <3>3
  <2> QED BY <2>1, <2>2 DEF AllocsOK
<1>12. ASSUME NEW g \in regions' PROVE RegionOK(g)'
  <2>1. PICK r \in regions :
            /\ r.block \notin Owned(a)
            /\ g.block = r.block /\ g.at = r.at /\ g.bytes = r.bytes /\ g.align = r.align
            /\ g.owner = IF r.owner = o THEN a ELSE r.owner
    BY <1>6
  <2>2. RegionOK(r) /\ r.owner \in Arenas
    BY DEF ArenaInv, ArenaType
  <2>3. r.owner # a
    BY <2>1, <2>2 DEF RegionOK, Places, Owned
  <2>4. Extent(r.block)' = Extent(r.block)
    BY <1>10, <2>2, <2>3 DEF RegionOK
  <2>5. CASE r.owner = o
    BY <1>2, <1>9, <2>1, <2>2, <2>4, <2>5 DEF RegionOK
  <2>6. CASE r.owner # o
    BY <1>3, <1>9, <2>1, <2>2, <2>3, <2>4, <2>6 DEF RegionOK
  <2> QED BY <2>5, <2>6
<1>13. ASSUME NEW p \in Arenas PROVE PtrOK(p)'
  <2>1. CASE p = o
    BY <1>2, <1>7, <2>1 DEF PtrOK
  <2>2. CASE p = a
    <3>1. PtrOK(o)
      BY DEF ArenaInv
    <3> QED BY <1>1, <1>2, <1>7, <1>9, <1>10, <2>2, <3>1 DEF PtrOK
  <2>3. CASE p \notin {a, o}
    <3>1. PtrOK(p)
      BY DEF ArenaInv
    <3> QED BY <1>3, <1>7, <1>9, <1>10, <2>3, <3>1 DEF PtrOK
  <2> QED BY <2>1, <2>2, <2>3
<1>14. ASSUME NEW p \in Arenas, p # a, view[p] # Nowhere
       PROVE  view[p] \in regions /\ view[p].owner = p /\ Given(view[p], o, a) \in regions'
  <2>1. view[p] \in regions /\ view[p].owner = p /\ RegionOK(view[p])
    BY <1>14 DEF ArenaInv, ViewOK
  <2>2. view[p].block \notin Owned(a)
    BY <1>10, <1>14, <2>1 DEF RegionOK
  <2>3. view[p] \in Without(a)
    BY <2>1, <2>2 DEF Without
  <2> QED BY <1>1, <2>1, <2>3
<1>15. ASSUME NEW p \in Arenas PROVE ViewOK(p)'
  <2>1. CASE p = o
    BY <1>2, <2>1 DEF ViewOK
  <2>2. CASE p = a
    <3>1. CASE view[o] = Nowhere
      BY <1>2, <2>2, <3>1 DEF ViewOK
    <3>2. CASE view[o] # Nowhere
      <4>1. view[o] \in regions /\ view[o].owner = o /\ Given(view[o], o, a) \in regions'
        BY <1>1, <1>14, <3>2
      <4>2. view'[a] = Given(view[o], o, a)
        BY <1>2, <3>2, <4>1 DEF Given
      <4>3. Given(view[o], o, a).owner = a
        <5>1. PICK r \in regions : r = view[o]
          BY <4>1
        <5>2. PICK g : g = Given(r, o, a)
          OBVIOUS
        <5>3. GivenOK(g, r, o, a)
          BY <5>2, GivenIs
        <5> QED BY <4>1, <5>1, <5>2, <5>3 DEF GivenOK
      <4> QED BY <2>2, <4>1, <4>2, <4>3 DEF ViewOK
    <3> QED BY <3>1, <3>2
  <2>3. CASE p \notin {a, o}
    <3>1. CASE view[p] # Nowhere
      <4>1. view[p] \in regions /\ view[p].owner = p /\ Given(view[p], o, a) \in regions'
        BY <1>14, <2>3, <3>1
      <4>2. Given(view[p], o, a) = view[p]
        BY <2>3, <4>1 DEF Given
      <4> QED BY <1>3, <2>3, <4>1, <4>2 DEF ViewOK
    <3>2. CASE view[p] = Nowhere
      BY <1>3, <2>3, <3>2 DEF ViewOK
    <3> QED BY <3>1, <3>2
  <2> QED BY <2>1, <2>2, <2>3
<1>16. ASSUME NEW g \in regions', NEW h \in regions', g # h, g.block = h.block
       PROVE  Bytes(g) \cap Bytes(h) = {}
  <2>1. PICK r \in regions : g = Given(r, o, a) /\ g.block = r.block /\ g.at = r.at /\ g.bytes = r.bytes
    BY <1>6
  <2>2. PICK q \in regions : h = Given(q, o, a) /\ h.block = q.block /\ h.at = q.at /\ h.bytes = q.bytes
    BY <1>6
  <2>3. r # q /\ r.block = q.block
    BY <1>16, <2>1, <2>2
  <2>4. Bytes(r) \cap Bytes(q) = {}
    BY <2>3 DEF ArenaInv, Apart
  <2> QED BY <2>1, <2>2, <2>4 DEF Bytes
<1>17. \A g, h \in regions' : Apart(g, h)'
  BY <1>16 DEF Apart, Bytes
<1> QED BY <1>8, <1>11, <1>12, <1>13, <1>15, <1>17 DEF ArenaInv

LEMMA ArenaStepInv == ArenaInv /\ [ArenaNext]_arenaVars => ArenaInv'
<1>1. SUFFICES ASSUME ArenaInv, [ArenaNext]_arenaVars PROVE ArenaInv'
  OBVIOUS
<1>2. CASE UNCHANGED arenaVars
  BY <1>1, <1>2 DEF arenaVars, ArenaInv, ArenaType, AllocsOK, PtrOK, ViewOK, RegionOK, Apart, Bytes, Places,
                    Extent, StackSize, Null0, Ptr
<1>3. ASSUME NEW a \in Arenas, NEW bytes \in Sizes, NEW align \in Aligns, DoAlloc(a, bytes, align)
      PROVE  ArenaInv'
  BY <1>1, <1>3, AllocOwnKeeps, AllocBumpKeeps, AllocNewBlockKeeps DEF DoAlloc
<1>4. ASSUME NEW a \in Arenas, Clear(a) \/ \E r \in regions : SetView(a, r)
      PROVE  ArenaInv'
  BY <1>1, <1>4, ClearKeeps, SetViewKeeps
<1>5. ASSUME NEW a \in Arenas, NEW n \in BlockSizes, SetBlockSize(a, n)
      PROVE  ArenaInv'
  BY <1>1, <1>5, SetBlockSizeKeeps
<1>6. ASSUME NEW a \in Arenas, NEW o \in Arenas, MoveInto(a, o)
      PROVE  ArenaInv'
  BY <1>1, <1>6, MoveIntoKeeps
<1> QED BY <1>1, <1>2, <1>3, <1>4, <1>5, <1>6 DEF ArenaNext

\* What an arena hands out is aligned, inside of memory that is its own and still
\* allocated, and overlaps nothing that was or will be handed out; documents
\* point into live memory (alloc.hpp, DoAllocate, Clear and the move of Json): for
\* any arenas, blocks, requests and block sizes, and any number of regions.
THEOREM ArenaKeepsApart == ArenaInit /\ [][ArenaNext]_arenaVars => []RegionsDisjoint
<1>1. ArenaInv => RegionsDisjoint
  <2>1. SUFFICES ASSUME ArenaInv PROVE RegionsDisjoint
    OBVIOUS
  <2>2. \A a \in Arenas : Places(a) \subseteq Owned(a)
    BY DEF Places, Owned
  <2>3. ASSUME NEW r \in regions
        PROVE  /\ r.at % r.align = 0 /\ r.block \in Owned(r.owner)
               /\ r.at + r.bytes <= Extent(r.block)
               /\ buffptr[r.owner].block = r.block => r.at + r.bytes <= buffptr[r.owner].at
    BY <2>1, <2>2 DEF ArenaInv, ArenaType, RegionOK
  <2>4. \A r, q \in regions : r # q /\ r.block = q.block => Bytes(r) \cap Bytes(q) = {}
    BY <2>1 DEF ArenaInv, Apart
  <2>5. ASSUME NEW a \in Arenas
        PROVE  /\ view[a] # Nowhere => view[a] \in regions
               /\ buffptr[a] # Null0 =>
                     buffptr[a].block \in Owned(a) /\ buffptr[a].at + space[a] = Extent(buffptr[a].block)
    BY <2>1, <2>2 DEF ArenaInv, PtrOK, ViewOK
  <2>6. \A a, o \in Arenas : a # o => allocs[a] \cap allocs[o] = {}
    BY <2>1 DEF ArenaInv, AllocsOK
  <2> QED BY <2>3, <2>4, <2>5, <2>6 DEF RegionsDisjoint
<1> QED BY <1>1, ArenaInitInv, ArenaStepInv, PTL

-----------------------------------------------------------------------------
(* Objects.  A sorted array is read as the set of its entries: SortedInsert and *)
(* EraseKey do to the set what a map does, and sortedFind finds in the array    *)
(* what is in the set.                                                          *)

\* A set of natural numbers has a least element, by the library's well-founded order.
LEMMA LeastElement ==
    ASSUME NEW T, T \subseteq Nat, T # {}
    PROVE  \E x \in T : \A y \in T : x <= y
<1>1. PICK R : R = OpToRel(<, Nat)
  OBVIOUS
<1>2. IsWellFoundedOn(R, Nat)
  BY <1>1, NatLessThanWellFounded
<1>3. \A a, b \in Nat : a < b => <<a, b>> \in R
  BY <1>1 DEF OpToRel
<1>4. PICK x \in T : \A y \in T : ~ (<<y, x>> \in R)
  BY <1>2, WFMin
<1>5. \A y \in T : ~(y < x)
  BY <1>3, <1>4
<1> QED BY <1>5

\* A key is a sequence of bytes.
KeySet == Seq(Nat)

\* a comes before b because of the byte at p, or because it ends before p.
LessAt(a, b, p) ==
    /\ \A j \in 1 .. p - 1 : a[j] = b[j]
    /\ p <= Len(b)
    /\ p = Len(a) + 1 \/ (p <= Len(a) /\ a[p] < b[p])

LEMMA KeyLessIs ==
    ASSUME NEW a \in KeySet, NEW b \in KeySet
    PROVE  KeyLess(a, b) <=> \E p \in Nat \ {0} : LessAt(a, b, p)
<1>1. PICK m, n \in Nat : m = Len(a) /\ n = Len(b) /\ DOMAIN a = 1 .. m /\ DOMAIN b = 1 .. n
  BY DEF KeySet
<1>2. ASSUME NEW p \in Nat \ {0}, LessAt(a, b, p) PROVE KeyLess(a, b)
  <2>1. CASE p = m + 1
    BY <1>1, <1>2, <2>1 DEF LessAt, KeyLess
  <2>2. CASE p <= m /\ a[p] < b[p]
    BY <1>1, <1>2, <2>2 DEF LessAt, KeyLess
  <2> QED BY <1>1, <1>2, <2>1, <2>2 DEF LessAt
<1>3. ASSUME KeyLess(a, b) PROVE \E p \in Nat \ {0} : LessAt(a, b, p)
  <2>1. CASE m < n /\ \A i \in 1 .. m : a[i] = b[i]
    <3>1. m + 1 \in Nat \ {0} /\ LessAt(a, b, m + 1)
      BY <1>1, <2>1 DEF LessAt
    <3> QED BY <3>1
  <2>2. ASSUME NEW i \in 1 .. m \cap 1 .. n, a[i] < b[i], \A j \in 1 .. i - 1 : a[j] = b[j]
        PROVE  \E p \in Nat \ {0} : LessAt(a, b, p)
    <3>1. i \in Nat \ {0} /\ LessAt(a, b, i)
      BY <1>1, <2>2 DEF LessAt
    <3> QED BY <3>1
  <2> QED BY <1>1, <1>3, <2>1, <2>2 DEF KeyLess
<1> QED BY <1>2, <1>3

LEMMA KeyLessIrreflexive ==
    ASSUME NEW a \in KeySet
    PROVE  ~KeyLess(a, a)
<1>1. PICK m \in Nat : m = Len(a) /\ DOMAIN a = 1 .. m /\ \A i \in 1 .. m : a[i] \in Nat
  BY DEF KeySet
<1> QED BY <1>1 DEF KeyLess

LEMMA KeyLessTransitive ==
    ASSUME NEW a \in KeySet, NEW b \in KeySet, NEW c \in KeySet, KeyLess(a, b), KeyLess(b, c)
    PROVE  KeyLess(a, c)
<1>1. PICK la, lb, lc \in Nat : la = Len(a) /\ lb = Len(b) /\ lc = Len(c)
  BY DEF KeySet
<1>2. /\ \A i \in 1 .. la : a[i] \in Nat
      /\ \A i \in 1 .. lb : b[i] \in Nat
      /\ \A i \in 1 .. lc : c[i] \in Nat
  BY <1>1 DEF KeySet
<1>3. PICK p \in Nat \ {0} : LessAt(a, b, p)
  BY KeyLessIs
<1>4. PICK q \in Nat \ {0} : LessAt(b, c, q)
  BY KeyLessIs
<1>5. CASE p < q
  <2>1. LessAt(a, c, p)
    BY <1>1, <1>2, <1>3, <1>4, <1>5 DEF LessAt
  <2> QED BY <2>1, KeyLessIs
<1>6. CASE q < p
  <2>1. LessAt(a, c, q)
    BY <1>1, <1>2, <1>3, <1>4, <1>6 DEF LessAt
  <2> QED BY <2>1, KeyLessIs
<1>7. CASE p = q
  <2>1. LessAt(a, c, p)
    BY <1>1, <1>2, <1>3, <1>4, <1>7 DEF LessAt
  <2> QED BY <2>1, KeyLessIs
<1> QED BY <1>5, <1>6, <1>7

\* Two keys are equal, or one comes before the other.
LEMMA KeyLessTotal ==
    ASSUME NEW a \in KeySet, NEW b \in KeySet
    PROVE  KeyLess(a, b) \/ a = b \/ KeyLess(b, a)
<1>1. PICK m, n \in Nat : m = Len(a) /\ n = Len(b)
  BY DEF KeySet
<1>2. (\A i \in 1 .. m : a[i] \in Nat) /\ (\A i \in 1 .. n : b[i] \in Nat)
  BY <1>1 DEF KeySet
<1>3. PICK T : T = {p \in Nat \ {0} : p > m \/ p > n \/ a[p] # b[p]}
  OBVIOUS
<1>4. T \subseteq Nat /\ m + 1 \in T
  BY <1>3
<1>5. PICK p \in T : \A y \in T : p <= y
  BY <1>4, LeastElement
<1>6. p \in Nat \ {0} /\ (p > m \/ p > n \/ a[p] # b[p]) /\ p <= m + 1
  BY <1>3, <1>4, <1>5
<1>7. p <= n + 1
  <2>1. n + 1 \in T
    BY <1>3
  <2> QED BY <1>5, <2>1
<1>8. \A j \in 1 .. p - 1 : a[j] = b[j]
  <2> SUFFICES ASSUME NEW j \in 1 .. p - 1, a[j] # b[j] PROVE FALSE
    OBVIOUS
  <2>1. j \in T /\ j < p
    BY <1>3, <1>6
  <2> QED BY <1>5, <1>6, <2>1, <1>4
<1>9. CASE p = m + 1 /\ p = n + 1
  <2>1. m = n
    BY <1>9
  <2>2. a = b
    <3>1. a \in Seq(Nat) /\ b \in Seq(Nat)
      BY DEF KeySet
    <3>2. Len(a) = Len(b) /\ \A i \in 1 .. Len(a) : a[i] = b[i]
      BY <1>1, <1>8, <1>9, <2>1
    <3> QED BY <3>1, <3>2, SeqEqual
  <2> QED BY <2>2
<1>10. CASE p = m + 1 /\ p <= n
  <2>1. LessAt(a, b, p)
    BY <1>1, <1>8, <1>10 DEF LessAt
  <2> QED BY <1>6, <2>1, KeyLessIs
<1>11. CASE p <= m /\ p = n + 1
  <2>1. LessAt(b, a, p)
    BY <1>1, <1>8, <1>11 DEF LessAt
  <2> QED BY <1>6, <2>1, KeyLessIs
<1>12. CASE p <= m /\ p <= n
  <2>1. a[p] # b[p] /\ a[p] \in Nat /\ b[p] \in Nat
    BY <1>2, <1>6, <1>12
  <2>2. LessAt(a, b, p) \/ LessAt(b, a, p)
    BY <1>1, <1>8, <1>12, <2>1 DEF LessAt
  <2> QED BY <1>6, <2>2, KeyLessIs
<1> QED BY <1>6, <1>7, <1>9, <1>10, <1>11, <1>12

\* Every entry is behind those with smaller keys; so it is the only one with its key.
Sorted(pairs) == \A i, j \in DOMAIN pairs : i < j => KeyLess(Key(pairs[i]), Key(pairs[j]))

\* The objects with values from V, and what such an object says.
Objects(V) == {pairs \in Seq(KeySet \X V) : Sorted(pairs)}
Entries(pairs) == {pairs[i] : i \in DOMAIN pairs}

LEMMA ObjectIs ==
    ASSUME NEW V, NEW pairs \in Objects(V)
    PROVE  /\ pairs \in Seq(KeySet \X V) /\ Len(pairs) \in Nat /\ DOMAIN pairs = 1 .. Len(pairs)
           /\ \A i \in 1 .. Len(pairs) : pairs[i] \in KeySet \X V /\ Key(pairs[i]) \in KeySet
           /\ \A i, j \in 1 .. Len(pairs) : i < j => KeyLess(Key(pairs[i]), Key(pairs[j]))
<1>1. pairs \in Seq(KeySet \X V) /\ Sorted(pairs)
  BY DEF Objects
<1>2. Len(pairs) \in Nat /\ DOMAIN pairs = 1 .. Len(pairs) /\ \A i \in 1 .. Len(pairs) : pairs[i] \in KeySet \X V
  BY <1>1
<1>3. \A i \in 1 .. Len(pairs) : Key(pairs[i]) \in KeySet
  BY <1>2 DEF Key
<1> QED BY <1>1, <1>2, <1>3 DEF Sorted

\* Where the keys that are less than a key end.
LEMMA LowerBound ==
    ASSUME NEW V, NEW pairs \in Objects(V), NEW key \in KeySet
    PROVE  \E m \in 0 .. Len(pairs) :
              {i \in DOMAIN pairs : KeyLess(Key(pairs[i]), key)} = 1 .. m
<1>1. PICK n \in Nat : n = Len(pairs)
  BY ObjectIs
<1>2. /\ DOMAIN pairs = 1 .. n
      /\ \A i \in 1 .. n : Key(pairs[i]) \in KeySet
      /\ \A i, j \in 1 .. n : i < j => KeyLess(Key(pairs[i]), Key(pairs[j]))
  BY <1>1, ObjectIs
<1>3. PICK T : T = {i \in 1 .. n + 1 : i \in 1 .. n => ~KeyLess(Key(pairs[i]), key)}
  OBVIOUS
<1>4. T \subseteq Nat /\ n + 1 \in T
  BY <1>3
<1>5. PICK x \in T : \A y \in T : x <= y
  BY <1>4, LeastElement
<1>6. x \in 1 .. n + 1 /\ (x \in 1 .. n => ~KeyLess(Key(pairs[x]), key))
  BY <1>3, <1>5
<1>7. ASSUME NEW i \in 1 .. n PROVE KeyLess(Key(pairs[i]), key) <=> i < x
  <2>1. ASSUME i < x, ~KeyLess(Key(pairs[i]), key) PROVE FALSE
    <3>1. i \in T
      BY <1>3, <1>7, <2>1
    <3> QED BY <1>5, <1>6, <2>1, <3>1
  <2>2. ASSUME x < i, KeyLess(Key(pairs[i]), key) PROVE FALSE
    <3>1. x \in 1 .. n /\ KeyLess(Key(pairs[x]), Key(pairs[i]))
      BY <1>2, <1>6, <1>7, <2>2
    <3>2. KeyLess(Key(pairs[x]), key)
      BY <1>2, <1>7, <2>2, <3>1, KeyLessTransitive
    <3> QED BY <1>6, <3>1, <3>2
  <2> QED BY <1>6, <1>7, <2>1, <2>2
<1>8. {i \in DOMAIN pairs : KeyLess(Key(pairs[i]), key)} = 1 .. x - 1
  BY <1>2, <1>6, <1>7
<1> QED BY <1>1, <1>6, <1>8

\* Concatenation, InsertAt and RemoveAt.
Concatenated(t, x, w, S) ==
    \E m, n \in Nat :
        /\ m = Len(x) /\ n = Len(w)
        /\ t \in Seq(S) /\ Len(t) = m + n
        /\ \A i \in 1 .. m : t[i] = x[i]
        /\ \A i \in m + 1 .. m + n : t[i] = w[i - m]

Inserted(t, s, pos, e, S) ==
    /\ t \in Seq(S) /\ Len(t) = Len(s) + 1 /\ t[pos] = e
    /\ \A i \in 1 .. pos - 1 : t[i] = s[i]
    /\ \A i \in pos .. Len(s) : t[i + 1] = s[i]

LEMMA ConcatIs ==
    ASSUME NEW S, NEW x \in Seq(S), NEW w \in Seq(S), NEW t, t = x \o w
    PROVE  Concatenated(t, x, w, S)
<1>1. /\ x \o w \in Seq(S) /\ Len(x \o w) = Len(x) + Len(w)
      /\ \A i \in 1 .. Len(x) + Len(w) : (x \o w)[i] = IF i <= Len(x) THEN x[i] ELSE w[i - Len(x)]
  BY ConcatProperties
<1>2. PICK m, n \in Nat : m = Len(x) /\ n = Len(w)
  OBVIOUS
<1>3. \A i \in 1 .. m : t[i] = x[i]
  BY <1>1, <1>2
<1>4. \A i \in m + 1 .. m + n : t[i] = w[i - m]
  BY <1>1, <1>2
<1> QED BY <1>1, <1>2, <1>3, <1>4 DEF Concatenated

LEMMA InsertAtIs ==
    ASSUME NEW S, NEW s \in Seq(S), NEW pos \in 1 .. Len(s) + 1, NEW e \in S, NEW t, t = InsertAt(s, pos, e)
    PROVE  Inserted(t, s, pos, e, S)
<1>1. PICK n \in Nat : n = Len(s)
  OBVIOUS
<1>2. PICK u, v, w : u = SubSeq(s, 1, pos - 1) /\ v = <<e>> /\ w = SubSeq(s, pos, n)
  OBVIOUS
<1>3. u \in Seq(S) /\ Len(u) = pos - 1 /\ \A i \in 1 .. pos - 1 : u[i] = s[i]
  <2>1. \A i \in 1 .. pos - 1 : s[i] \in S
    BY <1>1
  <2> QED BY <1>1, <1>2, <2>1, SubSeqProperties
<1>4. w \in Seq(S) /\ Len(w) = n - pos + 1 /\ \A i \in 1 .. n - pos + 1 : w[i] = s[pos + i - 1]
  <2>1. \A i \in pos .. n : s[i] \in S
    BY <1>1
  <2> QED BY <1>1, <1>2, <2>1, SubSeqProperties
<1>5. v \in Seq(S) /\ Len(v) = 1 /\ v[1] = e
  BY <1>2
<1>6. PICK x : x = u \o v
  OBVIOUS
<1>7. /\ x \in Seq(S) /\ Len(x) = pos /\ x[pos] = e
      /\ \A i \in 1 .. pos - 1 : x[i] = s[i]
  <2>1. /\ x \in Seq(S) /\ Len(x) = Len(u) + Len(v)
        /\ \A i \in 1 .. Len(u) + Len(v) : x[i] = IF i <= Len(u) THEN u[i] ELSE v[i - Len(u)]
    BY <1>3, <1>5, <1>6, ConcatProperties
  <2> QED BY <1>1, <1>3, <1>5, <2>1
<1>8. t = x \o w
  BY <1>1, <1>2, <1>6 DEF InsertAt
<1>9. /\ t \in Seq(S) /\ Len(t) = pos + (n - pos + 1)
      /\ \A i \in 1 .. pos : t[i] = x[i]
      /\ \A i \in pos + 1 .. pos + (n - pos + 1) : t[i] = w[i - pos]
  <2>1. PICK k, l \in Nat :
           /\ k = Len(x) /\ l = Len(w)
           /\ t \in Seq(S) /\ Len(t) = k + l
           /\ \A i \in 1 .. k : t[i] = x[i]
           /\ \A i \in k + 1 .. k + l : t[i] = w[i - k]
    <3>1. Concatenated(t, x, w, S)
      BY <1>4, <1>7, <1>8, ConcatIs
    <3> QED BY <3>1 DEF Concatenated
  <2> QED BY <1>4, <1>7, <2>1
<1>10. ASSUME NEW i \in pos .. n PROVE t[i + 1] = s[i]
  <2>0. i + 1 \in pos + 1 .. pos + (n - pos + 1)
    BY <1>1, <1>10
  <2>1. t[i + 1] = w[i + 1 - pos]
    BY <1>9, <2>0
  <2>2. i + 1 - pos \in 1 .. n - pos + 1 /\ pos + (i + 1 - pos) - 1 = i
    BY <1>1, <1>10
  <2> QED BY <1>4, <2>1, <2>2
<1>11. Len(t) = n + 1 /\ t[pos] = e /\ \A i \in 1 .. pos - 1 : t[i] = s[i]
  <2>1. pos \in 1 .. pos /\ \A i \in 1 .. pos - 1 : i \in 1 .. pos
    BY <1>1
  <2>2. pos + (n - pos + 1) = n + 1
    BY <1>1
  <2> QED BY <1>7, <1>9, <2>1, <2>2
<1> QED BY <1>1, <1>9, <1>10, <1>11 DEF Inserted

LEMMA RemoveAtIs ==
    ASSUME NEW S, NEW s \in Seq(S), NEW k \in Nat, k < Len(s), NEW pos, pos = k + 1, NEW t, t = RemoveAt(s, pos)
    PROVE  /\ t \in Seq(S) /\ Len(t) = Len(s) - 1
           /\ \A i \in 1 .. k : t[i] = s[i]
           /\ \A i \in k + 1 .. Len(s) - 1 : t[i] = s[i + 1]
<1>1. PICK n \in Nat : n = Len(s)
  OBVIOUS
<1>2. PICK u, w : u = SubSeq(s, 1, k) /\ w = SubSeq(s, k + 2, n)
  OBVIOUS
<1>3. u \in Seq(S) /\ Len(u) = k /\ \A i \in 1 .. k : u[i] = s[i]
  <2>1. \A i \in 1 .. k : s[i] \in S
    BY <1>1
  <2> QED BY <1>1, <1>2, <2>1, SubSeqProperties
<1>4. w \in Seq(S) /\ Len(w) = n - k - 1 /\ \A i \in 1 .. n - k - 1 : w[i] = s[k + 1 + i]
  <2>1. \A i \in k + 2 .. n : s[i] \in S
    BY <1>1
  <2>2. /\ w \in Seq(S) /\ Len(w) = IF k + 2 <= n THEN n - (k + 2) + 1 ELSE 0
        /\ \A i \in 1 .. n - (k + 2) + 1 : w[i] = s[(k + 2) + i - 1]
    BY <1>1, <1>2, <2>1, SubSeqProperties
  <2>3. n - (k + 2) + 1 = n - k - 1 /\ \A i \in 1 .. n - k - 1 : (k + 2) + i - 1 = k + 1 + i
    BY <1>1
  <2>4. \A i \in 1 .. n - k - 1 : w[i] = s[k + 1 + i]
    BY <2>2, <2>3
  <2> QED BY <1>1, <2>2, <2>4
<1>5. t = u \o w
  <2>1. t = SubSeq(s, 1, pos - 1) \o SubSeq(s, pos + 1, Len(s))
    BY DEF RemoveAt
  <2>2. u = SubSeq(s, 1, pos - 1) /\ w = SubSeq(s, pos + 1, Len(s))
    BY <1>1, <1>2
  <2> QED BY <2>1, <2>2
<1>6. PICK l \in Nat : l = n - k - 1
  BY <1>1
<1>7. /\ t \in Seq(S) /\ Len(t) = k + l
      /\ \A i \in 1 .. k : t[i] = u[i]
      /\ \A i \in k + 1 .. k + l : t[i] = w[i - k]
  <2>1. u \in Seq(S) /\ w \in Seq(S) /\ Len(u) = k /\ Len(w) = l
    BY <1>3, <1>4, <1>6
  <2>2. PICK m, p \in Nat :
           /\ m = Len(u) /\ p = Len(w)
           /\ t \in Seq(S) /\ Len(t) = m + p
           /\ \A i \in 1 .. m : t[i] = u[i]
           /\ \A i \in m + 1 .. m + p : t[i] = w[i - m]
    <3>1. Concatenated(t, u, w, S)
      BY <1>5, <2>1, ConcatIs
    <3> QED BY <3>1 DEF Concatenated
  <2> QED BY <2>1, <2>2
<1>8. ASSUME NEW i \in k + 1 .. n - 1 PROVE t[i] = s[i + 1]
  <2>1. i \in k + 1 .. k + l
    BY <1>1, <1>6, <1>8
  <2>2. t[i] = w[i - k]
    BY <1>7, <2>1
  <2>3. i - k \in 1 .. n - k - 1 /\ k + 1 + (i - k) = i + 1
    BY <1>1, <1>8
  <2> QED BY <1>4, <2>2, <2>3
<1>9. Len(t) = n - 1 /\ \A i \in 1 .. k : t[i] = s[i]
  BY <1>1, <1>3, <1>6, <1>7
<1> QED BY <1>1, <1>7, <1>8, <1>9

\* SortedInsert keeps an object an object, and does to its entries what the
\* assignment to a key of a map does.
THEOREM SortedInsertPuts ==
    ASSUME NEW V, NEW pairs \in Objects(V), NEW e \in KeySet \X V, NEW t, t = SortedInsert(pairs, e)
    PROVE  /\ t \in Objects(V)
           /\ Entries(t) = {p \in Entries(pairs) : Key(p) # Key(e)} \cup {e}
<1>1. PICK n \in Nat : n = Len(pairs)
  BY ObjectIs
<1>2. /\ DOMAIN pairs = 1 .. n /\ pairs \in Seq(KeySet \X V)
      /\ \A i \in 1 .. n : pairs[i] \in KeySet \X V /\ Key(pairs[i]) \in KeySet
      /\ \A i, j \in 1 .. n : i < j => KeyLess(Key(pairs[i]), Key(pairs[j]))
  BY <1>1, ObjectIs
<1>3. PICK key \in KeySet : key = Key(e)
  BY DEF Key
<1>4. PICK less : less = {i \in DOMAIN pairs : KeyLess(Key(pairs[i]), key)}
  OBVIOUS
<1>5. PICK m \in 0 .. n : less = 1 .. m
  BY <1>1, <1>4, LowerBound
<1>6. PICK pos : pos = m + 1 /\ pos \in 1 .. n + 1
  BY <1>5
<1>7. pos = 1 + Cardinality(less)
  <2>1. Cardinality(1 .. m) = IF 1 > m THEN 0 ELSE m - 1 + 1
    BY FS_Interval
  <2> QED BY <1>5, <1>6, <2>1
<1>8. t = IF pos \in 1 .. n /\ Key(pairs[pos]) = key THEN [pairs EXCEPT ![pos] = e] ELSE InsertAt(pairs, pos, e)
  BY <1>2, <1>3, <1>4, <1>7 DEF SortedInsert
<1>9. /\ \A i \in 1 .. pos - 1 : KeyLess(Key(pairs[i]), key)
      /\ \A i \in pos .. n : ~KeyLess(Key(pairs[i]), key)
  <2>1. \A i \in 1 .. n : i \in 1 .. m <=> KeyLess(Key(pairs[i]), key)
    BY <1>2, <1>4, <1>5
  <2>2. (\A i \in 1 .. pos - 1 : i \in 1 .. n /\ i \in 1 .. m) /\ (\A i \in pos .. n : i \in 1 .. n /\ i \notin 1 .. m)
    BY <1>5, <1>6
  <2> QED BY <2>1, <2>2
<1>10. CASE pos \in 1 .. n /\ Key(pairs[pos]) = key
  <2>1. t = [pairs EXCEPT ![pos] = e]
    BY <1>8, <1>10
  <2>2. t \in Seq(KeySet \X V) /\ Len(t) = n /\ DOMAIN t = 1 .. n
    BY <1>1, <1>2, <1>10, <2>1
  <2>3. t[pos] = e /\ \A i \in 1 .. n : i # pos => t[i] = pairs[i]
    BY <1>1, <1>2, <1>10, <2>1
  <2>4. \A i \in 1 .. n : Key(t[i]) = Key(pairs[i])
    BY <1>3, <1>10, <2>3
  <2>5. t \in Objects(V)
    BY <1>2, <2>2, <2>4 DEF Objects, Sorted
  <2>6. \A i \in 1 .. n : i # pos => Key(pairs[i]) # key
    BY <1>2, <1>10, KeyLessIrreflexive
  <2>7. Entries(t) = {pairs[i] : i \in 1 .. n \ {pos}} \cup {e}
    BY <1>10, <2>2, <2>3 DEF Entries
  <2>8. {p \in Entries(pairs) : Key(p) # Key(e)} = {pairs[i] : i \in 1 .. n \ {pos}}
    BY <1>2, <1>3, <1>10, <2>6 DEF Entries
  <2> QED BY <2>5, <2>7, <2>8
<1>11. CASE ~(pos \in 1 .. n /\ Key(pairs[pos]) = key)
  <2>1. /\ t \in Seq(KeySet \X V) /\ Len(t) = n + 1 /\ t[pos] = e
        /\ \A i \in 1 .. pos - 1 : t[i] = pairs[i]
        /\ \A i \in pos .. n : t[i + 1] = pairs[i]
    <3>1. PICK S : S = KeySet \X V
      OBVIOUS
    <3>2. pairs \in Seq(S) /\ e \in S /\ t = InsertAt(pairs, pos, e) /\ pos \in 1 .. Len(pairs) + 1
      BY <1>1, <1>2, <1>6, <1>8, <1>11, <3>1
    <3>3. Inserted(t, pairs, pos, e, S)
      BY <3>2, InsertAtIs
    <3> QED BY <1>1, <3>1, <3>3 DEF Inserted
  <2>2. DOMAIN t = 1 .. n + 1
    BY <2>1
  <2>3. \A i \in pos .. n : KeyLess(key, Key(pairs[i]))
    <3>1. ASSUME pos \in 1 .. n PROVE KeyLess(key, Key(pairs[pos]))
      BY <1>2, <1>9, <1>11, <3>1, KeyLessTotal
    <3>2. ASSUME NEW i \in pos .. n, i # pos PROVE KeyLess(key, Key(pairs[i]))
      <4>1. pos \in 1 .. n /\ i \in 1 .. n /\ pos < i
        BY <1>6, <3>2
      <4>2. KeyLess(Key(pairs[pos]), Key(pairs[i]))
        BY <1>2, <4>1
      <4> QED BY <1>2, <3>1, <4>1, <4>2, KeyLessTransitive
    <3> QED BY <1>6, <3>1, <3>2
  <2>4. \A i \in pos + 1 .. n + 1 : t[i] = pairs[i - 1]
    <3>1. ASSUME NEW i \in pos + 1 .. n + 1 PROVE t[i] = pairs[i - 1]
      <4>1. i - 1 \in pos .. n /\ (i - 1) + 1 = i
        BY <1>6, <3>1
      <4> QED BY <2>1, <4>1
    <3> QED BY <3>1
  <2>5. Sorted(t)
    <3>1. ASSUME NEW i \in 1 .. n + 1, NEW j \in 1 .. n + 1, i < j
          PROVE  KeyLess(Key(t[i]), Key(t[j]))
      <4>1. CASE j < pos
        BY <1>2, <1>6, <2>1, <3>1, <4>1
      <4>2. CASE j = pos
        <5>1. i \in 1 .. pos - 1
          BY <1>6, <3>1, <4>2
        <5> QED BY <1>3, <1>9, <2>1, <4>2, <5>1
      <4>3. CASE i < pos /\ pos < j
        <5>1. i \in 1 .. n /\ j - 1 \in 1 .. n /\ i < j - 1 /\ t[i] = pairs[i] /\ t[j] = pairs[j - 1]
          BY <1>6, <2>1, <2>4, <3>1, <4>3
        <5> QED BY <1>2, <5>1
      <4>4. CASE i = pos
        <5>1. j - 1 \in pos .. n /\ t[j] = pairs[j - 1]
          BY <1>6, <2>4, <3>1, <4>4
        <5> QED BY <1>3, <2>1, <2>3, <4>4, <5>1
      <4>5. CASE pos < i
        <5>1. i - 1 \in 1 .. n /\ j - 1 \in 1 .. n /\ i - 1 < j - 1 /\ t[i] = pairs[i - 1] /\ t[j] = pairs[j - 1]
          BY <1>6, <2>4, <3>1, <4>5
        <5> QED BY <1>2, <5>1
      <4> QED BY <1>6, <3>1, <4>1, <4>2, <4>3, <4>4, <4>5
    <3> QED BY <2>2, <3>1 DEF Sorted
  <2>6. t \in Objects(V)
    BY <2>1, <2>5 DEF Objects
  <2>7. \A i \in 1 .. n : Key(pairs[i]) # key
    BY <1>2, <1>6, <1>9, <2>3, KeyLessIrreflexive
  <2>8. {p \in Entries(pairs) : Key(p) # Key(e)} = Entries(pairs)
    BY <1>2, <1>3, <2>7 DEF Entries
  <2>9. Entries(t) = Entries(pairs) \cup {e}
    <3>1. ASSUME NEW i \in 1 .. n + 1 PROVE t[i] \in Entries(pairs) \cup {e}
      <4>1. i \in 1 .. pos - 1 \/ i = pos \/ i \in pos + 1 .. n + 1
        BY <1>6, <3>1
      <4>2. i \in 1 .. pos - 1 => i \in 1 .. n /\ t[i] = pairs[i]
        BY <1>6, <2>1
      <4>3. i \in pos + 1 .. n + 1 => i - 1 \in 1 .. n /\ t[i] = pairs[i - 1]
        BY <1>6, <2>4
      <4> QED BY <1>2, <2>1, <4>1, <4>2, <4>3 DEF Entries
    <3>2. ASSUME NEW i \in 1 .. n PROVE pairs[i] \in Entries(t)
      <4>1. CASE i < pos
        <5>1. i \in 1 .. n + 1 /\ t[i] = pairs[i]
          BY <1>6, <2>1, <3>2, <4>1
        <5> QED BY <2>2, <5>1 DEF Entries
      <4>2. CASE pos <= i
        <5>1. i + 1 \in 1 .. n + 1 /\ t[i + 1] = pairs[i]
          BY <1>6, <2>1, <3>2, <4>2
        <5> QED BY <2>2, <5>1 DEF Entries
      <4> QED BY <1>6, <3>2, <4>1, <4>2
    <3>3. e \in Entries(t)
      BY <1>6, <2>1, <2>2 DEF Entries
    <3> QED BY <1>2, <2>2, <3>1, <3>2, <3>3 DEF Entries
  <2> QED BY <2>6, <2>8, <2>9
<1> QED BY <1>10, <1>11

\* Erasing a key leaves the other entries.
THEOREM EraseKeyRemoves ==
    ASSUME NEW V, NEW pairs \in Objects(V), NEW key \in KeySet, NEW t, t = EraseKey(pairs, key)
    PROVE  t \in Objects(V) /\ Entries(t) = {p \in Entries(pairs) : Key(p) # key}
<1>1. PICK n \in Nat : n = Len(pairs)
  BY ObjectIs
<1>2. /\ DOMAIN pairs = 1 .. n /\ pairs \in Seq(KeySet \X V)
      /\ \A i \in 1 .. n : pairs[i] \in KeySet \X V /\ Key(pairs[i]) \in KeySet
      /\ \A i, j \in 1 .. n : i < j => KeyLess(Key(pairs[i]), Key(pairs[j]))
  BY <1>1, ObjectIs
<1>3. CASE ~ \E i \in DOMAIN pairs : Key(pairs[i]) = key
  <2>1. t = pairs
    BY <1>3 DEF EraseKey
  <2> QED BY <1>2, <1>3, <2>1 DEF Entries
<1>4. CASE \E i \in DOMAIN pairs : Key(pairs[i]) = key
  <2>1. PICK at : at = CHOOSE i \in DOMAIN pairs : Key(pairs[i]) = key
    OBVIOUS
  <2>2. at \in 1 .. n /\ Key(pairs[at]) = key
    BY <1>2, <1>4, <2>1
  <2>3. t = RemoveAt(pairs, at)
    BY <1>4, <2>1 DEF EraseKey
  <2>4. PICK k \in Nat : at = k + 1 /\ k < n
    BY <2>2
  <2>5. /\ t \in Seq(KeySet \X V) /\ Len(t) = n - 1
        /\ \A i \in 1 .. k : t[i] = pairs[i]
        /\ \A i \in k + 1 .. n - 1 : t[i] = pairs[i + 1]
    <3>1. PICK S : S = KeySet \X V
      OBVIOUS
    <3>2. pairs \in Seq(S) /\ k < Len(pairs) /\ t = RemoveAt(pairs, at) /\ at = k + 1
      BY <1>1, <1>2, <2>3, <2>4, <3>1
    <3> QED BY <1>1, <3>1, <3>2, RemoveAtIs
  <2>6. DOMAIN t = 1 .. n - 1
    BY <1>1, <2>4, <2>5
  <2>7. \A i \in 1 .. n : i # at => Key(pairs[i]) # key
    <3>1. ASSUME NEW i \in 1 .. n, i # at PROVE Key(pairs[i]) # key
      <4>1. i < at \/ at < i
        BY <2>2, <3>1
      <4>2. KeyLess(Key(pairs[i]), Key(pairs[at])) \/ KeyLess(Key(pairs[at]), Key(pairs[i]))
        BY <1>2, <2>2, <3>1, <4>1
      <4> QED BY <2>2, <4>2, KeyLessIrreflexive
    <3> QED BY <3>1
  <2>8. Sorted(t)
    <3>1. ASSUME NEW i \in 1 .. n - 1, NEW j \in 1 .. n - 1, i < j
          PROVE  KeyLess(Key(t[i]), Key(t[j]))
      <4>1. i \in 1 .. n /\ j \in 1 .. n /\ i + 1 \in 1 .. n /\ j + 1 \in 1 .. n
        BY <3>1
      <4>2. CASE j <= k
        <5>1. t[i] = pairs[i] /\ t[j] = pairs[j]
          BY <2>5, <3>1, <4>2
        <5> QED BY <1>2, <3>1, <4>1, <5>1
      <4>3. CASE i <= k /\ k < j
        <5>1. t[i] = pairs[i] /\ t[j] = pairs[j + 1] /\ i < j + 1
          BY <2>5, <3>1, <4>3
        <5> QED BY <1>2, <4>1, <5>1
      <4>4. CASE k < i
        <5>1. t[i] = pairs[i + 1] /\ t[j] = pairs[j + 1] /\ i + 1 < j + 1
          BY <2>5, <3>1, <4>4
        <5> QED BY <1>2, <4>1, <5>1
      <4> QED BY <2>4, <3>1, <4>2, <4>3, <4>4
    <3> QED BY <2>6, <3>1 DEF Sorted
  <2>9. Entries(t) = {pairs[i] : i \in 1 .. n \ {at}}
    <3>1. ASSUME NEW i \in 1 .. n - 1 PROVE \E j \in 1 .. n \ {at} : t[i] = pairs[j]
      <4>1. CASE i <= k
        <5>1. i \in 1 .. n \ {at} /\ t[i] = pairs[i]
          BY <2>4, <2>5, <3>1, <4>1
        <5> QED BY <5>1
      <4>2. CASE k < i
        <5>1. i + 1 \in 1 .. n \ {at} /\ t[i] = pairs[i + 1]
          BY <2>4, <2>5, <3>1, <4>2
        <5> QED BY <5>1
      <4> QED BY <2>4, <3>1, <4>1, <4>2
    <3>2. ASSUME NEW j \in 1 .. n \ {at} PROVE \E i \in 1 .. n - 1 : t[i] = pairs[j]
      <4>1. CASE j <= k
        <5>1. j \in 1 .. n - 1 /\ t[j] = pairs[j]
          BY <2>4, <2>5, <3>2, <4>1
        <5> QED BY <5>1
      <4>2. CASE at < j
        <5>1. j - 1 \in k + 1 .. n - 1 /\ (j - 1) + 1 = j
          BY <2>4, <3>2, <4>2
        <5>2. j - 1 \in 1 .. n - 1 /\ t[j - 1] = pairs[j]
          BY <2>4, <2>5, <5>1
        <5> QED BY <5>2
      <4> QED BY <2>4, <3>2, <4>1, <4>2
    <3>3. Entries(t) = {t[i] : i \in 1 .. n - 1}
      BY <2>6 DEF Entries
    <3> QED BY <3>1, <3>2, <3>3
  <2>10. {p \in Entries(pairs) : Key(p) # key} = {pairs[i] : i \in 1 .. n \ {at}}
    BY <1>2, <2>2, <2>7 DEF Entries
  <2> QED BY <2>5, <2>8, <2>9, <2>10 DEF Objects
<1> QED BY <1>3, <1>4

-----------------------------------------------------------------------------
(* Binary search.                                                               *)

\* Induction on a set.
LEMMA Induction ==
    ASSUME NEW S, 0 \in S, \A n \in Nat : n \in S => n + 1 \in S
    PROVE  Nat \subseteq S
<1>1. PICK T : T = Nat \ S
  OBVIOUS
<1>2. SUFFICES ASSUME T # {} PROVE FALSE
  BY <1>1
<1>3. PICK x \in T : \A y \in T : x <= y
  BY <1>1, <1>2, LeastElement
<1>4. x \in Nat /\ x # 0
  BY <1>1, <1>3
<1>5. x - 1 \in Nat /\ ~(x <= x - 1) /\ (x - 1) + 1 = x
  BY <1>4
<1>6. x - 1 \in S
  BY <1>1, <1>3, <1>5
<1>7. x \in S
  BY <1>5, <1>6
<1> QED BY <1>1, <1>3, <1>7

\* The body of the loop of sortedFind, with f for what the rest of the loop returns.
Probe(pairs, key, f, r) ==
    LET half == r[2] \div 2
        middle == r[1] + half + 1
    IN IF r[2] = 0 THEN 0
       ELSE IF KeyLess(Key(pairs[middle]), key) THEN f[<<middle, r[2] - half - 1>>]
       ELSE IF Key(pairs[middle]) = key THEN middle
       ELSE f[<<r[1], half>>]

\* Where the key is in a range of an object, if it is there.
Place(pairs, key, r) ==
    IF \E i \in r[1] + 1 .. r[1] + r[2] : Key(pairs[i]) = key
    THEN CHOOSE i \in r[1] + 1 .. r[1] + r[2] : Key(pairs[i]) = key
    ELSE 0

\* A range with the lengths that are left and right of its middle.
LEMMA RangeParts ==
    ASSUME NEW n \in Nat, NEW r \in Ranges(n), r[2] # 0,
           NEW half, half = r[2] \div 2, NEW middle, middle = r[1] + half + 1
    PROVE  /\ half \in Nat /\ half < r[2] /\ middle \in 1 .. n /\ r[1] \in Nat /\ r[2] \in Nat
           /\ <<r[1], half>> \in Ranges(n)
           /\ <<middle, r[2] - half - 1>> \in Ranges(n) /\ r[2] - half - 1 \in Nat /\ r[2] - half - 1 < r[2]
           /\ middle + (r[2] - half - 1) = r[1] + r[2]
           /\ middle \in r[1] + 1 .. r[1] + r[2]
<1>1. PICK a, b \in 0 .. n : a = r[1] /\ b = r[2] /\ a + b <= n
  BY DEF Ranges
<1>2. half \in Nat /\ half < b
  BY <1>1
<1>3. /\ middle \in 1 .. n /\ b - half - 1 \in 0 .. n /\ middle + (b - half - 1) = a + b /\ half \in 0 .. n
      /\ a + half <= n /\ middle \in a + 1 .. a + b
  BY <1>1, <1>2
<1> QED BY <1>1, <1>2, <1>3 DEF Ranges

\* Place, in two ranges of which the key is in the same places.
LEMMA OnlyPlace ==
    ASSUME NEW pairs, NEW key, NEW r, NEW q,
           \A i : (i \in r[1] + 1 .. r[1] + r[2] /\ Key(pairs[i]) = key)
                   <=> (i \in q[1] + 1 .. q[1] + q[2] /\ Key(pairs[i]) = key)
    PROVE  Place(pairs, key, r) = Place(pairs, key, q)
BY DEF Place

\* Place is what the loop computes on an object.
LEMMA PlaceProbes ==
    ASSUME NEW V, NEW pairs \in Objects(V), NEW key \in KeySet, NEW n \in Nat, n = Len(pairs),
           NEW r \in Ranges(n)
    PROVE  Place(pairs, key, r) = Probe(pairs, key, [q \in Ranges(n) |-> Place(pairs, key, q)], r)
<1>1. PICK f : f = [q \in Ranges(n) |-> Place(pairs, key, q)]
  OBVIOUS
<1>2. PICK a, b \in Nat : a = r[1] /\ b = r[2] /\ a + b <= n
  BY DEF Ranges
<1>3. /\ \A i \in 1 .. n : Key(pairs[i]) \in KeySet
      /\ \A i, j \in 1 .. n : i < j => KeyLess(Key(pairs[i]), Key(pairs[j]))
  BY ObjectIs
<1>4. PICK place : place = Place(pairs, key, r)
  OBVIOUS
<1>5. CASE b = 0
  <2>1. place = 0
    BY <1>2, <1>4, <1>5 DEF Place
  <2> QED BY <1>2, <1>4, <1>5, <2>1 DEF Probe
<1>6. CASE b # 0
  <2>1. PICK half, middle, left, right : /\ half = r[2] \div 2 /\ middle = r[1] + half + 1
                                        /\ left = <<r[1], half>> /\ right = <<middle, r[2] - half - 1>>
    OBVIOUS
  <2>2. /\ half \in Nat /\ half < b /\ middle \in 1 .. n
        /\ left \in Ranges(n) /\ right \in Ranges(n) /\ b - half - 1 \in Nat
        /\ middle + (b - half - 1) = a + b /\ middle \in a + 1 .. a + b
    BY <1>2, <1>6, <2>1, RangeParts
  <2>9. half \in Nat /\ half < b
    BY <2>2
  <2>3. Probe(pairs, key, f, r) = IF KeyLess(Key(pairs[middle]), key) THEN f[right]
                                  ELSE IF Key(pairs[middle]) = key THEN middle ELSE f[left]
    BY <1>2, <1>6, <2>1 DEF Probe
  <2>4. CASE KeyLess(Key(pairs[middle]), key)
    <3>1. ASSUME NEW i \in a + 1 .. middle PROVE Key(pairs[i]) # key
      <4>1. middle \in 1 .. n
        BY <2>2
      <4>2. i \in 1 .. n /\ (i = middle \/ i < middle)
        BY <1>2, <3>1, <4>1
      <4>3. KeyLess(Key(pairs[i]), key)
        BY <1>3, <2>4, <4>1, <4>2, KeyLessTransitive
      <4> QED BY <4>3, KeyLessIrreflexive
    <3>2. \A i \in a + 1 .. a + b : Key(pairs[i]) = key => i \in middle + 1 .. a + b
      BY <1>2, <2>2, <3>1
    <3>3. \A i \in middle + 1 .. a + b : i \in a + 1 .. a + b
      BY <1>2, <2>2
    <3>4. f[right] = Place(pairs, key, right) /\ right[1] = middle /\ right[1] + right[2] = a + b
      BY <1>1, <1>2, <2>1, <2>2
    <3>5. Place(pairs, key, right) = place
      <4>1. \A i : (i \in a + 1 .. a + b /\ Key(pairs[i]) = key) <=> (i \in middle + 1 .. a + b /\ Key(pairs[i]) = key)
        BY <3>2, <3>3
      <4> QED BY <1>2, <1>4, <3>4, <4>1, OnlyPlace
    <3> QED BY <1>1, <1>4, <2>3, <2>4, <3>4, <3>5
  <2>5. CASE ~KeyLess(Key(pairs[middle]), key) /\ Key(pairs[middle]) = key
    <3>1. \A i \in a + 1 .. a + b : Key(pairs[i]) = key => i = middle
      <4>1. ASSUME NEW i \in a + 1 .. a + b, Key(pairs[i]) = key, i # middle PROVE FALSE
        <5>1. i \in 1 .. n /\ (i < middle \/ middle < i)
          <6>1. middle \in 1 .. n
            BY <2>2
          <6> QED BY <1>2, <4>1, <6>1
        <5> QED BY <1>3, <2>2, <2>5, <4>1, <5>1, KeyLessIrreflexive
      <4> QED BY <4>1
    <3>2. place = middle
      BY <1>2, <1>4, <2>2, <2>5, <3>1 DEF Place
    <3> QED BY <1>1, <1>4, <2>3, <2>5, <3>2
  <2>6. CASE ~KeyLess(Key(pairs[middle]), key) /\ Key(pairs[middle]) # key
    <3>1. KeyLess(key, Key(pairs[middle]))
      BY <1>3, <2>2, <2>6, KeyLessTotal
    <3>2. ASSUME NEW i \in middle .. a + b PROVE Key(pairs[i]) # key
      <4>0. middle \in 1 .. n
        BY <2>2
      <4>1. i \in 1 .. n /\ (i = middle \/ middle < i)
        BY <1>2, <3>2, <4>0
      <4>2. KeyLess(key, Key(pairs[i]))
        BY <1>3, <2>2, <3>1, <4>1, KeyLessTransitive
      <4> QED BY <4>2, KeyLessIrreflexive
    <3>3. \A i \in a + 1 .. a + b : Key(pairs[i]) = key => i \in a + 1 .. a + half
      BY <1>2, <2>1, <2>2, <3>2
    <3>4. \A i \in a + 1 .. a + half : i \in a + 1 .. a + b
      BY <1>2, <2>9
    <3>5. f[left] = Place(pairs, key, left) /\ left[1] = a /\ left[1] + left[2] = a + half
      BY <1>1, <1>2, <2>1, <2>2
    <3>6. Place(pairs, key, left) = place
      <4>1. \A i : (i \in a + 1 .. a + b /\ Key(pairs[i]) = key) <=> (i \in a + 1 .. a + half /\ Key(pairs[i]) = key)
        BY <3>3, <3>4
      <4> QED BY <1>2, <1>4, <3>5, <4>1, OnlyPlace
    <3> QED BY <1>1, <1>4, <2>3, <2>6, <3>5, <3>6
  <2> QED BY <2>4, <2>5, <2>6
<1> QED BY <1>2, <1>5, <1>6

\* detail::sortedFind: on an object, the loop ends at the pair with the key, and
\* with 0 only if there is none.
THEOREM SortedFindFinds ==
    ASSUME NEW V, NEW pairs \in Objects(V), NEW key \in KeySet, NEW at, at = SortedFind(pairs, key)
    PROVE  /\ at \in 0 .. Len(pairs)
           /\ at # 0 => Key(pairs[at]) = key
           /\ at = 0 => \A i \in DOMAIN pairs : Key(pairs[i]) # key
<1>1. PICK n \in Nat : n = Len(pairs) /\ DOMAIN pairs = 1 .. n
  BY ObjectIs
<1>2. PICK f : f = CHOOSE g : g = [r \in Ranges(n) |-> Probe(pairs, key, g, r)]
  OBVIOUS
<1>3. at = f[<<0, n>>]
  BY <1>1, <1>2 DEF SortedFind, Probe
<1>4. f = [r \in Ranges(n) |-> Probe(pairs, key, f, r)]
  <2>1. PICK g : g = [r \in Ranges(n) |-> Place(pairs, key, r)]
    OBVIOUS
  <2>2. \A r \in Ranges(n) : Place(pairs, key, r) = Probe(pairs, key, g, r)
    BY <1>1, <2>1, PlaceProbes
  <2>3. g = [r \in Ranges(n) |-> Probe(pairs, key, g, r)]
    BY <2>1, <2>2
  <2> QED BY <1>2, <2>3
<1>5. ASSUME NEW r \in Ranges(n), \A q \in Ranges(n) : q[2] < r[2] => f[q] = Place(pairs, key, q)
      PROVE  f[r] = Place(pairs, key, r)
  <2>1. PICK g : g = [q \in Ranges(n) |-> Place(pairs, key, q)]
    OBVIOUS
  <2>2. Place(pairs, key, r) = Probe(pairs, key, g, r)
    BY <1>1, <2>1, PlaceProbes
  <2>3. f[r] = Probe(pairs, key, f, r)
    BY <1>4
  <2>4. CASE r[2] = 0
    BY <2>2, <2>3, <2>4 DEF Probe
  <2>5. CASE r[2] # 0
    <3>1. PICK half, middle, left, right : /\ half = r[2] \div 2 /\ middle = r[1] + half + 1
                                          /\ left = <<r[1], half>> /\ right = <<middle, r[2] - half - 1>>
      OBVIOUS
    <3>2. left \in Ranges(n) /\ right \in Ranges(n) /\ left[2] < r[2] /\ right[2] < r[2]
      BY <2>5, <3>1, RangeParts
    <3>3. f[left] = g[left] /\ f[right] = g[right]
      BY <1>5, <2>1, <3>2
    <3> QED BY <2>2, <2>3, <2>5, <3>1, <3>3 DEF Probe
  <2> QED BY <2>4, <2>5
<1>6. \A r \in Ranges(n) : f[r] = Place(pairs, key, r)
  <2>1. PICK T : T = {k \in Nat : \A r \in Ranges(n) : r[2] < k => f[r] = Place(pairs, key, r)}
    OBVIOUS
  <2>2. \A r \in Ranges(n) : r[2] \in Nat
    BY DEF Ranges
  <2>3. 0 \in T
    BY <2>1, <2>2
  <2>4. ASSUME NEW k \in Nat, k \in T PROVE k + 1 \in T
    <3>1. ASSUME NEW r \in Ranges(n), r[2] < k + 1 PROVE f[r] = Place(pairs, key, r)
      <4>1. \A q \in Ranges(n) : q[2] < r[2] => q[2] < k
        BY <2>2, <3>1
      <4>2. \A q \in Ranges(n) : q[2] < r[2] => f[q] = Place(pairs, key, q)
        BY <2>1, <2>4, <4>1
      <4> QED BY <1>5, <3>1, <4>2
    <3> QED BY <2>1, <2>4, <3>1
  <2>5. Nat \subseteq T
    BY <2>3, <2>4, Induction
  <2>6. ASSUME NEW r \in Ranges(n) PROVE f[r] = Place(pairs, key, r)
    <3>1. r[2] + 1 \in T /\ r[2] < r[2] + 1
      BY <2>2, <2>5, <2>6
    <3> QED BY <2>1, <2>6, <3>1
  <2> QED BY <2>6
<1>7. <<0, n>> \in Ranges(n)
  BY DEF Ranges
<1>8. at = Place(pairs, key, <<0, n>>)
  BY <1>3, <1>6, <1>7
<1>9. at = IF \E i \in 1 .. n : Key(pairs[i]) = key THEN CHOOSE i \in 1 .. n : Key(pairs[i]) = key ELSE 0
  BY <1>8 DEF Place
<1> QED BY <1>1, <1>9
============================================================================

----------------------------- MODULE MemBuff -----------------------------
(* The memory buffers of include/membuff/membuff.hpp: an Out that grows         *)
(* (StringOut) or is flushed (FuncOut) when it is full, and an In that is       *)
(* refilled from a stream (IStreamIn), read by the loop of ParseJson and        *)
(* ParseMsgPack.  A writer makes a list of Write calls; when it is done, what   *)
(* came out of its buffer is the stream that the reader reads.                  *)
EXTENDS Naturals, Sequences

CONSTANTS
    OutSize,    \* the buffer of FuncOut, the start size of StringOut
    InSize,     \* the buffer of IStreamIn
    ReadSize    \* the buffer that a reader passes to Read

\* An empty StringOut doubles to nothing and never gets room; Read is made for
\* callers that ask for as much as the buffer holds, as both parsers do.
ASSUME SizesAssumption == OutSize \in Nat \ {0} /\ InSize \in Nat \ {0} /\ ReadSize = InSize

VARIABLES
    kind,       \* "string" or "func"
    pieces,     \* the Write calls to come
    piece,      \* what the Write in progress has yet to copy
    buffer,     \* the bytes in the Out, up to ptr
    capacity,   \* Out::capacity
    stream,     \* the bytes that left the Out and that no Refill has fetched
    inbuf,      \* In::buffer, up to capacity, from ptr on
    want,       \* size left of the Read in progress, 0 when there is none
    temp,       \* what the Read in progress has put into the caller's buffer
    got,        \* what the reader has collected
    sent,       \* all that was given to Write so far
    phase       \* "write", "read" or "done"

outVars == <<kind, pieces, piece, buffer, capacity, sent>>
inVars == <<inbuf, want, temp, got>>
buffVars == <<outVars, stream, inVars, phase>>

BuffInit(writes) ==
    /\ kind \in {"string", "func"}
    /\ pieces = writes
    /\ piece = << >> /\ buffer = << >> /\ capacity = OutSize
    /\ stream = << >> /\ inbuf = << >> /\ want = 0 /\ temp = << >> /\ got = << >>
    /\ sent = << >>
    /\ phase = "write"

Least(a, b) == IF a < b THEN a ELSE b
Upto(s, n) == SubSeq(s, 1, n)
From(s, n) == SubSeq(s, n + 1, Len(s))

-----------------------------------------------------------------------------
(* Out.                                                                         *)

\* Write(data, size) of what fits.
Write ==
    /\ phase = "write" /\ piece = << >> /\ pieces # << >>
    /\ pieces' = Tail(pieces) /\ sent' = sent \o Head(pieces)
    /\ IF Len(buffer) + Len(Head(pieces)) > capacity
       THEN piece' = Head(pieces) /\ UNCHANGED buffer
       ELSE buffer' = buffer \o Head(pieces) /\ UNCHANGED piece
    /\ UNCHANGED <<kind, capacity, stream, inVars, phase>>

\* Seeded fault: the data pointer is not moved on.
WriteLoopAgain ==
    LET flushed == IF kind = "func" THEN << >> ELSE buffer
        room == IF kind = "func" THEN capacity ELSE 2 * capacity
        min == Least(Len(piece), room - Len(flushed))
    IN /\ phase = "write" /\ piece # << >>
       /\ stream' = IF kind = "func" THEN stream \o buffer ELSE stream
       /\ capacity' = room
       /\ buffer' = flushed \o Upto(piece, min)
       /\ piece' = Upto(piece, Len(piece) - min)
       /\ UNCHANGED <<kind, pieces, sent, inVars, phase>>

\* One round of its loop: Grow (StringOut doubles, FuncOut flushes), then copy
\* what there is room for.
WriteLoop ==
    LET flushed == IF kind = "func" THEN << >> ELSE buffer
        room == IF kind = "func" THEN capacity ELSE 2 * capacity
        min == Least(Len(piece), room - Len(flushed))
    IN /\ phase = "write" /\ piece # << >>
       /\ stream' = IF kind = "func" THEN stream \o buffer ELSE stream
       /\ capacity' = room
       /\ buffer' = flushed \o Upto(piece, min)
       /\ piece' = From(piece, min)
       /\ UNCHANGED <<kind, pieces, sent, inVars, phase>>

\* Consume of a StringOut, the last Flush of a FuncOut; the reader starts, and
\* IStreamIn fetches its first bytes when it is made.
Finish ==
    LET all == stream \o buffer IN
    /\ phase = "write" /\ piece = << >> /\ pieces = << >>
    /\ buffer' = << >> /\ capacity' = IF kind = "string" THEN 0 ELSE capacity
    /\ inbuf' = Upto(all, Least(InSize, Len(all)))
    /\ stream' = From(all, Least(InSize, Len(all)))
    /\ phase' = "read"
    /\ UNCHANGED <<kind, pieces, piece, sent, want, temp, got>>

-----------------------------------------------------------------------------
(* In.                                                                          *)

\* Read(temp, ReadSize) when the buffer has that many bytes.
Read ==
    /\ phase = "read" /\ want = 0
    /\ IF Len(inbuf) >= ReadSize
       THEN /\ got' = got \o Upto(inbuf, ReadSize)
            /\ inbuf' = From(inbuf, ReadSize)
            /\ UNCHANGED want
       ELSE want' = ReadSize /\ UNCHANGED <<got, inbuf>>
    /\ UNCHANGED <<outVars, stream, temp, phase>>

\* One round of its loop: take what is available, Refill, and take up to `want`
\* of the new bytes.  At the end of the stream the loop of the caller appends
\* what it got, and stops when that is nothing.
ReadLoop ==
    LET fresh == Upto(stream, Least(InSize, Len(stream)))
        min == Least(want, Len(fresh))
        read == temp \o inbuf \o Upto(fresh, min)
        returns == fresh = << >> \/ want = min
    IN /\ phase = "read" /\ want > 0
       /\ stream' = From(stream, Len(fresh))
       /\ inbuf' = From(fresh, min)
       /\ want' = IF returns THEN 0 ELSE want - min
       /\ temp' = IF returns THEN << >> ELSE read
       /\ got' = IF returns THEN got \o read ELSE got
       /\ phase' = IF returns /\ read = << >> THEN "done" ELSE "read"
       /\ UNCHANGED outVars

BuffNext == Write \/ WriteLoop \/ Finish \/ Read \/ ReadLoop
-----------------------------------------------------------------------------
(* No byte is lost, repeated or reordered between Write and the reader, over    *)
(* flushes, growth and refills that cut the writes in other places; the buffer  *)
(* of an Out is never overrun, nor the one that a Read in progress fills.       *)
BytesInOrder ==
    /\ phase = "write" => stream \o buffer \o piece = sent
    /\ phase # "write" => got \o temp \o inbuf \o stream = sent
    /\ Len(buffer) <= capacity
    /\ want > 0 => Len(temp) + Len(inbuf) + Least(want, Least(InSize, Len(stream))) <= ReadSize
=============================================================================

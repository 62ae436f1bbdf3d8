------------------------------ MODULE Arena ------------------------------
(* The arenas of include/json_view/alloc.hpp and the documents that own one     *)
(* (Json in json.hpp): bump allocation in blocks, blocks of their own for large *)
(* requests, clearing and moving.  An address is a block and an offset in it;   *)
(* blocks start at addresses that have the largest alignment.                   *)
EXTENDS Naturals, Sequences, FiniteSets

CONSTANTS
    Arenas,     \* the owners: each has an arena and a view of what is in it
    Blocks,     \* the addresses operator new may return
    Sizes,      \* the sizes of requests
    Aligns,     \* the alignments of requests
    BlockSizes, \* what SetBlockSize may be given
    Stacked,    \* the arenas with a buffer inside (DefaultArena<N>, N > 0)
    OnStack,    \* the size of that buffer
    MaxRegions, \* bound on what is handed out at a time
    Nowhere     \* the null pointer

ASSUME ArenaAssumption ==
    /\ Sizes \subseteq Nat /\ BlockSizes \subseteq Nat \ {0} /\ OnStack \in Nat /\ MaxRegions \in Nat
    /\ Aligns \subseteq Nat \ {0} /\ Nowhere \notin Blocks \cup Arenas
    /\ Blocks \cap Arenas = {} /\ Stacked \subseteq Arenas

VARIABLES
    buffptr,    \* per arena: the block and offset that come next
    space,      \* per arena: bytes left after buffptr
    blockSize,  \* per arena
    allocs,     \* per arena: the blocks it owns
    size,       \* size of a block that is allocated, 0 of one that is not
    regions,    \* what was handed out and is not freed: [block, at, bytes, align, owner]
    view        \* per owner: the region its document starts in, or Nowhere

arenaVars == <<buffptr, space, blockSize, allocs, size, regions, view>>

\* The buffer inside of an arena is a block with the name of the arena.
Ptr(b, at) == [block |-> b, at |-> at]
Null0 == Ptr(Nowhere, 0)
Region(p, bytes, align, a) == [block |-> p.block, at |-> p.at, bytes |-> bytes, align |-> align, owner |-> a]

StackBuff(a) == IF a \in Stacked THEN Ptr(a, 0) ELSE Null0
StackSize(a) == IF a \in Stacked THEN OnStack ELSE 0

ArenaInit ==
    /\ buffptr = [a \in Arenas |-> StackBuff(a)]
    /\ space = [a \in Arenas |-> StackSize(a)]
    /\ blockSize \in [Arenas -> BlockSizes]
    /\ allocs = [a \in Arenas |-> {}]
    /\ size = [b \in Blocks |-> 0]
    /\ regions = {}
    /\ view = [a \in Arenas |-> Nowhere]

FreeBlocks == {b \in Blocks : size[b] = 0}

\* std::align: the next aligned offset, or failure; a null pointer stays null.
Aligned(at, align) == ((at + align - 1) \div align) * align
Fits(a, bytes, align) ==
    /\ buffptr[a] # Null0
    /\ Aligned(buffptr[a].at, align) + bytes <= buffptr[a].at + space[a]

Hand(a, p, bytes, align) == regions' = regions \cup {Region(p, bytes, align, a)}

\* bytes > blockSize: a block of its own, the current one stays current.
AllocOwn(a, bytes, align) ==
    /\ bytes > blockSize[a]
    /\ \E b \in FreeBlocks :
          /\ size' = [size EXCEPT ![b] = bytes]
          /\ allocs' = [allocs EXCEPT ![a] = @ \cup {b}]
          /\ Hand(a, Ptr(b, 0), bytes, align)
    /\ UNCHANGED <<buffptr, space, blockSize, view>>

\* Seeded fault: the bytes skipped for the alignment are not counted.
AllocBumpLoose(a, bytes, align) ==
    LET at == Aligned(buffptr[a].at, align) IN
    /\ bytes <= blockSize[a]
    /\ buffptr[a] # Null0 /\ bytes <= space[a]
    /\ buffptr' = [buffptr EXCEPT ![a].at = at + bytes]
    /\ space' = [space EXCEPT ![a] = @ - bytes]
    /\ Hand(a, Ptr(buffptr[a].block, at), bytes, align)
    /\ UNCHANGED <<blockSize, allocs, size, view>>

\* It fits: buffptr moves past the padding and the bytes.
AllocBump(a, bytes, align) ==
    LET at == Aligned(buffptr[a].at, align) IN
    /\ bytes <= blockSize[a] /\ Fits(a, bytes, align)
    /\ buffptr' = [buffptr EXCEPT ![a].at = at + bytes]
    /\ space' = [space EXCEPT ![a] = @ - (at - buffptr[a].at) - bytes]
    /\ Hand(a, Ptr(buffptr[a].block, at), bytes, align)
    /\ UNCHANGED <<blockSize, allocs, size, view>>

\* It does not: newBlock.
AllocNewBlock(a, bytes, align) ==
    /\ bytes <= blockSize[a] /\ ~Fits(a, bytes, align)
    /\ \E b \in FreeBlocks :
          /\ size' = [size EXCEPT ![b] = blockSize[a]]
          /\ allocs' = [allocs EXCEPT ![a] = @ \cup {b}]
          /\ buffptr' = [buffptr EXCEPT ![a] = Ptr(b, bytes)]
          /\ space' = [space EXCEPT ![a] = blockSize[a] - bytes]
          /\ Hand(a, Ptr(b, 0), bytes, align)
    /\ UNCHANGED <<blockSize, view>>

DoAlloc(a, bytes, align) ==
    /\ Cardinality(regions) < MaxRegions
    /\ AllocOwn(a, bytes, align) \/ AllocBump(a, bytes, align) \/ AllocNewBlock(a, bytes, align)

\* What is left of the regions and blocks when the ones of an arena are freed.
Owned(a) == allocs[a] \cup {a}
Without(a) == {r \in regions : r.block \notin Owned(a)}
Freed(a) == [b \in Blocks |-> IF b \in allocs[a] THEN 0 ELSE size[b]]

\* DefaultArena::Clear; a view into the arena is no longer used by its owner.
Clear(a) ==
    /\ allocs[a] # {} \/ space[a] # StackSize(a)
    /\ regions' = Without(a) /\ size' = Freed(a)
    /\ allocs' = [allocs EXCEPT ![a] = {}]
    /\ buffptr' = [buffptr EXCEPT ![a] = StackBuff(a)]
    /\ space' = [space EXCEPT ![a] = StackSize(a)]
    /\ view' = [view EXCEPT ![a] = Nowhere]
    /\ UNCHANGED blockSize

SetBlockSize(a, n) ==
    /\ n # blockSize[a]
    /\ blockSize' = [blockSize EXCEPT ![a] = n]
    /\ UNCHANGED <<buffptr, space, allocs, size, regions, view>>

\* The owner keeps a document whose root it has allocated (Json::Parse, From).
SetView(a, r) ==
    /\ r \in regions /\ r.owner = a /\ view[a] # r
    /\ view' = [view EXCEPT ![a] = r]
    /\ UNCHANGED <<buffptr, space, blockSize, allocs, size, regions>>

\* Json::operator=(Json&&): an arena with no buffer inside can be moved, the
\* target frees its blocks and takes over the other's.  The view is copied, the
\* source keeps its own: it is moved from, and its owner forgets it.
MoveInto(a, o) ==
    /\ a # o /\ {a, o} \cap Stacked = {}
    /\ buffptr' = [buffptr EXCEPT ![a] = buffptr[o], ![o] = Null0]
    /\ space' = [space EXCEPT ![a] = space[o], ![o] = 0]
    /\ blockSize' = [blockSize EXCEPT ![a] = blockSize[o]]
    /\ allocs' = [allocs EXCEPT ![a] = allocs[o], ![o] = {}]
    /\ size' = Freed(a)
    /\ regions' = {IF r.owner = o THEN [r EXCEPT !.owner = a] ELSE r : r \in Without(a)}
    /\ view' = [view EXCEPT ![a] = IF view[o] = Nowhere THEN Nowhere ELSE [view[o] EXCEPT !.owner = a],
                            ![o] = Nowhere]

ArenaNext ==
    \/ \E a \in Arenas, bytes \in Sizes, align \in Aligns : DoAlloc(a, bytes, align)
    \/ \E a \in Arenas : Clear(a) \/ \E r \in regions : SetView(a, r)
    \/ \E a \in Arenas, n \in BlockSizes : SetBlockSize(a, n)
    \/ \E a, o \in Arenas : MoveInto(a, o)
-----------------------------------------------------------------------------
Extent(b) == IF b \in Arenas THEN StackSize(b) ELSE size[b]
Bytes(r) == r.at .. r.at + r.bytes - 1

(* What an arena hands out is aligned, lies inside of a block that is still     *)
(* allocated and owned by the same arena, and overlaps nothing else that was    *)
(* handed out, nor what it will hand out next; documents point to such memory.  *)
RegionsDisjoint ==
    /\ \A r \in regions :
        /\ r.at % r.align = 0
        /\ r.block \in Owned(r.owner)
        /\ r.at + r.bytes <= Extent(r.block)
        /\ buffptr[r.owner].block = r.block => r.at + r.bytes <= buffptr[r.owner].at
    /\ \A r, q \in regions : r # q /\ r.block = q.block => Bytes(r) \cap Bytes(q) = {}
    /\ \A a \in Arenas :
        /\ view[a] # Nowhere => view[a] \in regions
        /\ buffptr[a] # Null0 =>
              buffptr[a].block \in Owned(a) /\ buffptr[a].at + space[a] = Extent(buffptr[a].block)
    /\ \A a, o \in Arenas : a # o => allocs[a] \cap allocs[o] = {}
=============================================================================

-------------------------------- MODULE KMem --------------------------------
(***************************************************************************)
(* The memory allocator: kmalloc and kfree of c/mem.c over the list of     *)
(* free blocks of c/memHeader.c.                                           *)
(*                                                                         *)
(* Addresses and sizes are in units of 16 bytes, the size of a header and  *)
(* the grain of every address.  A block at a has its header at a and its   *)
(* data behind it.  header[a] is what was last written as a header at a;   *)
(* whoever writes one there overwrites what a held.  What a header says    *)
(* after its block has become part of another is not read again.           *)
(***************************************************************************)
EXTENDS Integers

CONSTANTS
    FreeMem,        \* the first free unit
    HoleStart,      \* the hole in memory: HoleStart..HoleEnd - 1
    HoleEnd,
    MaxAddr,        \* the last unit
    NULL,
    Sizes,          \* the sizes requested
    ExactFits       \* whether a request may fit a block exactly: see Harmless

SizeRange == 268435456      \* sizes are unsigned and of 32 bits: 2^32 / 16

ASSUME MemoryAssumption ==
    /\ FreeMem \in Nat /\ HoleStart \in Nat /\ HoleEnd \in Nat /\ MaxAddr \in Nat
    /\ FreeMem < HoleStart /\ HoleStart + 1 < HoleEnd /\ HoleEnd <= MaxAddr
    /\ MaxAddr < SizeRange
    /\ NULL \notin Int
    /\ Sizes \subseteq Nat
    /\ ExactFits \in BOOLEAN

Addr == FreeMem..MaxAddr
Usable == Addr \ (HoleStart..(HoleEnd - 1))

VARIABLES
    rootHeader,     \* the first free block
    header,         \* the headers: size, prev, next
    allocated       \* the blocks handed out and not freed: memLoc of the PCBs

vars == <<rootHeader, header, allocated>>

Header(size, prev, next) == [size |-> size, prev |-> prev, next |-> next]

Memory == [root |-> rootHeader, header |-> header, allocated |-> allocated]

Become(m) ==
    \E j \in {m} :
        rootHeader' = j.root /\ header' = j.header /\ allocated' = j.allocated

(* initializeMemHeaderList: one free block on either side of the hole.     *)
Init ==
    /\ rootHeader = FreeMem
    /\ allocated = {}
    /\ header = [a \in Addr |->
                    CASE a = FreeMem -> Header(HoleStart - FreeMem - 1, NULL, HoleEnd)
                      [] a = HoleEnd -> Header(MaxAddr - HoleEnd, FreeMem, NULL)
                      [] OTHER -> Header(0, NULL, NULL)]

-----------------------------------------------------------------------------
(* The walks along the free list.                                          *)

(* The first block that is big enough for n.                               *)
FirstFit(m, n) ==
    LET seek[a \in Addr] ==
            IF m.header[a].size >= n THEN a
            ELSE IF m.header[a].next = NULL THEN NULL
            ELSE seek[m.header[a].next]
    IN  IF m.root = NULL THEN NULL ELSE seek[m.root]

(* The last block before x, and the first at or behind it.                 *)
Before(m, x) ==
    LET seek[a \in Addr] ==
            IF m.header[a].next = NULL \/ m.header[a].next >= x THEN a
            ELSE seek[m.header[a].next]
    IN  seek[m.root]

After(m, x) == IF m.root >= x THEN m.root ELSE m.header[Before(m, x)].next

-----------------------------------------------------------------------------
(* Faulty variants, one slip each, that the properties must tell apart.    *)

\* the header of the rest is not paid for
RestWithoutHeader(size, n) == size - n

\* freed blocks are never merged
MergeNever(m, former, latter) == m

-----------------------------------------------------------------------------
(* Write to the header at a.  The code also writes through NULL, to        *)
(* address 4, where nothing of the allocator is.                           *)
SetNext(h, a, x) == IF a = NULL THEN h ELSE [h EXCEPT ![a].next = x]
SetPrev(h, a, x) == IF a = NULL THEN h ELSE [h EXCEPT ![a].prev = x]

(* The size of what remains of a block from which n are taken.             *)
Rest(size, n) == (size - (1 + n)) % SizeRange

(* getMemHeader: take n from the first block that is big enough, and put   *)
(* the rest in its place in the list, unless the rest would start in the   *)
(* hole, or just before it, or behind the last unit.  A block that ends    *)
(* with the memory stays linked from its predecessor.                      *)
GetMemHeader(m, node, n) ==
    LET start == node + 1 + n
        before == m.header[node].prev
        after == m.header[node].next
        rest == Header(Rest(m.header[node].size, n), before, after)
        inHole == start >= HoleStart - 1 /\ start < HoleEnd - 1
        behind == ~inHole /\ start > MaxAddr
        h == IF ~inHole /\ ~behind
             THEN SetPrev(SetNext([m.header EXCEPT ![start] = rest], before, start), after, start)
             ELSE IF before = NULL \/ inHole
             THEN SetPrev(SetNext(m.header, before, after), after, before)
             ELSE m.header
    IN  [root |-> IF before # NULL THEN m.root ELSE IF inHole \/ behind THEN after ELSE start,
         header |-> [h EXCEPT ![node] = Header(n, NULL, NULL)],
         allocated |-> m.allocated \cup {node}]

(* A request that does not fit its block exactly, or does so where no      *)
(* header is put behind it and the list has nothing before it.             *)
Harmless(node, n) ==
    \/ header[node].size # n
    \/ node + 1 + n = HoleStart
    \/ node + n = MaxAddr /\ header[node].prev = NULL

(* kmalloc: nothing happens when no block is big enough.                   *)
KMalloc(n) ==
    LET node == FirstFit(Memory, n)
    IN  /\ node # NULL
        /\ ExactFits \/ Harmless(node, n)
        /\ Become(GetMemHeader(Memory, node, n))

-----------------------------------------------------------------------------
(* insertMemHeaderLink with linkMemHeaderInFront and linkMemHeaderBehind:  *)
(* link a block into the list at its place.                                *)
InsertMemHeaderLink(m, a) ==
    IF m.root = NULL
    THEN [m EXCEPT !.root = a]
    ELSE LET after == After(m, a)
             before == IF after = NULL THEN Before(m, a) ELSE m.header[after].prev
             h == [m.header EXCEPT ![a].prev = before, ![a].next = after]
         IN  IF after = a
             THEN m
             ELSE [m EXCEPT !.root = IF a < @ THEN a ELSE @,
                            !.header = SetPrev(SetNext(h, before, a), after, a)]

(* checkAndMergeMemHeaders: two blocks without anything between them       *)
(* become one.                                                             *)
Merge(m, former, latter) ==
    IF former = NULL \/ latter = NULL
    THEN m
    ELSE LET f == m.header[former]
             l == m.header[latter]
             h == [m.header EXCEPT ![former] = Header(f.size + 1 + l.size, f.prev, l.next),
                                   ![latter] = Header(0, NULL, NULL)]
         IN  IF former + 1 + f.size # latter
             THEN m
             ELSE [m EXCEPT !.header = SetPrev(h, l.next, former)]

(* kfree of a block that was handed out.                                   *)
KFree(a) ==
    LET m1 == InsertMemHeaderLink([Memory EXCEPT !.allocated = @ \ {a}], a)
        before == m1.header[a].prev
        merged == before # NULL /\ before + 1 + m1.header[before].size = a
        m2 == Merge(m1, before, a)
        b == IF merged THEN before ELSE a
    IN  Become(Merge(m2, b, m2.header[b].next))

Next ==
    \/ \E n \in Sizes : KMalloc(n)
    \/ \E a \in allocated : KFree(a)

Spec == Init /\ [][Next]_vars

-----------------------------------------------------------------------------
(* The blocks of the free list.                                            *)
FreeBlocks ==
    LET from[a \in Addr] ==
            {a} \cup (IF header[a].next = NULL THEN {} ELSE from[header[a].next])
    IN  IF rootHeader = NULL THEN {} ELSE from[rootHeader]

Span(a) == a..(a + header[a].size)
Blocks == FreeBlocks \cup allocated

TypeOK ==
    /\ rootHeader \in Usable \cup {NULL}
    /\ header \in [Addr -> [size : 0..(MaxAddr - FreeMem), prev : Usable \cup {NULL},
                            next : Usable \cup {NULL}]]
    /\ allocated \subseteq Usable

(* No unit belongs to two blocks, be they free or handed out, and none to  *)
(* the hole: kmalloc (c/mem.c) "finds a free part of memory".              *)
BlocksDisjoint ==
    /\ \A a \in Blocks : Span(a) \subseteq Usable
    /\ \A a, b \in Blocks : a # b => Span(a) \cap Span(b) = {}
    /\ FreeBlocks \cap allocated = {}

(* kmalloc refuses a request only if no stretch of memory that nobody has  *)
(* is long enough: splitting and merging (c/memHeader.c) lose nothing but  *)
(* the unit before the hole, and leave no two free blocks side by side.    *)
RefusesOnlyWhenFull ==
    LET owned == (UNION {Span(a) : a \in allocated}) \cup {HoleStart - 1}
    IN  \A n \in Sizes :
            FirstFit(Memory, n) = NULL =>
                \A a \in Usable : ~(a..(a + n) \subseteq Usable \ owned)
=============================================================================

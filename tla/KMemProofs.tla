----------------------------- MODULE KMemProofs -----------------------------
(***************************************************************************)
(* The allocator, proved: its free list is linked in the order of the      *)
(* addresses, its blocks and those handed out cut up the memory between    *)
(* them, and no two free blocks lie side by side.                          *)
(*                                                                         *)
(* The walks of the model are recursive functions; that they return at all *)
(* is proved by exhibiting what they return, from links that lead forward. *)
(* Each operation is then a lemma about a memory m whose free blocks are a *)
(* set F: what it does to the list, and what it does to the layout.        *)
(***************************************************************************)
EXTENDS KMem, NaturalLemmas

(* The links of every header that was ever written lead forward.           *)
LinksAhead == \A a \in Addr : header[a].next = NULL \/ header[a].next > a

(* x is the least member of F that is at least a, or NULL.                 *)
FirstFrom(F, a, x) ==
    IF x = NULL THEN \A b \in F : b < a
    ELSE x \in F /\ x >= a /\ \A b \in F : b >= a => b >= x

(* x is the greatest member of F that is less than a, or NULL.             *)
LastBefore(F, a, x) ==
    IF x = NULL THEN \A b \in F : b >= a
    ELSE x \in F /\ x < a /\ \A b \in F : b < a => b <= x

(* h links the blocks F in the order of their addresses, from root on.     *)
InOrder(root, h, F) ==
    /\ F \subseteq Usable
    /\ FirstFrom(F, FreeMem, root)
    /\ \A a \in F : FirstFrom(F, a + 1, h[a].next) /\ LastBefore(F, a, h[a].prev)

(* The units of the block at a.                                            *)
Extent(h, a) == a..(a + h[a].size)

(* No block reaches into the hole, past the end, or up to the next one.    *)
Apart(h, B) ==
    /\ \A a \in B : Extent(h, a) \subseteq Usable
    /\ \A a, b \in B : a < b => a + h[a].size < b

(* Every unit but the one before the hole is in a block.                   *)
Covered(h, B) ==
    \A u \in Usable \ {HoleStart - 1} : \E a \in B : u \in Extent(h, a)

(* Right behind a free block there is no other.                            *)
Merged(h, F) == \A a \in F : a + 1 + h[a].size \notin F

(* A block that is handed out is linked to nothing.                        *)
AllocatedBare == \A a \in allocated : header[a].prev = NULL /\ header[a].next = NULL

(* A request fits a block exactly, and the header for the rest of nothing  *)
(* is written over what follows the block (memHeader.c:207).  With stacks  *)
(* of equal size that is what happens when one is freed and asked for.     *)
Overwrites == \E n \in Sizes : KMalloc(n) /\ ~Harmless(FirstFit(Memory, n), n)

NothingOverwritten == [][~Overwrites]_vars

(* The inductive invariant.                                                *)
IInv ==
    /\ TypeOK
    /\ LinksAhead
    /\ AllocatedBare
    /\ InOrder(rootHeader, header, FreeBlocks)
    /\ FreeBlocks \cap allocated = {}
    /\ Apart(header, Blocks)
    /\ Covered(header, Blocks)
    /\ Merged(header, FreeBlocks)

-----------------------------------------------------------------------------
(* The parts of the invariant, of any headers.                             *)
HeaderSize == 0..(MaxAddr - FreeMem)

Headers == [Addr -> [size : HeaderSize, prev : Usable \cup {NULL},
                     next : Usable \cup {NULL}]]

Ahead(h) == \A a \in Addr : h[a].next = NULL \/ h[a].next > a

(* The constants, the addresses and what is not one.                       *)
LEMMA AddrFacts ==
    /\ Usable \subseteq Addr /\ Addr \subseteq Nat
    /\ NULL \notin Addr /\ NULL \notin Int
    /\ FreeMem \in Usable /\ HoleEnd \in Usable
    /\ FreeMem \in Nat /\ HoleStart \in Nat /\ HoleEnd \in Nat /\ MaxAddr \in Nat
    /\ FreeMem < HoleStart /\ HoleStart < HoleEnd /\ HoleEnd <= MaxAddr
    /\ HoleStart + 1 < HoleEnd /\ MaxAddr < SizeRange
    /\ Sizes \subseteq Nat
    /\ \A a \in Usable : a >= FreeMem /\ a <= MaxAddr /\ (a < HoleStart \/ a >= HoleEnd)
  BY MemoryAssumption DEF Usable, Addr

(* The fields of a header.                                                 *)
LEMMA HeaderFacts ==
    ASSUME NEW h \in Headers, NEW a \in Addr
    PROVE  /\ h[a] \in [size : HeaderSize, prev : Usable \cup {NULL},
                        next : Usable \cup {NULL}]
           /\ h[a].size \in Nat /\ h[a].size <= MaxAddr - FreeMem
           /\ h[a].prev \in Usable \cup {NULL} /\ h[a].next \in Usable \cup {NULL}
  BY AddrFacts DEF Headers, HeaderSize

(* Induction along a list in the order of the addresses.                   *)
LEMMA Downwards ==
    ASSUME NEW F \in SUBSET Addr, NEW S,
           \A a \in F : (\A b \in F : b > a => b \in S) => a \in S
    PROVE  F \subseteq S
  <1> DEFINE out == {k \in Nat : \E a \in F : a \notin S /\ k = MaxAddr - a}
  <1>1. F \subseteq Nat /\ \A a \in F : a <= MaxAddr
    BY MemoryAssumption DEF Addr
  <1> SUFFICES ASSUME NEW c \in F, c \notin S PROVE FALSE
    OBVIOUS
  <1>2. MaxAddr - c \in out
    BY <1>1, MemoryAssumption
  <1>3. PICK m \in out : \A k \in out : m <= k
    BY <1>2, Least
  <1>4. PICK a \in F : a \notin S /\ m = MaxAddr - a
    BY <1>3
  <1>5. ASSUME NEW b \in F, b > a
        PROVE  b \in S
    <2> SUFFICES ASSUME b \notin S PROVE FALSE
      OBVIOUS
    <2>1. MaxAddr - b \in out
      BY <1>1, MemoryAssumption
    <2>2. m <= MaxAddr - b
      BY <1>3, <2>1
    <2> QED
      BY <1>1, <1>4, <1>5, <2>2, MemoryAssumption
  <1> QED
    BY <1>4, <1>5

-----------------------------------------------------------------------------
(* What the walks of the model compute.                                    *)
(* The blocks that a walk from a meets: the least set that holds a and the *)
(* next of each member.                                                    *)
ClosedIn(S, h) == \A a \in S : h[a].next \in S \cup {NULL}

From(h, a) ==
    {x \in Addr : \A S \in SUBSET Addr : (a \in S /\ ClosedIn(S, h)) => x \in S}

(* It is that set,                                                         *)
LEMMA FromHead ==
    ASSUME NEW h \in Headers, NEW a \in Addr
    PROVE  /\ a \in From(h, a)
           /\ From(h, a) \subseteq Addr
           /\ ClosedIn(From(h, a), h)
           /\ \A S \in SUBSET Addr : (a \in S /\ ClosedIn(S, h)) => From(h, a) \subseteq S
  <1>1. a \in From(h, a) /\ From(h, a) \subseteq Addr
    BY DEF From
  <1>2. \A S \in SUBSET Addr : (a \in S /\ ClosedIn(S, h)) => From(h, a) \subseteq S
    BY DEF From
  <1>3. \A x \in Addr : h[x].next \in Addr \cup {NULL}
    BY HeaderFacts, AddrFacts
  <1>4. ClosedIn(From(h, a), h)
    BY <1>3 DEF ClosedIn, From
  <1> QED
    BY <1>1, <1>2, <1>4

(* it is a and what is met from the next of a,                             *)
LEMMA FromNext ==
    ASSUME NEW h \in Headers, NEW a \in Addr
    PROVE  From(h, a) = {a} \cup (IF h[a].next = NULL THEN {} ELSE From(h, h[a].next))
  <1> DEFINE n == h[a].next
             rest == IF n = NULL THEN {} ELSE From(h, n)
  <1>1. n = NULL \/ n \in Addr
    BY HeaderFacts, AddrFacts
  <1>2. rest \subseteq Addr /\ ClosedIn(rest, h) /\ (n = NULL \/ n \in rest)
    BY <1>1, FromHead DEF ClosedIn
  <1>3. ClosedIn({a} \cup rest, h)
    BY <1>2 DEF ClosedIn
  <1>4. From(h, a) \subseteq {a} \cup rest
    <2> HIDE DEF rest
    <2>1. {a} \cup rest \in SUBSET Addr /\ a \in {a} \cup rest
      BY <1>2
    <2> QED
      BY <1>3, <2>1, FromHead
  <1>5. rest \subseteq From(h, a)
    <2>1. n = NULL \/ n \in From(h, a)
      BY FromHead DEF ClosedIn
    <2> QED
      BY <1>1, <2>1, FromHead
  <1> QED
    BY <1>4, <1>5, FromHead

(* and none of it lies before a.                                           *)
LEMMA FromAhead ==
    ASSUME NEW h \in Headers, Ahead(h), NEW a \in Addr, NEW x \in From(h, a)
    PROVE  x >= a
  <1> DEFINE S == {y \in Addr : y >= a}
  <1>1. ClosedIn(S, h)
    <2> SUFFICES ASSUME NEW y \in Addr, y >= a
                 PROVE  h[y].next \in S \cup {NULL}
      BY DEF ClosedIn
    <2>1. h[y].next = NULL \/ (h[y].next \in Addr /\ h[y].next > y)
      BY HeaderFacts, AddrFacts DEF Ahead
    <2>2. \A z \in Addr : z \in Nat
      BY AddrFacts
    <2>3. h[y].next # NULL => h[y].next >= a
      BY <2>1, <2>2
    <2> QED
      BY <2>1, <2>3
  <1>2. a \in S /\ S \in SUBSET Addr
    BY AddrFacts
  <1>3. From(h, a) \subseteq S
    <2> HIDE DEF S
    <2> QED
      BY <1>1, <1>2, FromHead
  <1> QED
    BY <1>3

(* f[a] is what a walk from a returns: g of the first block of D it meets. *)
Walks(f, h, D, g) ==
    /\ f = [a \in Addr |-> f[a]]
    /\ \A a \in Addr : f[a] = IF a \in D THEN g[a] ELSE f[h[a].next]

(* A walk along links that lead forward does return.                       *)
LEMMA WalkExists ==
    ASSUME NEW h \in Headers, Ahead(h), NEW g,
           NEW D \in SUBSET Addr, \A a \in Addr : h[a].next = NULL => a \in D
    PROVE  \E f : Walks(f, h, D, g)
  <1> DEFINE stops(a) == D \cap From(h, a)
             stop(a) == CHOOSE x \in stops(a) : \A y \in stops(a) : x <= y
             w == [a \in Addr |-> g[stop(a)]]
  <1> HIDE DEF stop
  <1>1. ASSUME NEW a \in Addr
        PROVE  w[a] = IF a \in D THEN g[a] ELSE w[h[a].next]
    <2>1. CASE a \in D
      <3>1. a \in stops(a) /\ \A y \in stops(a) : a <= y /\ y \in Nat
        BY <2>1, FromHead, FromAhead, AddrFacts
      <3>2. stop(a) = a
        <4> HIDE DEF stops
        <4>1. \E x \in stops(a) : \A y \in stops(a) : x <= y
          BY <3>1
        <4>2. stop(a) \in stops(a) /\ \A y \in stops(a) : stop(a) <= y
          BY <4>1 DEF stop
        <4> QED
          BY <3>1, <4>2
      <3> QED
        BY <2>1, <3>2
    <2>2. CASE a \notin D
      <3>1. h[a].next \in Addr
        BY <2>2, HeaderFacts, AddrFacts
      <3>2. stops(a) = stops(h[a].next)
        BY <2>2, <3>1, FromNext, AddrFacts
      <3>3. stop(a) = stop(h[a].next)
        BY <3>2 DEF stop
      <3> QED
        BY <2>2, <3>1, <3>3
    <2> QED
      BY <2>1, <2>2
  <1>2. w = [a \in Addr |-> w[a]]
    OBVIOUS
  <1> HIDE DEF w
  <1>3. Walks(w, h, D, g)
    BY <1>1, <1>2 DEF Walks
  <1> QED
    BY <1>3

(* FreeBlocks, of any free list.                                           *)
FreeOf(root, h) ==
    LET from[a \in Addr] ==
            {a} \cup (IF h[a].next = NULL THEN {} ELSE from[h[a].next])
    IN  IF root = NULL THEN {} ELSE from[root]

(* An ordered list holds the blocks it is meant to.                        *)
LEMMA FreeOfList ==
    ASSUME NEW h \in Headers, NEW root, NEW F, InOrder(root, h, F)
    PROVE  FreeOf(root, h) = F
  <1> DEFINE Walk(f) == f = [a \in Addr |->
                             {a} \cup (IF h[a].next = NULL THEN {} ELSE f[h[a].next])]
             from == CHOOSE f : Walk(f)
  <1>1. F \subseteq Addr /\ F \subseteq Nat
    BY AddrFacts DEF InOrder
  <1>2. Walk([a \in Addr |-> From(h, a)])
    <2> DEFINE w == [a \in Addr |-> From(h, a)]
    <2>1. ASSUME NEW a \in Addr
          PROVE  From(h, a) = {a} \cup (IF h[a].next = NULL THEN {} ELSE w[h[a].next])
      <3>1. h[a].next # NULL => h[a].next \in Addr
        BY HeaderFacts, AddrFacts
      <3> QED
        BY <3>1, FromNext
    <2> QED
      BY <2>1
  <1>3. Walk(from)
    BY <1>2
  <1>4. \A a \in Addr : from[a] = {a} \cup (IF h[a].next = NULL THEN {} ELSE from[h[a].next])
    <2> HIDE DEF from
    <2> QED
      BY <1>3
  <1>5. FreeOf(root, h) = IF root = NULL THEN {} ELSE from[root]
    BY DEF FreeOf
  <1> HIDE DEF from
  <1> DEFINE S == {a \in Addr : from[a] = {b \in F : b >= a}}
  <1>6. ASSUME NEW a \in F, \A b \in F : b > a => b \in S
        PROVE  a \in S
    <2>1. FirstFrom(F, a + 1, h[a].next) /\ a \in Addr /\ a \in Nat
      BY <1>1 DEF InOrder
    <2>2. CASE h[a].next = NULL
      <3>1. \A b \in F : b >= a => b = a
        BY <1>1, <2>1, <2>2 DEF FirstFrom
      <3>2. from[a] = {a}
        BY <1>4, <2>1, <2>2
      <3>3. {b \in F : b >= a} = {a}
        <4>1. \A b \in F : b >= a <=> b = a
          BY <2>1, <3>1
        <4> QED
          BY <4>1
      <3> QED
        BY <2>1, <3>2, <3>3
    <2>3. CASE h[a].next # NULL
      <3> DEFINE n == h[a].next
      <3>0. n \in F /\ n >= a + 1 /\ \A b \in F : b >= a + 1 => b >= n
        BY <2>1, <2>3 DEF FirstFrom
      <3> HIDE DEF n
      <3>1. n \in F /\ n > a /\ \A b \in F : b > a => b >= n
        <4>1. n \in Nat /\ a \in Nat /\ \A b \in F : b \in Nat
          BY <1>1, <2>1, <3>0
        <4> QED
          BY <3>0, <4>1
      <3>2. from[n] = {b \in F : b >= n}
        BY <1>6, <3>1
      <3>3. from[a] = {a} \cup from[n]
        BY <1>4, <2>1, <2>3 DEF n
      <3>4. \A b \in F : b >= a <=> (b = a \/ b >= n)
        BY <1>1, <2>1, <3>1
      <3> QED
        BY <2>1, <3>2, <3>3, <3>4
    <2> QED
      BY <2>2, <2>3
  <1>7. F \subseteq S
    <2> HIDE DEF S
    <2> QED
      BY <1>1, <1>6, Downwards
  <1>8. CASE root = NULL
    <2>1. \A b \in F : b < FreeMem
      BY <1>8 DEF InOrder, FirstFrom
    <2>2. F = {}
      BY <2>1, AddrFacts DEF InOrder
    <2> QED
      BY <1>5, <1>8, <2>2
  <1>9. CASE root # NULL
    <2>1. root \in F /\ \A b \in F : b >= root
      BY <1>9, AddrFacts DEF InOrder, FirstFrom
    <2> QED
      BY <1>5, <1>7, <1>9, <2>1
  <1> QED
    BY <1>8, <1>9

MemoryType == [root : Usable \cup {NULL}, header : Headers, allocated : SUBSET Usable]

(* The state of a walk's memory: a list of F whose links lead forward.     *)
Walkable(m, F) ==
    m \in MemoryType /\ Ahead(m.header) /\ InOrder(m.root, m.header, F)

(* The list of such a memory, without NULLs to tell apart.                 *)
LEMMA WalkableFacts ==
    ASSUME NEW m, NEW F, Walkable(m, F)
    PROVE  /\ F \subseteq Addr /\ F \subseteq Nat /\ F \subseteq Usable
           /\ m.root = NULL => F = {}
           /\ m.root # NULL => m.root \in F /\ \A b \in F : b >= m.root
           /\ \A a \in F : m.header[a].next # NULL =>
                /\ m.header[a].next \in F /\ m.header[a].next > a
                /\ \A b \in F : b > a => b >= m.header[a].next
           /\ \A a \in F : m.header[a].next = NULL => \A b \in F : b <= a
  <1>1. F \subseteq Addr /\ F \subseteq Nat /\ F \subseteq Usable /\ \A b \in F : b >= FreeMem
    BY AddrFacts DEF InOrder, Walkable
  <1>2. FirstFrom(F, FreeMem, m.root)
    BY DEF InOrder, Walkable
  <1>3. m.root = NULL => F = {}
    BY <1>1, <1>2, AddrFacts DEF FirstFrom
  <1>4. m.root # NULL => m.root \in F /\ \A b \in F : b >= m.root
    BY <1>1, <1>2 DEF FirstFrom
  <1>5. ASSUME NEW a \in F
        PROVE  /\ m.header[a].next # NULL =>
                    /\ m.header[a].next \in F /\ m.header[a].next > a
                    /\ \A b \in F : b > a => b >= m.header[a].next
               /\ m.header[a].next = NULL => \A b \in F : b <= a
    <2> DEFINE n == m.header[a].next
    <2>1. FirstFrom(F, a + 1, n)
      BY DEF InOrder, Walkable
    <2> HIDE DEF n
    <2>2. a \in Nat /\ \A b \in F : b \in Nat
      BY <1>1
    <2>3. n # NULL => n \in F /\ n > a /\ \A b \in F : b > a => b >= n
      <3> SUFFICES ASSUME n # NULL
                   PROVE  n \in F /\ n > a /\ \A b \in F : b > a => b >= n
        OBVIOUS
      <3>1. n \in F /\ n >= a + 1 /\ \A b \in F : b >= a + 1 => b >= n
        BY <2>1 DEF FirstFrom
      <3>2. n \in Nat
        BY <2>2, <3>1
      <3> QED
        BY <2>2, <3>1, <3>2
    <2>4. n = NULL => \A b \in F : b <= a
      BY <2>1, <2>2 DEF FirstFrom
    <2> QED
      BY <2>3, <2>4 DEF n
  <1> QED
    BY <1>1, <1>3, <1>4, <1>5

(* kmalloc's search finds a block that is big enough, if there is one.     *)
LEMMA FirstFitFinds ==
    ASSUME NEW m, NEW F, Walkable(m, F), NEW n \in Nat
    PROVE  \/ FirstFit(m, n) = NULL /\ \A a \in F : m.header[a].size < n
           \/ FirstFit(m, n) \in F /\ m.header[FirstFit(m, n)].size >= n
  <1> DEFINE h == m.header
             Walk(f) == f = [a \in Addr |-> IF m.header[a].size >= n THEN a
                                            ELSE IF m.header[a].next = NULL THEN NULL
                                            ELSE f[m.header[a].next]]
             seek == CHOOSE f : Walk(f)
  <1>1. \E f : Walk(f)
    <2> DEFINE D == {a \in Addr : h[a].size >= n \/ h[a].next = NULL}
               g == [a \in Addr |-> IF h[a].size >= n THEN a ELSE NULL]
    <2>1. h \in Headers /\ Ahead(h) /\ D \in SUBSET Addr
          /\ \A a \in Addr : h[a].next = NULL => a \in D
      BY DEF Walkable, MemoryType
    <2>2. \A a \in Addr : a \in D <=> (h[a].size >= n \/ h[a].next = NULL)
      OBVIOUS
    <2>3. \A a \in Addr : g[a] = IF h[a].size >= n THEN a ELSE NULL
      OBVIOUS
    <2> HIDE DEF D, g, h
    <2>4. PICK f : Walks(f, h, D, g)
      BY <2>1, WalkExists
    <2>5. \A a \in Addr : f[a] = IF h[a].size >= n THEN a
                                 ELSE IF h[a].next = NULL THEN NULL ELSE f[h[a].next]
      BY <2>2, <2>3, <2>4 DEF Walks
    <2>6. Walk(f)
      BY <2>4, <2>5 DEF h, Walks
    <2> HIDE DEF Walk
    <2> QED
      BY <2>6
  <1>2. Walk(seek)
    <2> HIDE DEF Walk
    <2> QED
      BY <1>1
  <1>3. FirstFit(m, n) = IF m.root = NULL THEN NULL ELSE seek[m.root]
    BY DEF FirstFit
  <1> HIDE DEF seek
  <1>4. \A a \in Addr : seek[a] = IF h[a].size >= n THEN a
                                  ELSE IF h[a].next = NULL THEN NULL ELSE seek[h[a].next]
    BY <1>2
  <1> DEFINE Found(a) == \/ seek[a] = NULL /\ \A b \in F : b >= a => h[b].size < n
                         \/ seek[a] \in F /\ h[seek[a]].size >= n
             S == {a \in Addr : Found(a)}
  <1>5. F \subseteq Addr /\ h \in Headers
    BY WalkableFacts DEF Walkable, MemoryType
  <1>6. ASSUME NEW a \in F, \A b \in F : b > a => b \in S
        PROVE  Found(a)
    <2>1. a \in Addr /\ a \in Nat /\ h[a].size \in Nat
      BY <1>5, AddrFacts, HeaderFacts
    <2>2. CASE h[a].size >= n
      BY <1>4, <2>1, <2>2
    <2>3. CASE ~(h[a].size >= n) /\ h[a].next = NULL
      <3>1. seek[a] = NULL
        BY <1>4, <2>1, <2>3
      <3>2. \A b \in F : b >= a => b = a
        BY <2>1, <2>3, WalkableFacts
      <3>3. h[a].size < n
        BY <2>1, <2>3
      <3> QED
        BY <3>1, <3>2, <3>3
    <2>4. CASE ~(h[a].size >= n) /\ h[a].next # NULL
      <3>1. seek[a] = seek[h[a].next]
        BY <1>4, <2>1, <2>4
      <3>2. /\ h[a].next \in F /\ h[a].next > a
            /\ \A b \in F : b > a => b >= h[a].next
        BY <2>4, WalkableFacts
      <3>3. Found(h[a].next)
        BY <1>6, <3>2
      <3>4. \A b \in F : b >= a => b = a \/ b >= h[a].next
        BY <2>1, <3>2, WalkableFacts
      <3>5. h[a].size < n
        BY <2>1, <2>4
      <3> QED
        BY <3>1, <3>3, <3>4, <3>5
    <2> QED
      BY <2>2, <2>3, <2>4
  <1>7. F \subseteq S
    <2>1. \A a \in F : (\A b \in F : b > a => b \in S) => a \in S
      BY <1>5, <1>6
    <2> HIDE DEF S
    <2> QED
      BY <1>5, <2>1, Downwards
  <1> HIDE DEF h
  <1>8. CASE m.root = NULL
    BY <1>3, <1>8, WalkableFacts
  <1>9. CASE m.root # NULL
    <2>1. m.root \in F /\ \A b \in F : b >= m.root
      BY <1>9, WalkableFacts
    <2>2. Found(m.root)
      BY <1>7, <2>1
    <2> QED
      BY <1>3, <1>9, <2>1, <2>2 DEF h
  <1> QED
    BY <1>8, <1>9

(* insertMemHeaderLink's search finds the last block before an address.    *)
LEMMA BeforeFinds ==
    ASSUME NEW m, NEW F, Walkable(m, F), NEW x \in Addr, m.root # NULL, m.root < x
    PROVE  /\ Before(m, x) \in F /\ Before(m, x) < x
           /\ \A b \in F : b < x => b <= Before(m, x)
  <1> DEFINE h == m.header
             Walk(f) == f = [a \in Addr |-> IF \/ m.header[a].next = NULL
                                               \/ m.header[a].next >= x
                                            THEN a ELSE f[m.header[a].next]]
             seek == CHOOSE f : Walk(f)
  <1>1. \E f : Walk(f)
    <2> DEFINE D == {a \in Addr : h[a].next = NULL \/ h[a].next >= x}
               g == [a \in Addr |-> a]
    <2>1. /\ h \in Headers /\ Ahead(h) /\ D \in SUBSET Addr
          /\ \A a \in Addr : h[a].next = NULL => a \in D
      BY DEF Walkable, MemoryType
    <2>2. \A a \in Addr : a \in D <=> (h[a].next = NULL \/ h[a].next >= x)
      OBVIOUS
    <2>3. \A a \in Addr : g[a] = a
      OBVIOUS
    <2> HIDE DEF D, g, h
    <2>4. PICK f : Walks(f, h, D, g)
      BY <2>1, WalkExists
    <2>5. \A a \in Addr : f[a] = IF h[a].next = NULL \/ h[a].next >= x
                                 THEN a ELSE f[h[a].next]
      BY <2>2, <2>3, <2>4 DEF Walks
    <2>6. Walk(f)
      BY <2>4, <2>5 DEF h, Walks
    <2> HIDE DEF Walk
    <2> QED
      BY <2>6
  <1>2. Walk(seek)
    <2> HIDE DEF Walk
    <2> QED
      BY <1>1
  <1>3. Before(m, x) = seek[m.root]
    BY DEF Before
  <1> HIDE DEF seek
  <1>4. \A a \in Addr : seek[a] = IF h[a].next = NULL \/ h[a].next >= x
                                  THEN a ELSE seek[h[a].next]
    BY <1>2
  <1> DEFINE Found(a) == /\ seek[a] \in F /\ seek[a] < x
                         /\ \A b \in F : b < x => b <= seek[a]
             S == {a \in Addr : a < x => Found(a)}
  <1>5. F \subseteq Addr /\ (\A b \in F : b \in Nat) /\ x \in Nat
    BY WalkableFacts, AddrFacts
  <1>6. ASSUME NEW a \in F, \A b \in F : b > a => b \in S, a < x
        PROVE  Found(a)
    <2>1. a \in Addr /\ a \in Nat
      BY <1>5
    <2>2. CASE h[a].next = NULL \/ h[a].next >= x
      <3>1. seek[a] = a
        BY <1>4, <2>1, <2>2
      <3>2. CASE h[a].next = NULL
        BY <1>5, <1>6, <3>1, <3>2, WalkableFacts
      <3>3. CASE h[a].next # NULL
        <4>1. h[a].next \in F /\ \A b \in F : b > a => b >= h[a].next
          BY <3>3, WalkableFacts
        <4>2. h[a].next >= x /\ h[a].next \in Nat
          BY <1>5, <2>2, <3>3, <4>1
        <4>3. \A b \in F : b < x => b <= a
          <5> SUFFICES ASSUME NEW b \in F, b < x
                       PROVE  b <= a
            OBVIOUS
          <5>1. b > a => b >= h[a].next
            BY <4>1
          <5>2. b \in Nat /\ a \in Nat /\ x \in Nat /\ h[a].next \in Nat
            BY <1>5, <2>1, <4>2
          <5> HIDE DEF h
          <5> QED
            BY <4>2, <5>1, <5>2
        <4> QED
          BY <1>6, <3>1, <4>3
      <3> QED
        BY <3>2, <3>3
    <2>3. CASE ~(h[a].next = NULL \/ h[a].next >= x)
      <3>1. seek[a] = seek[h[a].next]
        BY <1>4, <2>1, <2>3
      <3>2. h[a].next \in F /\ h[a].next > a
        BY <2>3, WalkableFacts
      <3>3. h[a].next < x
        <4> HIDE DEF h
        <4>1. h[a].next \in Nat
          BY <1>5, <3>2
        <4> QED
          BY <1>5, <2>3, <4>1
      <3>4. Found(h[a].next)
        BY <1>6, <3>2, <3>3
      <3> QED
        BY <3>1, <3>4
    <2> QED
      BY <2>2, <2>3
  <1>7. F \subseteq S
    <2>1. \A a \in F : (\A b \in F : b > a => b \in S) => a \in S
      BY <1>5, <1>6
    <2> HIDE DEF S
    <2> QED
      BY <1>5, <2>1, Downwards
  <1>8. m.root \in F
    BY WalkableFacts
  <1>9. Found(m.root)
    BY <1>7, <1>8
  <1> HIDE DEF h
  <1> QED
    BY <1>3, <1>9

(* ... and the first one at or behind it.                                  *)
LEMMA AfterFinds ==
    ASSUME NEW m, NEW F, Walkable(m, F), NEW x \in Addr, m.root # NULL
    PROVE  FirstFrom(F, x, After(m, x))
  <1>1. /\ \A b \in F : b \in Nat
        /\ x \in Nat /\ m.root \in F /\ m.root \in Nat /\ \A b \in F : b >= m.root
    BY WalkableFacts, AddrFacts
  <1>2. NULL \notin F
    BY WalkableFacts, AddrFacts
  <1>3. CASE m.root >= x
    BY <1>1, <1>2, <1>3 DEF After, FirstFrom
  <1>4. CASE m.root < x
    <2> DEFINE b == Before(m, x)
               n == m.header[b].next
    <2>1. b \in F /\ b < x /\ \A c \in F : c < x => c <= b
      BY <1>4, BeforeFinds
    <2>2. After(m, x) = n
      BY <1>1, <1>4 DEF After
    <2>3. CASE n = NULL
      <3>1. \A c \in F : c <= b
        BY <2>1, <2>3, WalkableFacts
      <3> HIDE DEF b, n
      <3>2. \A c \in F : c < x
        BY <1>1, <2>1, <3>1
      <3> QED
        BY <2>2, <2>3, <3>2 DEF FirstFrom
    <2>4. CASE n # NULL
      <3>1. n \in F /\ n > b /\ \A c \in F : c > b => c >= n
        BY <2>1, <2>4, WalkableFacts
      <3> HIDE DEF n, b
      <3>2. n >= x
        BY <1>1, <2>1, <3>1
      <3>3. \A c \in F : c >= x => c >= n
        BY <1>1, <2>1, <3>1
      <3> QED
        BY <2>2, <2>4, <3>1, <3>2, <3>3 DEF FirstFrom
    <2> QED
      BY <2>3, <2>4
  <1> QED
    BY <1>1, <1>3, <1>4

-----------------------------------------------------------------------------
(* How the neighbours of an address change with the set: a is added,       *)
LEMMA AddNeighbours ==
    ASSUME NEW F \in SUBSET Nat, NEW a \in Nat \ F, NEW c \in Nat, NEW x
    PROVE  /\ FirstFrom(F, c, x) =>
                FirstFrom(F \cup {a}, c, IF a >= c /\ (x = NULL \/ a < x) THEN a ELSE x)
           /\ LastBefore(F, c, x) =>
                LastBefore(F \cup {a}, c, IF a < c /\ (x = NULL \/ a > x) THEN a ELSE x)
  <1>0. a # NULL /\ a \in Nat /\ c \in Nat /\ \A b \in F : b \in Nat
    BY AddrFacts
  <1>1. ASSUME FirstFrom(F, c, x)
        PROVE  FirstFrom(F \cup {a}, c, IF a >= c /\ (x = NULL \/ a < x) THEN a ELSE x)
    <2>1. CASE x = NULL
      <3>1. \A b \in F : b < c
        BY <1>1, <2>1 DEF FirstFrom
      <3>2. CASE a >= c
        BY <1>0, <2>1, <3>1, <3>2 DEF FirstFrom
      <3>3. CASE a < c
        BY <1>0, <2>1, <3>1, <3>3 DEF FirstFrom
      <3> QED
        BY <1>0, <3>2, <3>3
    <2>2. CASE x # NULL
      <3>1. x \in F /\ x \in Nat /\ x >= c /\ \A b \in F : b >= c => b >= x
        BY <1>0, <1>1, <2>2 DEF FirstFrom
      <3>2. CASE a >= c /\ a < x
        BY <1>0, <2>2, <3>1, <3>2 DEF FirstFrom
      <3>3. CASE ~(a >= c /\ a < x)
        BY <1>0, <2>2, <3>1, <3>3 DEF FirstFrom
      <3> QED
        BY <3>2, <3>3
    <2> QED
      BY <2>1, <2>2
  <1>2. ASSUME LastBefore(F, c, x)
        PROVE  LastBefore(F \cup {a}, c, IF a < c /\ (x = NULL \/ a > x) THEN a ELSE x)
    <2>1. CASE x = NULL
      <3>1. \A b \in F : b >= c
        BY <1>2, <2>1 DEF LastBefore
      <3>2. CASE a >= c
        BY <1>0, <2>1, <3>1, <3>2 DEF LastBefore
      <3>3. CASE a < c
        BY <1>0, <2>1, <3>1, <3>3 DEF LastBefore
      <3> QED
        BY <1>0, <3>2, <3>3
    <2>2. CASE x # NULL
      <3>1. x \in F /\ x \in Nat /\ x < c /\ \A b \in F : b < c => b <= x
        BY <1>0, <1>2, <2>2 DEF LastBefore
      <3>2. CASE a < c /\ a > x
        BY <1>0, <2>2, <3>1, <3>2 DEF LastBefore
      <3>3. CASE ~(a < c /\ a > x)
        BY <1>0, <2>2, <3>1, <3>3 DEF LastBefore
      <3> QED
        BY <3>2, <3>3
    <2> QED
      BY <2>1, <2>2
  <1> QED
    BY <1>1, <1>2

(* a comes right behind b just when b comes right before a.                *)
LEMMA MutualNeighbours ==
    ASSUME NEW F \in SUBSET Nat, NEW a \in Nat \ F, NEW b \in F, NEW n, NEW y
    PROVE  /\ FirstFrom(F, b + 1, n) /\ LastBefore(F, a, y) =>
                ((a >= b + 1 /\ (n = NULL \/ a < n)) <=> b = y)
           /\ LastBefore(F, b, n) /\ FirstFrom(F, a, y) =>
                ((a < b /\ (n = NULL \/ a > n)) <=> b = y)
  <1>0. /\ a \in Nat /\ b \in Nat /\ a # NULL /\ b # NULL /\ a # b
        /\ \A c \in F : c \in Nat /\ c # NULL /\ c # a
    BY AddrFacts
  <1>1. ASSUME FirstFrom(F, b + 1, n), LastBefore(F, a, y)
        PROVE  (a >= b + 1 /\ (n = NULL \/ a < n)) <=> b = y
    <2>1. n # NULL => n \in F /\ n >= b + 1 /\ \A c \in F : c >= b + 1 => c >= n
      BY <1>1 DEF FirstFrom
    <2>2. n = NULL => \A c \in F : c < b + 1
      BY <1>1 DEF FirstFrom
    <2>3. y # NULL => y \in F /\ y < a /\ \A c \in F : c < a => c <= y
      BY <1>1 DEF LastBefore
    <2>4. y = NULL => \A c \in F : c >= a
      BY <1>1 DEF LastBefore
    <2>5. CASE b = y
      <3>1. a >= b + 1
        BY <1>0, <2>3, <2>5
      <3>2. n # NULL => n \in Nat /\ n # a /\ (n < a => n <= b)
        BY <1>0, <2>1, <2>3, <2>5
      <3> QED
        BY <1>0, <2>1, <2>5, <3>1, <3>2
    <2>6. CASE b # y /\ b < a
      <3>0. y = NULL => b >= a
        BY <2>4
      <3>5. y # NULL
        BY <1>0, <2>6, <3>0
      <3>6. y \in F /\ y < a /\ b <= y
        BY <2>3, <2>6, <3>5
      <3>1. y # NULL /\ y \in F /\ y \in Nat /\ b <= y /\ y < a
        BY <1>0, <3>5, <3>6
      <3>2. y >= b + 1
        BY <1>0, <2>6, <3>1
      <3>3. n = NULL => y < b + 1
        BY <2>2, <3>1
      <3>7. n # NULL
        BY <1>0, <3>1, <3>2, <3>3
      <3>8. n \in F /\ y >= n
        BY <2>1, <3>1, <3>2, <3>7
      <3>4. n # NULL /\ n \in Nat /\ y >= n
        BY <1>0, <3>7, <3>8
      <3> QED
        BY <1>0, <2>6, <3>1, <3>4
    <2>7. CASE b # y /\ ~(b < a)
      BY <1>0, <2>7
    <2> QED
      BY <2>5, <2>6, <2>7
  <1>2. ASSUME LastBefore(F, b, n), FirstFrom(F, a, y)
        PROVE  (a < b /\ (n = NULL \/ a > n)) <=> b = y
    <2>1. n # NULL => n \in F /\ n < b /\ \A c \in F : c < b => c <= n
      BY <1>2 DEF LastBefore
    <2>2. n = NULL => \A c \in F : c >= b
      BY <1>2 DEF LastBefore
    <2>3. y # NULL => y \in F /\ y >= a /\ \A c \in F : c >= a => c >= y
      BY <1>2 DEF FirstFrom
    <2>4. y = NULL => \A c \in F : c < a
      BY <1>2 DEF FirstFrom
    <2>5. CASE b = y
      <3>1. a < b
        BY <1>0, <2>3, <2>5
      <3>2. n # NULL => n \in Nat /\ n # a /\ (n >= a => n >= b)
        BY <1>0, <2>1, <2>3, <2>5
      <3> QED
        BY <1>0, <2>1, <2>5, <3>1, <3>2
    <2>6. CASE b # y /\ a < b
      <3>0. y = NULL => b < a
        BY <2>4
      <3>5. y # NULL
        BY <1>0, <2>6, <3>0
      <3>6. y \in F /\ y >= a /\ b >= y
        BY <1>0, <2>3, <2>6, <3>5
      <3>1. y # NULL /\ y \in F /\ y \in Nat /\ b >= y /\ y >= a /\ y # a
        BY <1>0, <3>5, <3>6
      <3>2. y < b
        BY <1>0, <2>6, <3>1
      <3>3. n = NULL => y >= b
        BY <2>2, <3>1
      <3>7. n # NULL
        BY <1>0, <3>1, <3>2, <3>3
      <3>8. n \in F /\ y <= n
        BY <2>1, <3>1, <3>2, <3>7
      <3>4. n # NULL /\ n \in Nat /\ y <= n
        BY <1>0, <3>7, <3>8
      <3> QED
        BY <1>0, <2>6, <3>1, <3>4
    <2>7. CASE b # y /\ ~(a < b)
      BY <1>0, <2>7
    <2> QED
      BY <2>5, <2>6, <2>7
  <1> QED
    BY <1>1, <1>2

(* Without d, what had d for a neighbour has that of d.                    *)
LEMMA DropNeighbours ==
    ASSUME NEW F \in SUBSET Nat, NEW d \in F, NEW c \in Nat, NEW x, NEW y
    PROVE  /\ FirstFrom(F, c, x) /\ FirstFrom(F, d + 1, y) =>
                FirstFrom(F \ {d}, c, IF x = d THEN y ELSE x)
           /\ LastBefore(F, c, x) /\ LastBefore(F, d, y) =>
                LastBefore(F \ {d}, c, IF x = d THEN y ELSE x)
  <1>0. d # NULL /\ d \in Nat /\ c \in Nat /\ \A b \in F : b \in Nat /\ b # NULL
    BY AddrFacts
  <1>1. ASSUME FirstFrom(F, c, x), FirstFrom(F, d + 1, y)
        PROVE  FirstFrom(F \ {d}, c, IF x = d THEN y ELSE x)
    <2>1. CASE x # d
      BY <1>0, <1>1, <2>1 DEF FirstFrom
    <2>2. CASE x = d
      <3>1. d >= c /\ \A b \in F : b >= c => b >= d
        BY <1>0, <1>1, <2>2 DEF FirstFrom
      <3>2. CASE y = NULL
        <4>1. \A b \in F : b < d + 1
          BY <1>1, <3>2 DEF FirstFrom
        <4>2. \A b \in F \ {d} : b < c
          BY <1>0, <3>1, <4>1
        <4> QED
          BY <2>2, <3>2, <4>2 DEF FirstFrom
      <3>3. CASE y # NULL
        <4>1. y \in F /\ y \in Nat /\ y >= d + 1 /\ \A b \in F : b >= d + 1 => b >= y
          BY <1>0, <1>1, <3>3 DEF FirstFrom
        <4>2. y \in F \ {d} /\ y >= c /\ \A b \in F \ {d} : b >= c => b >= y
          BY <1>0, <3>1, <4>1
        <4> QED
          BY <2>2, <3>3, <4>2 DEF FirstFrom
      <3> QED
        BY <3>2, <3>3
    <2> QED
      BY <2>1, <2>2
  <1>2. ASSUME LastBefore(F, c, x), LastBefore(F, d, y)
        PROVE  LastBefore(F \ {d}, c, IF x = d THEN y ELSE x)
    <2>1. CASE x # d
      BY <1>0, <1>2, <2>1 DEF LastBefore
    <2>2. CASE x = d
      <3>1. d < c /\ \A b \in F : b < c => b <= d
        BY <1>0, <1>2, <2>2 DEF LastBefore
      <3>2. CASE y = NULL
        <4>1. \A b \in F : b >= d
          BY <1>2, <3>2 DEF LastBefore
        <4>2. \A b \in F \ {d} : b >= c
          BY <1>0, <3>1, <4>1
        <4> QED
          BY <2>2, <3>2, <4>2 DEF LastBefore
      <3>3. CASE y # NULL
        <4>1. y \in F /\ y \in Nat /\ y < d /\ \A b \in F : b < d => b <= y
          BY <1>0, <1>2, <3>3 DEF LastBefore
        <4>2. y \in F \ {d} /\ y < c /\ \A b \in F \ {d} : b < c => b <= y
          BY <1>0, <3>1, <4>1
        <4> QED
          BY <2>2, <3>3, <4>2 DEF LastBefore
      <3> QED
        BY <3>2, <3>3
    <2> QED
      BY <2>1, <2>2
  <1> QED
    BY <1>1, <1>2

(* With e for d, and nothing between them, e takes the place of d.         *)
LEMMA MoveNeighbours ==
    ASSUME NEW F \in SUBSET Nat, NEW d \in F, NEW e \in Nat, e > d,
           \A b \in F : b > d => b > e,
           NEW c \in Nat, c <= d \/ c > e, NEW x
    PROVE  /\ FirstFrom(F, c, x) =>
                FirstFrom((F \ {d}) \cup {e}, c, IF x = d THEN e ELSE x)
           /\ LastBefore(F, c, x) =>
                LastBefore((F \ {d}) \cup {e}, c, IF x = d THEN e ELSE x)
  <1>0. /\ d # NULL /\ d \in Nat /\ e # NULL /\ e \in Nat /\ c \in Nat
        /\ \A b \in F : b \in Nat /\ b # NULL
    BY AddrFacts
  <1>1. ASSUME FirstFrom(F, c, x)
        PROVE  FirstFrom((F \ {d}) \cup {e}, c, IF x = d THEN e ELSE x)
    <2>1. CASE x = NULL
      BY <1>0, <1>1, <2>1 DEF FirstFrom
    <2>2. CASE x = d
      <3>1. d >= c /\ \A b \in F : b >= c => b >= d
        BY <1>0, <1>1, <2>2 DEF FirstFrom
      <3>2. e >= c /\ \A b \in F \ {d} : b >= c => b >= e
        BY <1>0, <3>1
      <3> QED
        BY <1>0, <2>2, <3>2 DEF FirstFrom
    <2>3. CASE x # NULL /\ x # d
      <3>1. x \in F /\ x \in Nat /\ x >= c /\ \A b \in F : b >= c => b >= x
        BY <1>0, <1>1, <2>3 DEF FirstFrom
      <3>2. e >= c => e >= x
        BY <1>0, <3>1
      <3> QED
        BY <1>0, <2>3, <3>1, <3>2 DEF FirstFrom
    <2> QED
      BY <2>1, <2>2, <2>3
  <1>2. ASSUME LastBefore(F, c, x)
        PROVE  LastBefore((F \ {d}) \cup {e}, c, IF x = d THEN e ELSE x)
    <2>1. CASE x = NULL
      BY <1>0, <1>2, <2>1 DEF LastBefore
    <2>2. CASE x = d
      <3>1. d < c /\ \A b \in F : b < c => b <= d
        BY <1>0, <1>2, <2>2 DEF LastBefore
      <3>2. e < c /\ \A b \in F \ {d} : b < c => b <= e
        BY <1>0, <3>1
      <3> QED
        BY <1>0, <2>2, <3>2 DEF LastBefore
    <2>3. CASE x # NULL /\ x # d
      <3>1. x \in F /\ x \in Nat /\ x < c /\ \A b \in F : b < c => b <= x
        BY <1>0, <1>2, <2>3 DEF LastBefore
      <3>2. (d < c => d <= x) /\ (x > d => x > e)
        BY <3>1
      <3>3. e < c => e <= x
        BY <1>0, <2>3, <3>1, <3>2
      <3> QED
        BY <1>0, <2>3, <3>1, <3>3 DEF LastBefore
    <2> QED
      BY <2>1, <2>2, <2>3
  <1> QED
    BY <1>1, <1>2

(* In an ordered list the two links are inverse to each other.             *)
LEMMA InverseNeighbours ==
    ASSUME NEW F \in SUBSET Nat, NEW b \in F, NEW c \in F, NEW n, NEW p,
           FirstFrom(F, b + 1, n), LastBefore(F, c, p)
    PROVE  n = c <=> p = b
  <1>0. b \in Nat /\ c \in Nat /\ b # NULL /\ c # NULL /\ \A d \in F : d \in Nat
    BY AddrFacts
  <1>1. n # NULL => n \in F /\ n >= b + 1 /\ \A d \in F : d >= b + 1 => d >= n
    BY DEF FirstFrom
  <1>2. n = NULL => \A d \in F : d < b + 1
    BY DEF FirstFrom
  <1>3. p # NULL => p \in F /\ p < c /\ \A d \in F : d < c => d <= p
    BY DEF LastBefore
  <1>4. p = NULL => \A d \in F : d >= c
    BY DEF LastBefore
  <1>5. ASSUME n = c PROVE p = b
    <2>1. c >= b + 1
      BY <1>0, <1>1, <1>5
    <2>2. p = NULL => b >= c
      BY <1>4
    <2>3. p # NULL
      BY <1>0, <2>1, <2>2
    <2>4. p \in F /\ p \in Nat /\ p < c /\ (b < c => b <= p)
      BY <1>0, <1>3, <2>3
    <2>5. p >= b + 1 => p >= c
      BY <1>0, <1>1, <1>5, <2>4
    <2> QED
      BY <1>0, <2>1, <2>4, <2>5
  <1>6. ASSUME p = b PROVE n = c
    <2>1. b < c
      BY <1>0, <1>3, <1>6
    <2>2. n = NULL => c < b + 1
      BY <1>2
    <2>3. n # NULL
      BY <1>0, <2>1, <2>2
    <2>4. n \in F /\ n \in Nat /\ n >= b + 1 /\ (c >= b + 1 => c >= n)
      BY <1>0, <1>1, <2>3
    <2>5. n < c => n <= b
      BY <1>0, <1>3, <1>6, <2>4
    <2> QED
      BY <1>0, <2>1, <2>4, <2>5
  <1> QED
    BY <1>5, <1>6

-----------------------------------------------------------------------------
(* A write to one link of one header, or to none.                          *)
NextSet(h2, h, a, x) ==
    /\ h2 \in Headers
    /\ \A b \in Addr : /\ h2[b].size = h[b].size
                       /\ h2[b].prev = h[b].prev
                       /\ h2[b].next = IF b = a THEN x ELSE h[b].next

PrevSet(h2, h, a, x) ==
    /\ h2 \in Headers
    /\ \A b \in Addr : /\ h2[b].size = h[b].size
                       /\ h2[b].prev = IF b = a THEN x ELSE h[b].prev
                       /\ h2[b].next = h[b].next

(* What SetNext and SetPrev write, and what they leave.                    *)
LEMMA SetNextFacts ==
    ASSUME NEW h \in Headers, NEW a \in Usable \cup {NULL}, NEW x \in Usable \cup {NULL}
    PROVE  NextSet(SetNext(h, a, x), h, a, x)
  <1>1. (\A b \in Addr : b # NULL) /\ (a # NULL => a \in Addr)
    BY AddrFacts
  <1> QED
    BY <1>1 DEF SetNext, NextSet, Headers

LEMMA SetPrevFacts ==
    ASSUME NEW h \in Headers, NEW a \in Usable \cup {NULL}, NEW x \in Usable \cup {NULL}
    PROVE  PrevSet(SetPrev(h, a, x), h, a, x)
  <1>1. (\A b \in Addr : b # NULL) /\ (a # NULL => a \in Addr)
    BY AddrFacts
  <1> QED
    BY <1>1 DEF SetPrev, PrevSet, Headers

(* The write of a whole header.                                            *)
Written(h2, h, a, x) ==
    h2 \in Headers /\ h2[a] = x /\ \A b \in Addr : b # a => h2[b] = h[b]

LEMMA WriteFacts ==
    ASSUME NEW h \in Headers, NEW a \in Addr, NEW size \in HeaderSize,
           NEW p \in Usable \cup {NULL}, NEW n \in Usable \cup {NULL}
    PROVE  Written([h EXCEPT ![a] = Header(size, p, n)], h, a, Header(size, p, n))
  BY DEF Headers, Header, Written

-----------------------------------------------------------------------------
(* The neighbours of an address that is not in the list, as                *)
(* insertMemHeaderLink finds them.                                         *)
PlaceBefore(m, a) ==
    IF After(m, a) = NULL THEN Before(m, a) ELSE m.header[After(m, a)].prev

LEMMA PlaceFound ==
    ASSUME NEW m, NEW F, Walkable(m, F), NEW a \in Usable \ F, m.root # NULL
    PROVE  /\ FirstFrom(F, a, After(m, a)) /\ LastBefore(F, a, PlaceBefore(m, a))
           /\ After(m, a) \in F \cup {NULL} /\ PlaceBefore(m, a) \in F \cup {NULL}
  <1> DEFINE x == After(m, a)
             y == PlaceBefore(m, a)
  <1>1. FirstFrom(F, a, x)
    BY AfterFinds, AddrFacts
  <1>2. /\ a \in Nat /\ \A b \in F : b \in Nat /\ b # NULL /\ b # a
        /\ m.root \in F /\ \A b \in F : b >= m.root
    BY WalkableFacts, AddrFacts
  <1>3. CASE x = NULL
    <2>1. \A b \in F : b < a
      BY <1>1, <1>3 DEF FirstFrom
    <2>2. m.root < a
      BY <1>2, <2>1
    <2>3. /\ Before(m, a) \in F /\ Before(m, a) < a
          /\ \A b \in F : b < a => b <= Before(m, a)
      BY <2>2, BeforeFinds, AddrFacts
    <2>4. y = Before(m, a)
      BY <1>3 DEF PlaceBefore
    <2> QED
      BY <1>1, <1>2, <1>3, <2>3, <2>4 DEF LastBefore
  <1>4. CASE x # NULL
    <2>1. x \in F /\ x >= a /\ \A b \in F : b >= a => b >= x
      BY <1>1, <1>4 DEF FirstFrom
    <2>2. y = m.header[x].prev
      BY <1>4 DEF PlaceBefore
    <2>3. LastBefore(F, x, y)
      BY <2>1, <2>2 DEF Walkable, InOrder
    <2>4. \A b \in F : b < x <=> b < a
      BY <1>2, <2>1
    <2>5. CASE y = NULL
      <3>1. \A b \in F : b >= x
        BY <2>3, <2>5 DEF LastBefore
      <3>2. \A b \in F : b >= a
        BY <1>2, <2>1, <3>1
      <3> QED
        BY <1>1, <2>1, <2>5, <3>2 DEF LastBefore
    <2>6. CASE y # NULL
      <3>1. y \in F /\ y < x /\ \A b \in F : b < x => b <= y
        BY <2>3, <2>6 DEF LastBefore
      <3>2. y < a /\ \A b \in F : b < a => b <= y
        BY <2>4, <3>1
      <3> QED
        BY <1>1, <2>1, <2>6, <3>1, <3>2 DEF LastBefore
    <2> QED
      BY <2>5, <2>6
  <1> QED
    BY <1>3, <1>4

(* A block linked in at its place.                                         *)
LEMMA InsertKeeps ==
    ASSUME NEW m, NEW F, Walkable(m, F), NEW a \in Usable \ F,
           m.header[a].prev = NULL, m.header[a].next = NULL
    PROVE  /\ Walkable(InsertMemHeaderLink(m, a), F \cup {a})
           /\ InsertMemHeaderLink(m, a).allocated = m.allocated
           /\ \A b \in Addr :
                /\ InsertMemHeaderLink(m, a).header[b].size = m.header[b].size
                /\ b \notin F \cup {a} =>
                     /\ InsertMemHeaderLink(m, a).header[b].prev = m.header[b].prev
                     /\ InsertMemHeaderLink(m, a).header[b].next = m.header[b].next
  <1> DEFINE m1 == InsertMemHeaderLink(m, a)
             h == m.header
  <1>0. /\ m \in MemoryType /\ h \in Headers /\ Ahead(h) /\ InOrder(m.root, h, F)
        /\ a \in Addr /\ a \in Nat /\ a # NULL /\ a >= FreeMem /\ FreeMem \in Nat
        /\ F \in SUBSET Nat /\ F \in SUBSET Addr
        /\ \A b \in F : b \in Nat /\ b # NULL /\ b # a /\ b \in Usable /\ b \in Addr
    BY WalkableFacts, AddrFacts DEF Walkable, MemoryType
  <1>1. CASE m.root = NULL
    <2>1. F = {}
      BY <1>1, WalkableFacts
    <2>2. m1 = [m EXCEPT !.root = a]
      BY <1>1 DEF InsertMemHeaderLink
    <2>3. m1 \in MemoryType /\ m1.root = a /\ m1.header = h /\ m1.allocated = m.allocated
      BY <1>0, <2>2 DEF MemoryType
    <2>4. InOrder(a, h, {a})
      BY <1>0 DEF InOrder, FirstFrom, LastBefore
    <2> HIDE DEF m1
    <2>5. Walkable(m1, F \cup {a})
      BY <1>0, <2>1, <2>3, <2>4 DEF Walkable
    <2> QED
      BY <2>3, <2>5 DEF m1
  <1>2. CASE m.root # NULL
    <2> DEFINE x == After(m, a)
               y == PlaceBefore(m, a)
               h1 == [h EXCEPT ![a].prev = y, ![a].next = x]
               hn == SetNext(h1, y, a)
               h2 == SetPrev(hn, x, a)
    <2>1. FirstFrom(F, a, x) /\ LastBefore(F, a, y) /\ x \in F \cup {NULL} /\ y \in F \cup {NULL}
      BY <1>2, PlaceFound
    <2>2. /\ x # a /\ y # a /\ x \in Usable \cup {NULL} /\ y \in Usable \cup {NULL}
          /\ a \in Usable \cup {NULL}
      BY <1>0, <2>1
    <2>3. m1 = [m EXCEPT !.root = IF a < @ THEN a ELSE @, !.header = h2]
      BY <1>2, <2>2 DEF InsertMemHeaderLink, PlaceBefore
    <2>4. /\ h1 \in Headers
          /\ \A b \in Addr : /\ h1[b].size = h[b].size
                             /\ h1[b].prev = IF b = a THEN y ELSE h[b].prev
                             /\ h1[b].next = IF b = a THEN x ELSE h[b].next
      BY <1>0, <2>2 DEF Headers
    <2> HIDE DEF x, y, h1
    <2>5. NextSet(hn, h1, y, a)
      BY <2>2, <2>4, SetNextFacts
    <2> HIDE DEF hn
    <2>6. PrevSet(h2, hn, x, a)
      BY <2>2, <2>5, SetPrevFacts DEF NextSet
    <2> HIDE DEF h2
    <2>7. /\ h2 \in Headers
          /\ \A b \in Addr :
               /\ h2[b].size = h[b].size
               /\ h2[b].prev = IF b = x THEN a ELSE IF b = a THEN y ELSE h[b].prev
               /\ h2[b].next = IF b = y THEN a ELSE IF b = a THEN x ELSE h[b].next
      BY <2>2, <2>4, <2>5, <2>6 DEF NextSet, PrevSet
    <2>8. /\ m1 \in MemoryType /\ m1.header = h2 /\ m1.allocated = m.allocated
          /\ m1.root = IF a < m.root THEN a ELSE m.root
      BY <1>0, <2>3, <2>7 DEF MemoryType
    <2>9. (y # NULL => y < a) /\ (x # NULL => x > a)
      <3>1. (y # NULL => y < a) /\ (x # NULL => x \in Nat /\ x >= a)
        BY <1>0, <2>1 DEF FirstFrom, LastBefore
      <3> QED
        BY <1>0, <2>2, <3>1
    <2>10. Ahead(h2)
      <3> SUFFICES ASSUME NEW b \in Addr
                   PROVE  h2[b].next = NULL \/ h2[b].next > b
        BY DEF Ahead
      <3>1. h[b].next = NULL \/ h[b].next > b
        BY <1>0 DEF Ahead
      <3>2. h2[b].next = IF b = y THEN a ELSE IF b = a THEN x ELSE h[b].next
        BY <2>7
      <3>3. b # NULL
        BY AddrFacts
      <3> QED
        BY <2>9, <3>1, <3>2, <3>3
    <2>11. FirstFrom(F \cup {a}, FreeMem, m1.root)
      <3>1. FirstFrom(F, FreeMem, m.root)
        BY <1>0 DEF InOrder
      <3> QED
        BY <1>0, <1>2, <2>8, <3>1, AddNeighbours
    <2>12. ASSUME NEW b \in F
           PROVE  FirstFrom(F \cup {a}, b + 1, h2[b].next)
      <3>1. FirstFrom(F, b + 1, h[b].next)
        BY <1>0 DEF InOrder
      <3>2. h2[b].next = IF b = y THEN a ELSE h[b].next
        BY <1>0, <2>7
      <3> DEFINE n == h[b].next
      <3> HIDE DEF n
      <3>3. (a >= b + 1 /\ (n = NULL \/ a < n)) <=> b = y
        <4>1. FirstFrom(F, b + 1, n) /\ LastBefore(F, a, y)
          BY <2>1, <3>1 DEF n
        <4> QED
          BY <1>0, <4>1, MutualNeighbours
      <3>4. FirstFrom(F \cup {a}, b + 1, IF b = y THEN a ELSE n)
        <4>1. b + 1 \in Nat /\ FirstFrom(F, b + 1, n)
          BY <1>0, <3>1 DEF n
        <4> QED
          BY <1>0, <3>3, <4>1, AddNeighbours
      <3> QED
        BY <3>2, <3>4 DEF n
    <2>13. ASSUME NEW b \in F
           PROVE  LastBefore(F \cup {a}, b, h2[b].prev)
      <3>1. LastBefore(F, b, h[b].prev)
        BY <1>0 DEF InOrder
      <3>2. h2[b].prev = IF b = x THEN a ELSE h[b].prev
        BY <1>0, <2>7
      <3> DEFINE n == h[b].prev
      <3> HIDE DEF n
      <3>3. (a < b /\ (n = NULL \/ a > n)) <=> b = x
        BY <1>0, <2>1, <3>1, MutualNeighbours DEF n
      <3>4. LastBefore(F \cup {a}, b, IF b = x THEN a ELSE n)
        <4>1. b \in Nat /\ LastBefore(F, b, n)
          BY <1>0, <3>1 DEF n
        <4> QED
          BY <1>0, <3>3, <4>1, AddNeighbours
      <3> QED
        BY <3>2, <3>4 DEF n
    <2>14. FirstFrom(F \cup {a}, a + 1, h2[a].next) /\ LastBefore(F \cup {a}, a, h2[a].prev)
      <3>1. h2[a].next = x /\ h2[a].prev = y
        BY <1>0, <2>2, <2>7
      <3>2. FirstFrom(F \cup {a}, a + 1, x)
        <4>1. CASE x = NULL
          BY <1>0, <2>1, <4>1 DEF FirstFrom
        <4>2. CASE x # NULL
          <5>1. x \in F /\ x \in Nat /\ x > a /\ \A b \in F : b >= a => b >= x
            BY <1>0, <2>1, <2>9, <4>2 DEF FirstFrom
          <5>2. x >= a + 1 /\ \A b \in F \cup {a} : b >= a + 1 => b >= x
            BY <1>0, <5>1
          <5> QED
            BY <4>2, <5>1, <5>2 DEF FirstFrom
        <4> QED
          BY <4>1, <4>2
      <3>3. LastBefore(F \cup {a}, a, y)
        BY <1>0, <2>1 DEF LastBefore
      <3> QED
        BY <3>1, <3>2, <3>3
    <2>15. InOrder(m1.root, h2, F \cup {a})
      BY <1>0, <2>11, <2>12, <2>13, <2>14 DEF InOrder
    <2>16. Walkable(m1, F \cup {a})
      BY <2>8, <2>10, <2>15 DEF Walkable
    <2> HIDE DEF m1
    <2>17. ASSUME NEW b \in Addr
           PROVE  /\ m1.header[b].size = h[b].size
                  /\ b \notin F \cup {a} => /\ m1.header[b].prev = h[b].prev
                                           /\ m1.header[b].next = h[b].next
      BY <1>0, <2>1, <2>7, <2>8, AddrFacts
    <2> QED
      BY <2>8, <2>16, <2>17 DEF m1
  <1> QED
    BY <1>1, <1>2

(* Two free blocks without anything between them made one.                 *)
Merges(m2, m, F, f, l) ==
    /\ Walkable(m2, F \ {l})
    /\ m2.allocated = m.allocated
    /\ m2.header[f].size = m.header[f].size + 1 + m.header[l].size
    /\ \A b \in Addr :
         /\ b \notin {f, l} => m2.header[b].size = m.header[b].size
         /\ b \notin F => /\ m2.header[b].prev = m.header[b].prev
                         /\ m2.header[b].next = m.header[b].next

(* checkAndMergeMemHeaders does that to two that touch.                    *)
LEMMA MergeKeeps ==
    ASSUME NEW m, NEW F, Walkable(m, F), NEW f \in F, NEW l \in F,
           m.header[f].next = l, f + 1 + m.header[f].size = l,
           l + m.header[l].size <= MaxAddr
    PROVE  Merges(Merge(m, f, l), m, F, f, l)
  <1> DEFINE h == m.header
             x == h[l].next
             size == h[f].size + 1 + h[l].size
             ha == [h EXCEPT ![f] = Header(size, h[f].prev, x)]
             hb == [ha EXCEPT ![l] = Header(0, NULL, NULL)]
             h2 == SetPrev(hb, x, f)
             m2 == Merge(m, f, l)
  <1>0. /\ m \in MemoryType /\ h \in Headers /\ Ahead(h) /\ InOrder(m.root, h, F)
        /\ F \in SUBSET Nat /\ F \in SUBSET Addr
        /\ \A b \in F : b \in Nat /\ b # NULL /\ b \in Usable /\ b \in Addr
    BY WalkableFacts, AddrFacts DEF Walkable, MemoryType
  <1>1. m2 = [m EXCEPT !.header = h2]
    BY <1>0 DEF Merge
  <1>2. /\ h[f].size \in Nat /\ h[l].size \in Nat
        /\ h[f].prev \in Usable \cup {NULL} /\ x \in Usable \cup {NULL}
    BY <1>0, HeaderFacts
  <1>3. /\ f < l /\ size \in HeaderSize
        /\ FreeMem \in Nat /\ MaxAddr \in Nat /\ f >= FreeMem
    BY <1>0, <1>2, AddrFacts DEF HeaderSize
  <1>4. x # NULL => x \in F /\ x > l
    BY WalkableFacts
  <1> HIDE DEF x, size, h
  <1>5. /\ ha \in Headers /\ ha[f] = Header(size, h[f].prev, x)
        /\ \A b \in Addr : b # f => ha[b] = h[b]
    BY <1>0, <1>2, <1>3, WriteFacts DEF Written
  <1> HIDE DEF ha
  <1>6. 0 \in HeaderSize /\ NULL \in Usable \cup {NULL}
    BY <1>3 DEF HeaderSize
  <1>7. hb \in Headers /\ hb[l] = Header(0, NULL, NULL) /\ \A b \in Addr : b # l => hb[b] = ha[b]
    BY <1>0, <1>5, <1>6, WriteFacts DEF Written
  <1> HIDE DEF hb
  <1>8. PrevSet(h2, hb, x, f)
    BY <1>0, <1>2, <1>7, SetPrevFacts
  <1> HIDE DEF h2
  <1>9. /\ h2 \in Headers
        /\ h2[f].size = size /\ h2[f].next = x /\ h2[f].prev = h[f].prev
        /\ h2[l].next = NULL
        /\ \A b \in Addr : b # f /\ b # l =>
             /\ h2[b].size = h[b].size /\ h2[b].next = h[b].next
             /\ h2[b].prev = IF b = x THEN f ELSE h[b].prev
    <2>1. \A s \in Nat, p \in Usable \cup {NULL}, n \in Usable \cup {NULL} :
            Header(s, p, n).size = s /\ Header(s, p, n).prev = p /\ Header(s, p, n).next = n
      BY DEF Header
    <2>2. x # f /\ x # l /\ f # l
      <3>1. x # NULL => x \in Nat
        BY <1>0, <1>4
      <3> QED
        BY <1>0, <1>3, <1>4, <3>1
    <2>3. hb[f] = Header(size, h[f].prev, x) /\ hb[l] = Header(0, NULL, NULL)
      BY <1>0, <1>5, <1>7, <2>2
    <2>4. /\ hb[f].size = size /\ hb[f].next = x /\ hb[f].prev = h[f].prev
          /\ hb[l].next = NULL
      BY <1>2, <1>3, <2>3 DEF Header
    <2>5. \A b \in Addr : b # f /\ b # l => hb[b] = h[b]
      BY <1>5, <1>7
    <2> QED
      BY <1>0, <1>8, <2>2, <2>4, <2>5 DEF PrevSet
  <1>10. m2 \in MemoryType /\ m2.header = h2 /\ m2.allocated = m.allocated /\ m2.root = m.root
    BY <1>0, <1>1, <1>9 DEF MemoryType, h
  <1>11. Ahead(h2)
    <2> SUFFICES ASSUME NEW b \in Addr PROVE h2[b].next = NULL \/ h2[b].next > b
      BY DEF Ahead
    <2>1. CASE b = f
      <3>1. x # NULL => x \in Nat
        BY <1>0, <1>4
      <3> QED
        BY <1>0, <1>3, <1>4, <1>9, <2>1, <3>1
    <2>2. CASE b = l
      BY <1>9, <2>2
    <2>3. CASE b # f /\ b # l
      BY <1>0, <1>9, <2>3 DEF Ahead
    <2> QED
      BY <2>1, <2>2, <2>3
  <1>12. FirstFrom(F, l + 1, x) /\ LastBefore(F, l, f)
    <2>1. FirstFrom(F, l + 1, x) /\ LastBefore(F, l, h[l].prev) /\ FirstFrom(F, f + 1, l)
      BY <1>0 DEF InOrder, x, h
    <2> QED
      BY <1>0, <2>1, InverseNeighbours
  <1>13. FirstFrom(F \ {l}, FreeMem, m.root)
    <2>1. FirstFrom(F, FreeMem, m.root)
      BY <1>0 DEF InOrder
    <2>2. m.root # l
      <3>1. m.root # NULL => f >= m.root /\ m.root \in Nat
        BY <1>0, WalkableFacts
      <3> QED
        BY <1>0, <1>3, <3>1
    <2> QED
      BY <1>0, <1>3, <1>12, <2>1, <2>2, DropNeighbours
  <1>14. ASSUME NEW b \in F \ {l}
         PROVE  FirstFrom(F \ {l}, b + 1, h2[b].next) /\ LastBefore(F \ {l}, b, h2[b].prev)
    <2>1. FirstFrom(F, b + 1, h[b].next) /\ LastBefore(F, b, h[b].prev)
      BY <1>0 DEF InOrder
    <2>2. h[b].next = l <=> b = f
      BY <1>0, <1>12, <2>1, InverseNeighbours
    <2>3. h[b].prev = l <=> b = x
      BY <1>0, <1>12, <2>1, InverseNeighbours
    <2>4. b \in Nat /\ b + 1 \in Nat /\ b \in Addr
      BY <1>0
    <2>5. FirstFrom(F \ {l}, b + 1, IF h[b].next = l THEN x ELSE h[b].next)
      BY <1>0, <1>12, <2>1, <2>4, DropNeighbours
    <2>6. LastBefore(F \ {l}, b, IF h[b].prev = l THEN f ELSE h[b].prev)
      BY <1>0, <1>12, <2>1, <2>4, DropNeighbours
    <2>7. h2[b].next = IF h[b].next = l THEN x ELSE h[b].next
      BY <1>9, <2>2, <2>4
    <2>8. h2[b].prev = IF h[b].prev = l THEN f ELSE h[b].prev
      <3>1. b = f => b # x
        BY <1>0, <1>3, <1>4
      <3> QED
        BY <1>9, <2>3, <2>4, <3>1
    <2> QED
      BY <2>5, <2>6, <2>7, <2>8
  <1>15. InOrder(m.root, h2, F \ {l})
    BY <1>0, <1>13, <1>14 DEF InOrder
  <1>16. Walkable(m2, F \ {l})
    BY <1>10, <1>11, <1>15 DEF Walkable
  <1>17. ASSUME NEW b \in Addr, b \notin F
         PROVE  h2[b].prev = h[b].prev /\ h2[b].next = h[b].next
    <2>1. b # f /\ b # l /\ b # x /\ b # NULL
      BY <1>4, <1>17, AddrFacts
    <2> QED
      BY <1>9, <2>1
  <1> HIDE DEF m2
  <1> QED
    BY <1>9, <1>10, <1>16, <1>17 DEF Merges, h, size, m2

-----------------------------------------------------------------------------
(* What getMemHeader leaves behind: node is a block of its own of n units, *)
(* F2 is the free list, and only start may be a new header.                *)
Takes(m2, m, F, F2, node, start, n) ==
    /\ Walkable(m2, F2)
    /\ m2.allocated = m.allocated \cup {node}
    /\ m2.header[node].size = n
    /\ m2.header[node].prev = NULL /\ m2.header[node].next = NULL
    /\ \A b \in Addr \ {node, start} :
         /\ m2.header[b].size = m.header[b].size
         /\ b \notin F => /\ m2.header[b].prev = m.header[b].prev
                         /\ m2.header[b].next = m.header[b].next

(* Where getMemHeader puts no header because of the hole.                  *)
InHole(start) == start >= HoleStart - 1 /\ start < HoleEnd - 1

(* The block taken whole, where no header fits behind it.                  *)
LEMMA TakeWhole ==
    ASSUME NEW m, NEW F, Walkable(m, F), NEW node \in F, NEW n \in HeaderSize,
           \/ InHole(node + 1 + n)
           \/ ~InHole(node + 1 + n) /\ node + 1 + n > MaxAddr /\ m.header[node].prev = NULL
    PROVE  Takes(GetMemHeader(m, node, n), m, F, F \ {node}, node, node, n)
  <1> DEFINE h == m.header
             before == h[node].prev
             after == h[node].next
             ha == SetNext(h, before, after)
             hb == SetPrev(ha, after, before)
             h2 == [hb EXCEPT ![node] = Header(n, NULL, NULL)]
             root2 == IF before # NULL THEN m.root ELSE after
             m2 == GetMemHeader(m, node, n)
  <1>0. /\ m \in MemoryType /\ h \in Headers /\ Ahead(h) /\ InOrder(m.root, h, F)
        /\ F \in SUBSET Nat /\ F \in SUBSET Addr
        /\ \A b \in F : b \in Nat /\ b # NULL /\ b \in Usable /\ b \in Addr
    BY WalkableFacts, AddrFacts DEF Walkable, MemoryType
  <1>1. m2 = [root |-> root2, header |-> h2, allocated |-> m.allocated \cup {node}]
    BY DEF GetMemHeader, InHole
  <1>2. FirstFrom(F, node + 1, after) /\ LastBefore(F, node, before)
    BY <1>0 DEF InOrder
  <1>3. /\ before \in Usable \cup {NULL} /\ after \in Usable \cup {NULL}
        /\ before # NULL => before \in F /\ before < node
        /\ after # NULL => after \in F /\ after >= node + 1
    BY <1>0, <1>2, HeaderFacts DEF FirstFrom, LastBefore
  <1> HIDE DEF before, after, h
  <1>4. NextSet(ha, h, before, after)
    BY <1>0, <1>3, SetNextFacts
  <1> HIDE DEF ha
  <1>5. PrevSet(hb, ha, after, before)
    BY <1>3, <1>4, SetPrevFacts DEF NextSet
  <1> HIDE DEF hb
  <1>6. /\ h2 \in Headers /\ h2[node] = Header(n, NULL, NULL)
        /\ \A b \in Addr : b # node => h2[b] = hb[b]
    <2>1. hb \in Headers /\ NULL \in Usable \cup {NULL} /\ node \in Addr
      BY <1>0, <1>5 DEF PrevSet
    <2>2. Written(h2, hb, node, Header(n, NULL, NULL))
      BY <2>1, WriteFacts
    <2> QED
      BY <2>2 DEF Written
  <1> HIDE DEF h2
  <1>7. /\ h2[node].size = n /\ h2[node].prev = NULL /\ h2[node].next = NULL
        /\ \A b \in Addr : b # node =>
             /\ h2[b].size = h[b].size
             /\ h2[b].next = IF b = before THEN after ELSE h[b].next
             /\ h2[b].prev = IF b = after THEN before ELSE h[b].prev
    BY <1>4, <1>5, <1>6 DEF NextSet, PrevSet, Header
  <1>8. /\ before # NULL => before \in Nat /\ before # node
        /\ after # NULL => after \in Nat /\ after > node
    <2>1. (before # NULL => before \in Nat) /\ (after # NULL => after \in Nat) /\ node \in Nat
      BY <1>0, <1>3
    <2>2. before # NULL => before # node
      BY <1>3, <2>1
    <2>3. after # NULL => after > node
      BY <1>3, <2>1
    <2> QED
      BY <2>1, <2>2, <2>3
  <1>9. m2 \in MemoryType /\ m2.header = h2 /\ m2.root = root2
        /\ m2.allocated = m.allocated \cup {node}
    BY <1>0, <1>1, <1>3, <1>6 DEF MemoryType
  <1>10. Ahead(h2)
    <2> SUFFICES ASSUME NEW b \in Addr PROVE h2[b].next = NULL \/ h2[b].next > b
      BY DEF Ahead
    <2>1. CASE b = node
      BY <1>7, <2>1
    <2>2. CASE b # node /\ b = before
      <3>1. before # NULL
        BY <2>2, AddrFacts
      <3>2. after # NULL => after > before
        BY <1>0, <1>3, <1>8, <3>1
      <3> QED
        BY <1>7, <2>2, <3>2
    <2>3. CASE b # node /\ b # before
      BY <1>0, <1>7, <2>3 DEF Ahead
    <2> QED
      BY <2>1, <2>2, <2>3
  <1>11. FirstFrom(F \ {node}, FreeMem, root2)
    <2>1. FirstFrom(F, FreeMem, m.root) /\ FreeMem \in Nat
      BY <1>0, AddrFacts DEF InOrder
    <2>2. FirstFrom(F \ {node}, FreeMem, IF m.root = node THEN after ELSE m.root)
      BY <1>0, <1>2, <2>1, DropNeighbours
    <2>3. m.root # NULL /\ m.root \in F /\ m.root \in Nat /\ \A b \in F : b >= m.root
      BY <1>0, WalkableFacts
    <2>4. m.root = node <=> before = NULL
      <3>1. ASSUME before = NULL PROVE m.root = node
        <4>1. m.root >= node /\ node >= m.root
          BY <1>2, <2>3, <3>1 DEF LastBefore
        <4> QED
          BY <1>0, <2>3, <4>1
      <3>2. ASSUME before # NULL PROVE m.root # node
        BY <1>0, <1>3, <2>3, <3>2
      <3> QED
        BY <3>1, <3>2
    <2> QED
      BY <2>2, <2>4
  <1>12. ASSUME NEW b \in F \ {node}
         PROVE  FirstFrom(F \ {node}, b + 1, h2[b].next) /\ LastBefore(F \ {node}, b, h2[b].prev)
    <2>1. FirstFrom(F, b + 1, h[b].next) /\ LastBefore(F, b, h[b].prev)
      BY <1>0 DEF InOrder
    <2>2. h[b].next = node <=> b = before
      BY <1>0, <1>2, <2>1, InverseNeighbours
    <2>3. h[b].prev = node <=> b = after
      BY <1>0, <1>2, <2>1, InverseNeighbours
    <2>4. b \in Nat /\ b + 1 \in Nat /\ b \in Addr
      BY <1>0
    <2>5. FirstFrom(F \ {node}, b + 1, IF h[b].next = node THEN after ELSE h[b].next)
      BY <1>0, <1>2, <2>1, <2>4, DropNeighbours
    <2>6. LastBefore(F \ {node}, b, IF h[b].prev = node THEN before ELSE h[b].prev)
      BY <1>0, <1>2, <2>1, <2>4, DropNeighbours
    <2>7. h2[b].next = IF h[b].next = node THEN after ELSE h[b].next
      BY <1>7, <2>2, <2>4
    <2>8. h2[b].prev = IF h[b].prev = node THEN before ELSE h[b].prev
      BY <1>7, <2>3, <2>4
    <2> QED
      BY <2>5, <2>6, <2>7, <2>8
  <1>13. InOrder(root2, h2, F \ {node})
    BY <1>0, <1>11, <1>12 DEF InOrder
  <1>14. Walkable(m2, F \ {node})
    BY <1>9, <1>10, <1>13 DEF Walkable
  <1>15. ASSUME NEW b \in Addr \ {node}
         PROVE  /\ h2[b].size = h[b].size
                /\ b \notin F => h2[b].prev = h[b].prev /\ h2[b].next = h[b].next
    <2>1. b # NULL
      BY AddrFacts
    <2> QED
      BY <1>3, <1>7, <2>1
  <1> HIDE DEF m2
  <1> QED
    BY <1>7, <1>9, <1>14, <1>15 DEF Takes, h, m2

(* The block split: the rest takes its place in the list.                  *)
LEMMA TakeFront ==
    ASSUME NEW m, NEW F, Walkable(m, F), NEW node \in F, NEW n \in Nat,
           NEW start, start = node + 1 + n, start \in Usable \ F, ~InHole(start),
           node + m.header[node].size >= start,
           \A b \in F : b > node => b > start
    PROVE  /\ Takes(GetMemHeader(m, node, n), m, F, (F \ {node}) \cup {start}, node, start, n)
           /\ GetMemHeader(m, node, n).header[start].size = m.header[node].size - (1 + n)
  <1> DEFINE h == m.header
             before == h[node].prev
             after == h[node].next
             F2 == (F \ {node}) \cup {start}
             size == h[node].size - (1 + n)
             rest == Header(Rest(h[node].size, n), before, after)
             h1 == [h EXCEPT ![start] = rest]
             ha == SetNext(h1, before, start)
             hb == SetPrev(ha, after, start)
             h2 == [hb EXCEPT ![node] = Header(n, NULL, NULL)]
             root2 == IF before # NULL THEN m.root ELSE start
             m2 == GetMemHeader(m, node, n)
  <1>0. /\ m \in MemoryType /\ h \in Headers /\ Ahead(h) /\ InOrder(m.root, h, F)
        /\ F \in SUBSET Nat /\ F \in SUBSET Addr
        /\ \A b \in F : b \in Nat /\ b # NULL /\ b \in Usable /\ b \in Addr
        /\ start \in Addr /\ start \in Nat /\ start <= MaxAddr /\ start # NULL
    BY WalkableFacts, AddrFacts DEF Walkable, MemoryType
  <1>1. m2 = [root |-> root2, header |-> h2, allocated |-> m.allocated \cup {node}]
    <2>1. ~(start > MaxAddr)
      BY <1>0, AddrFacts
    <2> QED
      BY <2>1 DEF GetMemHeader, InHole
  <1>2. FirstFrom(F, node + 1, after) /\ LastBefore(F, node, before)
    BY <1>0 DEF InOrder
  <1>3. /\ before \in Usable \cup {NULL} /\ after \in Usable \cup {NULL}
        /\ before # NULL => before \in F /\ before < node
        /\ after # NULL => after \in F /\ after >= node + 1
    BY <1>0, <1>2, HeaderFacts DEF FirstFrom, LastBefore
  <1>4. /\ start > node /\ Rest(h[node].size, n) = size
        /\ size \in HeaderSize /\ n \in HeaderSize
    <2>1. /\ h[node].size \in Nat /\ h[node].size <= MaxAddr - FreeMem
          /\ FreeMem \in Nat /\ MaxAddr \in Nat /\ MaxAddr < SizeRange
      BY <1>0, HeaderFacts, AddrFacts
    <2> DEFINE s == h[node].size
    <2>2. s \in Nat /\ s <= MaxAddr - FreeMem /\ node \in Nat /\ node + s >= start
          /\ start = node + 1 + n /\ size = s - (1 + n) /\ Rest(h[node].size, n) = size % SizeRange
      BY <1>0, <2>1 DEF Rest
    <2> HIDE DEF s, size
    <2>3. /\ start > node /\ size \in Nat /\ size < SizeRange
          /\ size \in HeaderSize /\ n \in HeaderSize
      BY <2>1, <2>2 DEF SizeRange, HeaderSize
    <2>4. size % SizeRange = size
      BY <2>3 DEF SizeRange
    <2> QED
      BY <2>2, <2>3, <2>4
  <1> HIDE DEF before, after, size
  <1>5. /\ h1 \in Headers /\ h1[start] = Header(size, before, after)
        /\ \A b \in Addr : b # start => h1[b] = h[b]
    <2>1. /\ h \in Headers /\ start \in Addr /\ size \in HeaderSize
          /\ before \in Usable \cup {NULL} /\ after \in Usable \cup {NULL}
      BY <1>0, <1>3, <1>4
    <2>2. rest = Header(size, before, after)
      BY <1>4
    <2> HIDE DEF rest, h
    <2>3. Written(h1, h, start, Header(size, before, after))
      BY <2>1, <2>2, WriteFacts
    <2> QED
      BY <2>3 DEF Written
  <1> HIDE DEF h1, h
  <1>6. NextSet(ha, h1, before, start)
    BY <1>3, <1>5, SetNextFacts
  <1> HIDE DEF ha
  <1>7. PrevSet(hb, ha, after, start)
    BY <1>3, <1>6, SetPrevFacts DEF NextSet
  <1> HIDE DEF hb
  <1>8. /\ h2 \in Headers /\ h2[node] = Header(n, NULL, NULL)
        /\ \A b \in Addr : b # node => h2[b] = hb[b]
    <2>1. hb \in Headers /\ NULL \in Usable \cup {NULL} /\ node \in Addr
          /\ n \in HeaderSize
      BY <1>0, <1>4, <1>7 DEF PrevSet
    <2>2. Written(h2, hb, node, Header(n, NULL, NULL))
      BY <2>1, WriteFacts
    <2> QED
      BY <2>2 DEF Written
  <1> HIDE DEF h2
  <1>9. /\ before # start /\ after # start /\ node # start
        /\ before # NULL => before \in Nat /\ before < start
        /\ after # NULL => after \in Nat /\ after > start
    BY <1>0, <1>3, <1>4
  <1>10. /\ h2[node].size = n /\ h2[node].prev = NULL /\ h2[node].next = NULL
         /\ h2[start].size = size /\ h2[start].prev = before /\ h2[start].next = after
         /\ \A b \in Addr : b # node /\ b # start =>
              /\ h2[b].size = h[b].size
              /\ h2[b].next = IF b = before THEN start ELSE h[b].next
              /\ h2[b].prev = IF b = after THEN start ELSE h[b].prev
    BY <1>0, <1>5, <1>6, <1>7, <1>8, <1>9 DEF NextSet, PrevSet, Header
  <1>11. m2 \in MemoryType /\ m2.header = h2 /\ m2.root = root2
         /\ m2.allocated = m.allocated \cup {node}
    BY <1>0, <1>1, <1>8 DEF MemoryType
  <1>12. Ahead(h2)
    <2> SUFFICES ASSUME NEW b \in Addr PROVE h2[b].next = NULL \/ h2[b].next > b
      BY DEF Ahead
    <2>1. CASE b = node \/ b = start
      BY <1>9, <1>10, <2>1
    <2>2. CASE b # node /\ b # start /\ b = before
      <3>1. before # NULL
        BY <2>2, AddrFacts
      <3> QED
        BY <1>9, <1>10, <2>2, <3>1
    <2>3. CASE b # node /\ b # start /\ b # before
      BY <1>0, <1>10, <2>3 DEF Ahead
    <2> QED
      BY <2>1, <2>2, <2>3
  <1>13. FirstFrom(F2, FreeMem, root2)
    <2>1. FirstFrom(F, FreeMem, m.root) /\ FreeMem \in Nat /\ FreeMem <= node
      BY <1>0, AddrFacts DEF InOrder
    <2>2. FirstFrom(F2, FreeMem, IF m.root = node THEN start ELSE m.root)
      BY <1>0, <1>4, <2>1, MoveNeighbours
    <2>3. m.root # NULL /\ m.root \in F /\ m.root \in Nat /\ \A b \in F : b >= m.root
      BY <1>0, WalkableFacts
    <2>4. m.root = node <=> before = NULL
      <3>1. ASSUME before = NULL PROVE m.root = node
        <4>1. m.root >= node /\ node >= m.root
          BY <1>2, <2>3, <3>1 DEF LastBefore
        <4> QED
          BY <1>0, <2>3, <4>1
      <3>2. ASSUME before # NULL PROVE m.root # node
        BY <1>0, <1>3, <2>3, <3>2
      <3> QED
        BY <3>1, <3>2
    <2> QED
      BY <2>2, <2>4
  <1>14. ASSUME NEW b \in F \ {node}
         PROVE  FirstFrom(F2, b + 1, h2[b].next) /\ LastBefore(F2, b, h2[b].prev)
    <2>1. FirstFrom(F, b + 1, h[b].next) /\ LastBefore(F, b, h[b].prev)
      BY <1>0 DEF InOrder
    <2>2. h[b].next = node <=> b = before
      BY <1>0, <1>2, <2>1, InverseNeighbours
    <2>3. h[b].prev = node <=> b = after
      BY <1>0, <1>2, <2>1, InverseNeighbours
    <2>4. /\ b \in Nat /\ b + 1 \in Nat /\ b \in Addr /\ b # start /\ b # node
          /\ b <= node \/ b > start
          /\ b + 1 <= node \/ b + 1 > start
      BY <1>0, <1>14
    <2>5. FirstFrom(F2, b + 1, IF h[b].next = node THEN start ELSE h[b].next)
      BY <1>0, <1>4, <2>1, <2>4, MoveNeighbours
    <2>6. LastBefore(F2, b, IF h[b].prev = node THEN start ELSE h[b].prev)
      BY <1>0, <1>4, <2>1, <2>4, MoveNeighbours
    <2>7. h2[b].next = IF h[b].next = node THEN start ELSE h[b].next
      BY <1>10, <2>2, <2>4
    <2>8. h2[b].prev = IF h[b].prev = node THEN start ELSE h[b].prev
      BY <1>10, <2>3, <2>4
    <2> QED
      BY <2>5, <2>6, <2>7, <2>8
  <1>15. FirstFrom(F2, start + 1, after) /\ LastBefore(F2, start, before)
    <2>1. ASSUME NEW b \in F \ {node}
          PROVE  (b >= start + 1 <=> b >= node + 1) /\ (b < start <=> b < node)
      <3>1. b \in Nat /\ node \in Nat /\ start \in Nat /\ b # node
        BY <1>0
      <3>2. b > node => b > start
        BY <2>1
      <3> QED
        BY <1>4, <3>1, <3>2
    <2>2. FirstFrom(F2, start + 1, after)
      <3>1. CASE after = NULL
        BY <1>0, <1>2, <2>1, <3>1 DEF FirstFrom
      <3>2. CASE after # NULL
        BY <1>0, <1>2, <1>9, <2>1, <3>2 DEF FirstFrom
      <3> QED
        BY <3>1, <3>2
    <2>3. LastBefore(F2, start, before)
      <3>1. CASE before = NULL
        <4>1. \A b \in F : b >= node
          BY <1>2, <3>1 DEF LastBefore
        <4>2. \A b \in F \ {node} : b >= start
          BY <1>0, <2>1, <4>1
        <4> QED
          BY <1>0, <3>1, <4>2 DEF LastBefore
      <3>2. CASE before # NULL
        <4>1. before \in F /\ before < node /\ \A b \in F : b < node => b <= before
          BY <1>2, <3>2 DEF LastBefore
        <4>2. before # node /\ before < start
          BY <1>0, <1>9, <3>2, <4>1
        <4>3. \A b \in F2 : b < start => b <= before
          BY <1>0, <2>1, <4>1
        <4> QED
          BY <3>2, <4>1, <4>2, <4>3 DEF LastBefore
      <3> QED
        BY <3>1, <3>2
    <2> QED
      BY <2>2, <2>3
  <1>16. InOrder(root2, h2, F2)
    BY <1>0, <1>10, <1>13, <1>14, <1>15 DEF InOrder
  <1>17. Walkable(m2, F2)
    BY <1>11, <1>12, <1>16 DEF Walkable
  <1>18. ASSUME NEW b \in Addr \ {node, start}
         PROVE  /\ h2[b].size = h[b].size
                /\ b \notin F => h2[b].prev = h[b].prev /\ h2[b].next = h[b].next
    <2>1. b # NULL
      BY AddrFacts
    <2> QED
      BY <1>3, <1>10, <2>1
  <1> HIDE DEF m2
  <1> QED
    BY <1>10, <1>11, <1>17, <1>18 DEF Takes, h, m2, size

-----------------------------------------------------------------------------
(* The layout of memory.  No block reaches across the hole.                *)
LEMMA ExtentFacts ==
    ASSUME NEW h \in Headers, NEW B \in SUBSET Usable, Apart(h, B), NEW a \in B
    PROVE  /\ a \in Nat /\ h[a].size \in Nat
           /\ \A u \in Nat : a <= u /\ u <= a + h[a].size => u \in Usable
           /\ a + h[a].size \in Usable /\ a + h[a].size <= MaxAddr
           /\ a < HoleStart => a + h[a].size < HoleStart
  <1> DEFINE s == h[a].size
  <1>1. a \in Nat /\ a \in Usable /\ s \in Nat
    BY AddrFacts, HeaderFacts
  <1>2. a..(a + s) \subseteq Usable
    BY DEF Apart, Extent
  <1> HIDE DEF s
  <1>3. \A u \in Nat : a <= u /\ u <= a + s => u \in a..(a + s)
    BY <1>1
  <1>4. \A u \in Nat : a <= u /\ u <= a + s => u \in Usable
    BY <1>2, <1>3
  <1>5. a + s \in Nat /\ a + s \in Usable
    BY <1>1, <1>4
  <1>6. a + s <= MaxAddr
    BY <1>5, AddrFacts
  <1>7. ASSUME a < HoleStart PROVE a + s < HoleStart
    <2>1. HoleStart \notin Usable /\ HoleStart \in Nat
      BY AddrFacts
    <2>2. ~(HoleStart <= a + s)
      BY <1>1, <1>4, <1>7, <2>1
    <2> QED
      BY <1>1, <2>1, <2>2
  <1> QED
    BY <1>1, <1>4, <1>5, <1>6, <1>7 DEF s

(* A block cut in two, the second half a block of its own.                 *)
LEMMA SplitLayout ==
    ASSUME NEW h \in Headers, NEW h2 \in Headers, NEW B \in SUBSET Usable,
           Apart(h, B), Covered(h, B),
           NEW node \in B, NEW n \in Nat, NEW start \in Nat, start = node + 1 + n,
           node + h[node].size >= start,
           h2[node].size = n, h2[start].size = h[node].size - (1 + n),
           \A b \in B \ {node} : h2[b].size = h[b].size
    PROVE  /\ start \in Usable \ B
           /\ \A b \in B : b > node => b > node + h[node].size
           /\ Apart(h2, B \cup {start}) /\ Covered(h2, B \cup {start})
  <1> DEFINE s == h[node].size
  <1>1. node \in Nat /\ s \in Nat /\ \A b \in B : b \in Nat /\ h[b].size \in Nat
    BY ExtentFacts
  <1>2. \A b \in B : b > node => node + s < b
    BY DEF Apart
  <1>3. \A b \in B : b < node => b + h[b].size < node
    BY DEF Apart
  <1>4. \A u \in Nat : node <= u /\ u <= node + s => u \in Usable
    BY ExtentFacts
  <1>5. start \in Usable
    BY <1>1, <1>4
  <1> HIDE DEF s
  <1>0. /\ start = node + 1 + n /\ node + s >= start
        /\ h2[node].size = n /\ h2[start].size = s - (1 + n)
    BY DEF s
  <1>6. start > node /\ \A b \in B : b # start
    <2>1. start > node
      BY <1>0, <1>1
    <2>2. ASSUME NEW b \in B, b = start PROVE FALSE
      BY <1>0, <1>1, <1>2, <2>1, <2>2
    <2> QED
      BY <2>1, <2>2
  <1>7. Apart(h2, B \cup {start})
    <2>1. ASSUME NEW a \in B \cup {start}
          PROVE  Extent(h2, a) \subseteq Usable
      <3>1. CASE a = node
        <4>1. \A u \in Extent(h2, a) : u \in Nat /\ node <= u /\ u <= node + s
          BY <1>0, <1>1, <3>1 DEF Extent
        <4> QED
          BY <1>4, <4>1
      <3>2. CASE a = start
        <4>1. \A u \in Extent(h2, a) : u \in Nat /\ node <= u /\ u <= node + s
          BY <1>0, <1>1, <3>2 DEF Extent
        <4> QED
          BY <1>4, <4>1
      <3>3. CASE a \in B \ {node}
        <4>1. Extent(h2, a) = Extent(h, a)
          BY <3>3 DEF Extent
        <4> QED
          BY <3>3, <4>1 DEF Apart
      <3> QED
        BY <3>1, <3>2, <3>3
    <2>2. ASSUME NEW a \in B \cup {start}, NEW b \in B \cup {start}, a < b
          PROVE  a + h2[a].size < b
      <3>1. CASE a = node /\ b = start
        BY <1>0, <1>1, <3>1
      <3>2. CASE a = node /\ b \in B
        <4>1. node + s < b /\ b \in Nat
          BY <1>1, <1>2, <2>2, <3>2
        <4> QED
          BY <1>0, <1>1, <3>2, <4>1
      <3>3. CASE a = start /\ b \in B
        <4>1. b > node
          BY <1>1, <1>6, <2>2, <3>3
        <4>2. node + s < b /\ b \in Nat
          BY <1>1, <1>2, <3>3, <4>1
        <4> QED
          BY <1>0, <1>1, <3>3, <4>2
      <3>4. CASE a \in B \ {node} /\ b \in B
        BY <2>2, <3>4 DEF Apart
      <3>5. CASE a \in B \ {node} /\ b = start
        <4>1. a \in Nat /\ h[a].size \in Nat /\ h2[a].size = h[a].size /\ a # node
          BY <1>1, <3>5
        <4>2. a > node => node + s < a
          BY <1>2, <3>5
        <4>3. a < node
          BY <1>0, <1>1, <2>2, <3>5, <4>1, <4>2
        <4>4. a + h[a].size < node
          BY <1>3, <3>5, <4>3
        <4> QED
          BY <1>1, <1>6, <3>5, <4>1, <4>4
      <3>6. CASE a = start /\ b = start
        BY <2>2, <3>6
      <3> QED
        BY <3>1, <3>2, <3>3, <3>4, <3>5, <3>6
    <2> QED
      BY <2>1, <2>2 DEF Apart
  <1>8. Covered(h2, B \cup {start})
    <2> SUFFICES ASSUME NEW u \in Usable \ {HoleStart - 1}
                 PROVE  \E a \in B \cup {start} : u \in Extent(h2, a)
      BY DEF Covered
    <2>1. PICK a \in B : u \in Extent(h, a)
      BY DEF Covered
    <2>2. CASE a # node
      BY <2>1, <2>2 DEF Extent
    <2>3. CASE a = node
      <3>1. u \in Nat /\ node <= u /\ u <= node + s
        BY <1>1, <2>1, <2>3, AddrFacts DEF Extent, s
      <3>2. u \in Extent(h2, node) \/ u \in Extent(h2, start)
        <4>1. u < start => u \in Extent(h2, node)
          BY <1>0, <1>1, <3>1 DEF Extent
        <4>2. ~(u < start) => u \in Extent(h2, start)
          BY <1>0, <1>1, <3>1 DEF Extent
        <4> QED
          BY <4>1, <4>2
      <3> QED
        BY <3>2
    <2> QED
      BY <2>2, <2>3
  <1> QED
    BY <1>2, <1>5, <1>6, <1>7, <1>8 DEF s

(* A block that keeps its size, or loses the unit before the hole.         *)
LEMMA WholeLayout ==
    ASSUME NEW h \in Headers, NEW h2 \in Headers, NEW B \in SUBSET Usable,
           Apart(h, B), Covered(h, B),
           NEW node \in B, NEW n \in Nat, h2[node].size = n,
           \/ h[node].size = n
           \/ h[node].size = n + 1 /\ node + 1 + n = HoleStart - 1,
           \A b \in B \ {node} : h2[b].size = h[b].size
    PROVE  Apart(h2, B) /\ Covered(h2, B)
  <1> DEFINE s == h[node].size
  <1>1. node \in Nat /\ s \in Nat /\ \A b \in B : b \in Nat /\ h[b].size \in Nat
    BY ExtentFacts
  <1>2. \A u \in Nat : node <= u /\ u <= node + s => u \in Usable
    BY ExtentFacts
  <1> HIDE DEF s
  <1>3. n <= s
    BY <1>1 DEF s
  <1>4. Apart(h2, B)
    <2>1. ASSUME NEW a \in B PROVE Extent(h2, a) \subseteq Usable
      <3>1. CASE a = node
        <4>1. \A u \in Extent(h2, a) : u \in Nat /\ node <= u /\ u <= node + s
          BY <1>1, <1>3, <3>1 DEF Extent
        <4> QED
          BY <1>2, <4>1
      <3>2. CASE a # node
        <4>1. Extent(h2, a) = Extent(h, a)
          BY <3>2 DEF Extent
        <4> QED
          BY <4>1 DEF Apart
      <3> QED
        BY <3>1, <3>2
    <2>2. ASSUME NEW a \in B, NEW b \in B, a < b PROVE a + h2[a].size < b
      <3>1. a + h[a].size < b /\ b \in Nat /\ a \in Nat /\ h[a].size \in Nat
        BY <1>1, <2>2 DEF Apart
      <3>2. CASE a = node
        BY <1>1, <1>3, <3>1, <3>2 DEF s
      <3>3. CASE a # node
        BY <3>1, <3>3
      <3> QED
        BY <3>2, <3>3
    <2> QED
      BY <2>1, <2>2 DEF Apart
  <1>5. Covered(h2, B)
    <2> SUFFICES ASSUME NEW u \in Usable \ {HoleStart - 1}
                 PROVE  \E a \in B : u \in Extent(h2, a)
      BY DEF Covered
    <2>1. PICK a \in B : u \in Extent(h, a)
      BY DEF Covered
    <2>2. CASE a # node
      BY <2>1, <2>2 DEF Extent
    <2>3. CASE a = node
      <3>1. u \in Nat /\ node <= u /\ u <= node + s /\ u # HoleStart - 1
        BY <1>1, <2>1, <2>3, AddrFacts DEF Extent, s
      <3>2. s = n \/ (s = n + 1 /\ node + 1 + n = HoleStart - 1)
        BY DEF s
      <3>3. u <= node + n
        BY <1>1, <3>1, <3>2, AddrFacts
      <3> QED
        BY <1>1, <2>3, <3>1, <3>3 DEF Extent
    <2> QED
      BY <2>2, <2>3
  <1> QED
    BY <1>4, <1>5

(* Two neighbouring blocks made one.                                       *)
LEMMA JoinLayout ==
    ASSUME NEW h \in Headers, NEW h2 \in Headers, NEW B \in SUBSET Usable,
           Apart(h, B), Covered(h, B),
           NEW f \in B, NEW l \in B, f + 1 + h[f].size = l,
           h2[f].size = h[f].size + 1 + h[l].size,
           \A b \in B \ {f, l} : h2[b].size = h[b].size
    PROVE  Apart(h2, B \ {l}) /\ Covered(h2, B \ {l})
  <1> DEFINE s == h[f].size
             t == h[l].size
  <1>1. f \in Nat /\ l \in Nat /\ s \in Nat /\ t \in Nat
        /\ \A b \in B : b \in Nat /\ h[b].size \in Nat
    BY ExtentFacts
  <1>2. /\ \A u \in Nat : f <= u /\ u <= f + s => u \in Usable
        /\ \A u \in Nat : l <= u /\ u <= l + t => u \in Usable
    BY ExtentFacts
  <1>3. \A b \in B : (b > l => l + t < b) /\ (b > f => f + s < b)
    BY DEF Apart
  <1> HIDE DEF s, t
  <1>0. f + 1 + s = l /\ h2[f].size = s + 1 + t
    BY DEF s, t
  <1>4. f < l /\ f + (s + 1 + t) = l + t
    BY <1>0, <1>1
  <1>5. Apart(h2, B \ {l})
    <2>1. ASSUME NEW a \in B \ {l} PROVE Extent(h2, a) \subseteq Usable
      <3>1. CASE a = f
        <4>1. \A u \in Extent(h2, a) :
                u \in Nat /\ ((f <= u /\ u <= f + s) \/ (l <= u /\ u <= l + t))
          BY <1>0, <1>1, <3>1 DEF Extent
        <4> QED
          BY <1>2, <4>1
      <3>2. CASE a # f
        <4>1. Extent(h2, a) = Extent(h, a)
          BY <3>2 DEF Extent
        <4> QED
          BY <4>1 DEF Apart
      <3> QED
        BY <3>1, <3>2
    <2>2. ASSUME NEW a \in B \ {l}, NEW b \in B \ {l}, a < b PROVE a + h2[a].size < b
      <3>1. CASE a = f
        <4>1. b \in Nat /\ b # l /\ f + s < b
          BY <1>1, <1>3, <2>2, <3>1
        <4>2. b > l
          BY <1>0, <1>1, <4>1
        <4>3. l + t < b
          BY <1>3, <4>2
        <4> QED
          BY <1>0, <1>4, <3>1, <4>3
      <3>2. CASE a # f
        BY <2>2, <3>2 DEF Apart
      <3> QED
        BY <3>1, <3>2
    <2> QED
      BY <2>1, <2>2 DEF Apart
  <1>6. Covered(h2, B \ {l})
    <2> SUFFICES ASSUME NEW u \in Usable \ {HoleStart - 1}
                 PROVE  \E a \in B \ {l} : u \in Extent(h2, a)
      BY DEF Covered
    <2>1. PICK a \in B : u \in Extent(h, a)
      BY DEF Covered
    <2>2. CASE a # f /\ a # l
      BY <2>1, <2>2 DEF Extent
    <2>3. CASE a = f \/ a = l
      <3>1. u \in Nat /\ ((f <= u /\ u <= f + s) \/ (l <= u /\ u <= l + t))
        BY <1>1, <2>1, <2>3, AddrFacts DEF Extent, s, t
      <3>2. u \in Extent(h2, f) /\ f \in B \ {l}
        BY <1>0, <1>1, <1>4, <3>1 DEF Extent
      <3> QED
        BY <3>2
    <2> QED
      BY <2>2, <2>3
  <1> QED
    BY <1>5, <1>6

(* Blocks that all keep their sizes.                                       *)
LEMMA SameLayout ==
    ASSUME NEW h, NEW h2, NEW B, Apart(h, B), Covered(h, B),
           \A b \in B : h2[b].size = h[b].size
    PROVE  Apart(h2, B) /\ Covered(h2, B)
  <1>1. \A a \in B : Extent(h2, a) = Extent(h, a)
    BY DEF Extent
  <1> QED
    BY <1>1 DEF Apart, Covered

-----------------------------------------------------------------------------
(* The invariant, of any memory m whose free blocks are F.                 *)
Bare(m) == \A a \in m.allocated : m.header[a].prev = NULL /\ m.header[a].next = NULL

Placed(m, F) ==
    /\ Walkable(m, F)
    /\ Bare(m)
    /\ F \cap m.allocated = {}
    /\ Apart(m.header, F \cup m.allocated)
    /\ Covered(m.header, F \cup m.allocated)

(* Only behind b may there be another free block at once.                  *)
MergedBut(h, F, b) == \A c \in F : c + 1 + h[c].size \in F => c = b

(* What the lemmas below use of it.                                        *)
LEMMA PlacedFacts ==
    ASSUME NEW m, NEW F, Placed(m, F)
    PROVE  /\ m.header \in Headers /\ m.allocated \in SUBSET Usable /\ F \in SUBSET Usable
           /\ F \cup m.allocated \in SUBSET Usable /\ F \in SUBSET Nat
           /\ \A b \in F \cup m.allocated :
                /\ b \in Addr /\ b \in Nat /\ b # NULL /\ b \in Usable
                /\ m.header[b].size \in Nat /\ b + m.header[b].size <= MaxAddr
           /\ \A a, b \in F \cup m.allocated : a < b => a + m.header[a].size < b
           /\ \A a \in F : a \notin m.allocated
  <1>1. /\ m.header \in Headers /\ m.allocated \in SUBSET Usable /\ F \in SUBSET Usable
        /\ F \cup m.allocated \in SUBSET Usable
    BY WalkableFacts DEF Placed, Walkable, MemoryType
  <1>2. ASSUME NEW b \in F \cup m.allocated
        PROVE  /\ b \in Addr /\ b \in Nat /\ b # NULL /\ b \in Usable
               /\ m.header[b].size \in Nat /\ b + m.header[b].size <= MaxAddr
    <2>1. b \in Addr /\ b \in Nat /\ b # NULL /\ b \in Usable
      BY <1>1, AddrFacts
    <2> QED
      BY <1>1, <2>1, ExtentFacts DEF Placed
  <1>3. \A a, b \in F \cup m.allocated : a < b => a + m.header[a].size < b
    BY DEF Placed, Apart
  <1> QED
    BY <1>1, <1>2, <1>3 DEF Placed

(* A split of a free block keeps the invariant.                            *)
LEMMA FrontKeeps ==
    ASSUME NEW m, NEW F, Placed(m, F), Merged(m.header, F), NEW node \in F, NEW n \in Nat,
           m.header[node].size >= n + 1, ~InHole(node + 1 + n)
    PROVE  \E F2 : /\ Placed(GetMemHeader(m, node, n), F2)
                   /\ Merged(GetMemHeader(m, node, n).header, F2)
  <1> DEFINE h == m.header
             A == m.allocated
             B == F \cup A
             start == node + 1 + n
             F2 == (F \ {node}) \cup {start}
             m2 == GetMemHeader(m, node, n)
             s == h[node].size
  <1>1. /\ h \in Headers /\ A \in SUBSET Usable /\ F \in SUBSET Usable /\ B \in SUBSET Usable
        /\ \A b \in B : b \in Addr /\ b \in Nat /\ b # NULL /\ h[b].size \in Nat
        /\ \A a \in F : a \notin A
        /\ node \in B /\ node \in Nat /\ s \in Nat /\ start \in Nat
        /\ Apart(h, B) /\ Covered(h, B)
    <2>1. Apart(h, B) /\ Covered(h, B)
      BY DEF Placed
    <2> QED
      BY <2>1, PlacedFacts
  <1>2. node + s >= start /\ start > node
    BY <1>1
  <1>3. start \in Usable
    BY <1>1, <1>2, ExtentFacts
  <1>4. \A b \in B : b > node => node + s < b
    BY <1>1 DEF Apart
  <1>5. ASSUME NEW b \in B, b > node PROVE b > start
    <2>1. b \in Nat /\ node + s < b
      BY <1>1, <1>4, <1>5
    <2> HIDE DEF start, s
    <2> QED
      BY <1>1, <1>2, <2>1
  <1>6. start \notin B
    BY <1>1, <1>2, <1>5
  <1>7. Walkable(m, F)
    BY DEF Placed
  <1> HIDE DEF start, h, s
  <1>8. Takes(m2, m, F, F2, node, start, n) /\ m2.header[start].size = h[node].size - (1 + n)
    <2>1. start \in Usable \ F /\ start = node + 1 + n /\ ~InHole(start)
      BY <1>3, <1>6 DEF start
    <2>2. node + m.header[node].size >= start /\ \A b \in F : b > node => b > start
      BY <1>2, <1>5 DEF h, s
    <2> QED
      BY <1>7, <2>1, <2>2, TakeFront DEF h, F2
  <1> HIDE DEF m2
  <1>9. /\ m2.header \in Headers /\ m2.allocated = A \cup {node} /\ m2.header[node].size = n
        /\ Walkable(m2, F2)
        /\ m2.header[node].prev = NULL /\ m2.header[node].next = NULL
        /\ \A b \in B \ {node} : m2.header[b].size = h[b].size
        /\ \A b \in A : m2.header[b].prev = h[b].prev /\ m2.header[b].next = h[b].next
    <2>1. Walkable(m2, F2) => m2.header \in Headers
      BY DEF Walkable, MemoryType
    <2>2. \A b \in A : b \in Addr \ {node, start} /\ b \notin F
      BY <1>1, <1>6
    <2>3. \A b \in B \ {node} : b \in Addr \ {node, start}
      BY <1>1, <1>6
    <2> QED
      BY <1>8, <2>1, <2>2, <2>3 DEF Takes, h
  <1>10. /\ Apart(m2.header, B \cup {start}) /\ Covered(m2.header, B \cup {start})
    <2>1. start = node + 1 + n /\ start \in Nat /\ node + h[node].size >= start
      BY <1>1, <1>2 DEF start, s
    <2> QED
      BY <1>1, <1>8, <1>9, <2>1, SplitLayout
  <1>11. F2 \cup m2.allocated = B \cup {start}
    BY <1>1, <1>9
  <1>12. Bare(m2)
    <2>1. \A b \in A : h[b].prev = NULL /\ h[b].next = NULL
      BY DEF Placed, Bare, h
    <2> QED
      BY <1>9, <2>1 DEF Bare
  <1>13. F2 \cap m2.allocated = {}
    BY <1>1, <1>2, <1>6, <1>9
  <1>14. Placed(m2, F2)
    BY <1>9, <1>10, <1>11, <1>12, <1>13 DEF Placed
  <1>15. ASSUME NEW c \in F2 PROVE c + 1 + m2.header[c].size \notin F2
    <2>1. CASE c = start
      <3>1. start + 1 + m2.header[start].size = node + 1 + s
        BY <1>1, <1>8 DEF start, s, h
      <3>2. node + 1 + s \notin F
        BY DEF Merged, s, h
      <3>3. node + 1 + s # start
        BY <1>1, <1>2
      <3> QED
        BY <2>1, <3>1, <3>2, <3>3
    <2>2. CASE c \in F \ {node}
      <3>1. m2.header[c].size = h[c].size /\ c \in Nat /\ h[c].size \in Nat
        BY <1>1, <1>9, <2>2
      <3>2. c + 1 + h[c].size \notin F
        BY <2>2 DEF Merged, h
      <3>3. ASSUME c + 1 + h[c].size = start PROVE FALSE
        <4>1. c < start
          BY <1>1, <3>1, <3>3
        <4>2. c < node
          BY <1>1, <1>5, <2>2, <3>1, <4>1
        <4>3. c + h[c].size < node
          BY <1>1, <2>2, <4>2 DEF Apart
        <4> QED
          BY <1>1, <1>2, <3>1, <3>3, <4>3
      <3> QED
        BY <3>1, <3>2, <3>3
    <2> QED
      BY <2>1, <2>2
  <1> QED
    BY <1>14, <1>15 DEF Merged, m2

(* So does a free block handed out whole, where nothing can be put behind. *)
LEMMA WholeKeeps ==
    ASSUME NEW m, NEW F, Placed(m, F), Merged(m.header, F), NEW node \in F, NEW n \in Nat,
           \/ InHole(node + 1 + n)
           \/ ~InHole(node + 1 + n) /\ node + 1 + n > MaxAddr /\ m.header[node].prev = NULL,
           \/ m.header[node].size = n
           \/ m.header[node].size = n + 1 /\ node + 1 + n = HoleStart - 1
    PROVE  \E F2 : /\ Placed(GetMemHeader(m, node, n), F2)
                   /\ Merged(GetMemHeader(m, node, n).header, F2)
  <1> DEFINE h == m.header
             A == m.allocated
             B == F \cup A
             F2 == F \ {node}
             m2 == GetMemHeader(m, node, n)
  <1>1. /\ h \in Headers /\ A \in SUBSET Usable /\ F \in SUBSET Usable /\ B \in SUBSET Usable
        /\ \A b \in B : b \in Addr /\ b \in Nat /\ b # NULL /\ h[b].size \in Nat
        /\ \A a \in F : a \notin A
        /\ node \in B /\ node \in Addr
        /\ Apart(h, B) /\ Covered(h, B)
    <2>1. Apart(h, B) /\ Covered(h, B)
      BY DEF Placed
    <2> QED
      BY <2>1, PlacedFacts
  <1>2. n \in HeaderSize
    <2> DEFINE s == h[node].size
    <2>1. s <= MaxAddr - FreeMem /\ s \in Nat /\ MaxAddr \in Nat /\ FreeMem \in Nat
      BY <1>1, HeaderFacts, AddrFacts
    <2>2. s = n \/ s = n + 1
      OBVIOUS
    <2> HIDE DEF s
    <2> QED
      BY <2>1, <2>2 DEF HeaderSize
  <1>3. Takes(m2, m, F, F2, node, node, n)
    <2>1. Walkable(m, F)
      BY DEF Placed
    <2> QED
      BY <1>2, <2>1, TakeWhole
  <1> HIDE DEF m2, h
  <1>4. /\ m2.header \in Headers /\ m2.allocated = A \cup {node} /\ m2.header[node].size = n
        /\ Walkable(m2, F2)
        /\ m2.header[node].prev = NULL /\ m2.header[node].next = NULL
        /\ \A b \in B \ {node} : m2.header[b].size = h[b].size
        /\ \A b \in A : m2.header[b].prev = h[b].prev /\ m2.header[b].next = h[b].next
    <2>1. Walkable(m2, F2) => m2.header \in Headers
      BY DEF Walkable, MemoryType
    <2>2. \A b \in A : b \in Addr \ {node} /\ b \notin F
      BY <1>1
    <2>3. \A b \in B \ {node} : b \in Addr \ {node}
      BY <1>1
    <2> QED
      BY <1>3, <2>1, <2>2, <2>3 DEF Takes, h
  <1>5. Apart(m2.header, B) /\ Covered(m2.header, B)
    <2>1. \/ h[node].size = n
          \/ h[node].size = n + 1 /\ node + 1 + n = HoleStart - 1
      BY DEF h
    <2> QED
      BY <1>1, <1>4, <2>1, WholeLayout
  <1>6. F2 \cup m2.allocated = B /\ F2 \cap m2.allocated = {}
    BY <1>1, <1>4
  <1>7. Bare(m2)
    <2>1. \A b \in A : h[b].prev = NULL /\ h[b].next = NULL
      BY DEF Placed, Bare, h
    <2> QED
      BY <1>4, <2>1 DEF Bare
  <1>8. Placed(m2, F2)
    BY <1>4, <1>5, <1>6, <1>7 DEF Placed
  <1>9. \A c \in F2 : c + 1 + m2.header[c].size \notin F2
    <2>1. \A c \in F2 : m2.header[c].size = h[c].size
      BY <1>4
    <2> QED
      BY <2>1 DEF Merged, h
  <1> QED
    BY <1>8, <1>9 DEF Merged, m2

(* kmalloc keeps the invariant, unless the request fits where that harms.  *)
LEMMA GetMemHeaderKeeps ==
    ASSUME NEW m, NEW F, Placed(m, F), Merged(m.header, F), NEW node \in F, NEW n \in Nat,
           m.header[node].size >= n,
           \/ m.header[node].size # n
           \/ node + 1 + n = HoleStart
           \/ node + n = MaxAddr /\ m.header[node].prev = NULL
    PROVE  \E F2 : /\ Placed(GetMemHeader(m, node, n), F2)
                   /\ Merged(GetMemHeader(m, node, n).header, F2)
  <1> DEFINE s == m.header[node].size
             start == node + 1 + n
  <1>1. /\ node \in Nat /\ s \in Nat /\ node + s <= MaxAddr /\ node + s \in Usable
        /\ \A u \in Nat : node <= u /\ u <= node + s => u \in Usable
        /\ node < HoleStart => node + s < HoleStart
    <2>1. /\ m.header \in Headers /\ F \cup m.allocated \in SUBSET Usable
          /\ node \in F \cup m.allocated /\ Apart(m.header, F \cup m.allocated)
      BY PlacedFacts DEF Placed
    <2> QED
      BY <2>1, ExtentFacts
  <1>2. \A u \in Usable : u < HoleStart \/ u >= HoleEnd
    BY AddrFacts
  <1> HIDE DEF s
  <1>3. CASE s >= n + 1 /\ ~InHole(start)
    BY <1>3, FrontKeeps DEF s
  <1>4. CASE s >= n + 1 /\ InHole(start)
    <2>1. start \in Nat /\ start \in Usable /\ node <= start /\ start <= node + s
      BY <1>1, <1>4
    <2>2. start = HoleStart - 1
      BY <1>2, <1>4, <2>1, AddrFacts DEF InHole
    <2>3. s = n + 1
      BY <1>1, <1>4, <2>1, <2>2, AddrFacts
    <2> QED
      BY <1>4, <2>2, <2>3, WholeKeeps DEF s
  <1>5. CASE ~(s >= n + 1)
    <2>1. s = n
      BY <1>1, <1>5 DEF s
    <2>2. CASE start = HoleStart
      <3>1. InHole(start)
        BY <2>2, AddrFacts DEF InHole
      <3> QED
        BY <2>1, <3>1, WholeKeeps DEF s
    <2>3. CASE start # HoleStart
      <3>1. node + n = MaxAddr /\ m.header[node].prev = NULL
        BY <2>1, <2>3 DEF s
      <3>2. start > MaxAddr /\ ~InHole(start)
        BY <1>1, <3>1, AddrFacts DEF InHole
      <3> QED
        BY <2>1, <3>1, <3>2, WholeKeeps DEF s
    <2> QED
      BY <2>2, <2>3
  <1> QED
    BY <1>3, <1>4, <1>5

-----------------------------------------------------------------------------
(* A block that is linked in may have free neighbours, on either side.     *)
LEMMA InsertPlaced ==
    ASSUME NEW m, NEW F, Placed(m, F), Merged(m.header, F), NEW a \in m.allocated
    PROVE  LET m1 == InsertMemHeaderLink([m EXCEPT !.allocated = @ \ {a}], a)
           IN  /\ Placed(m1, F \cup {a})
               /\ \A c \in F \cup {a} :
                    c + 1 + m1.header[c].size \in F \cup {a} =>
                        c = a \/ c + 1 + m1.header[c].size = a
  <1> DEFINE m0 == [m EXCEPT !.allocated = @ \ {a}]
             m1 == InsertMemHeaderLink(m0, a)
             F1 == F \cup {a}
             B == F \cup m.allocated
  <1>1. /\ m.header \in Headers /\ m.allocated \in SUBSET Usable /\ F \in SUBSET Usable
        /\ \A b \in B : b \in Addr /\ b \in Nat /\ b # NULL
        /\ \A b \in F : b \notin m.allocated
        /\ m \in MemoryType
    BY PlacedFacts DEF Placed, Walkable
  <1>2. /\ m0.header = m.header /\ m0.allocated = m.allocated \ {a} /\ m0.root = m.root
        /\ m0 \in MemoryType
    BY <1>1 DEF MemoryType
  <1> HIDE DEF m0
  <1>3. Walkable(m0, F) /\ a \in Usable \ F /\ m0.header[a].prev = NULL /\ m0.header[a].next = NULL
    BY <1>1, <1>2 DEF Placed, Walkable, Bare
  <1>4. /\ Walkable(m1, F1) /\ m1.allocated = m.allocated \ {a}
        /\ \A b \in Addr : /\ m1.header[b].size = m.header[b].size
                           /\ b \notin F1 => /\ m1.header[b].prev = m.header[b].prev
                                            /\ m1.header[b].next = m.header[b].next
    BY <1>2, <1>3, InsertKeeps
  <1> HIDE DEF m1
  <1>5. F1 \cup m1.allocated = B /\ F1 \cap m1.allocated = {}
    BY <1>1, <1>4
  <1>6. Bare(m1)
    BY <1>1, <1>4 DEF Placed, Bare
  <1>7. Apart(m1.header, B) /\ Covered(m1.header, B)
    <2>1. Apart(m.header, B) /\ Covered(m.header, B)
      BY DEF Placed
    <2>2. \A b \in B : m1.header[b].size = m.header[b].size
      BY <1>1, <1>4
    <2> QED
      BY <2>1, <2>2, SameLayout
  <1>8. Placed(m1, F1)
    BY <1>4, <1>5, <1>6, <1>7 DEF Placed
  <1>9. ASSUME NEW c \in F1, c + 1 + m1.header[c].size \in F1
        PROVE  c = a \/ c + 1 + m1.header[c].size = a
    <2>1. m1.header[c].size = m.header[c].size
      BY <1>1, <1>4
    <2>2. CASE c \in F
      BY <1>9, <2>1, <2>2 DEF Merged
    <2> QED
      BY <2>2
  <1> QED
    BY <1>8, <1>9 DEF m0, m1

(* Two neighbours on the list with nothing between them.                   *)
Touching(m, f, l) == m.header[f].next = l /\ f + 1 + m.header[f].size = l

Joined(m2, m, F, f, l) ==
    /\ Placed(m2, F \ {l})
    /\ m2.header[f].size = m.header[f].size + 1 + m.header[l].size
    /\ \A b \in F \ {f, l} : m2.header[b].size = m.header[b].size

(* checkAndMergeMemHeaders keeps the invariant then.                       *)
LEMMA MergePlaced ==
    ASSUME NEW m, NEW F, Placed(m, F), NEW f \in F, NEW l \in F, Touching(m, f, l)
    PROVE  Joined(Merge(m, f, l), m, F, f, l)
  <1> DEFINE m2 == Merge(m, f, l)
             F2 == F \ {l}
             B == F \cup m.allocated
  <1>1. /\ m.header \in Headers /\ B \in SUBSET Usable
        /\ \A b \in B : b \in Addr
        /\ \A b \in F : b \notin m.allocated
        /\ f \in B /\ l \in B /\ l + m.header[l].size <= MaxAddr
        /\ Apart(m.header, B) /\ Covered(m.header, B)
    BY PlacedFacts DEF Placed
  <1>2. Merges(m2, m, F, f, l)
    <2>1. Walkable(m, F)
      BY DEF Placed
    <2> QED
      BY <1>1, <2>1, MergeKeeps DEF Touching
  <1> HIDE DEF m2
  <1>3. /\ Walkable(m2, F2) /\ m2.allocated = m.allocated /\ m2.header \in Headers
        /\ m2.header[f].size = m.header[f].size + 1 + m.header[l].size
        /\ \A b \in B \ {f, l} : m2.header[b].size = m.header[b].size
        /\ \A b \in m.allocated : /\ m2.header[b].prev = m.header[b].prev
                                  /\ m2.header[b].next = m.header[b].next
    <2>1. Walkable(m2, F2) => m2.header \in Headers
      BY DEF Walkable, MemoryType
    <2> QED
      BY <1>1, <1>2, <2>1 DEF Merges
  <1>4. Apart(m2.header, B \ {l}) /\ Covered(m2.header, B \ {l})
    BY <1>1, <1>3, JoinLayout DEF Touching
  <1>5. F2 \cup m2.allocated = B \ {l} /\ F2 \cap m2.allocated = {}
    BY <1>1, <1>3
  <1>6. Bare(m2)
    BY <1>3 DEF Placed, Bare
  <1>7. Placed(m2, F2)
    BY <1>3, <1>4, <1>5, <1>6 DEF Placed
  <1> QED
    BY <1>3, <1>7 DEF Joined, m2

(* The merge with the block in front.                                      *)
LEMMA FirstMerge ==
    ASSUME NEW m, NEW F, Placed(m, F), NEW a \in F,
           \A c \in F : c + 1 + m.header[c].size \in F => c = a \/ c + 1 + m.header[c].size = a,
           NEW before, before = m.header[a].prev,
           NEW b, b = IF before # NULL /\ before + 1 + m.header[before].size = a
                      THEN before ELSE a
    PROVE  \E F2 : /\ Placed(Merge(m, before, a), F2) /\ b \in F2
                   /\ MergedBut(Merge(m, before, a).header, F2, b)
  <1> DEFINE h == m.header
  <1>1. /\ F \in SUBSET Nat
        /\ \A c \in F : c \in Nat /\ c # NULL /\ h[c].size \in Nat
        /\ \A c, d \in F : c < d => c + h[c].size < d
    BY PlacedFacts
  <1>2. LastBefore(F, a, before)
    BY DEF Placed, Walkable, InOrder
  <1> HIDE DEF h
  <1>3. CASE before # NULL /\ before + 1 + h[before].size = a
    <2>1. before \in F
      BY <1>2, <1>3 DEF LastBefore
    <2>2. h[before].next = a
      <3>1. FirstFrom(F, before + 1, h[before].next)
        BY <2>1 DEF Placed, Walkable, InOrder, h
      <3> QED
        BY <1>1, <1>2, <2>1, <3>1, InverseNeighbours
    <2> DEFINE m2 == Merge(m, before, a)
    <2>3. /\ Placed(m2, F \ {a})
          /\ \A c \in F \ {before, a} : m2.header[c].size = h[c].size
      <3>1. Touching(m, before, a)
        BY <1>3, <2>2 DEF Touching, h
      <3>2. Joined(m2, m, F, before, a)
        BY <2>1, <3>1, MergePlaced
      <3> QED
        BY <3>2 DEF Joined, h
    <2> HIDE DEF m2
    <2>4. b = before /\ b \in F \ {a}
      <3>1. before # a
        BY <1>1, <1>3, <2>1
      <3> QED
        BY <1>3, <2>1, <3>1 DEF h
    <2>5. MergedBut(m2.header, F \ {a}, b)
      <3> SUFFICES ASSUME NEW c \in F \ {a}, c + 1 + m2.header[c].size \in F \ {a}, c # b
                   PROVE  FALSE
        BY DEF MergedBut
      <3>1. m2.header[c].size = h[c].size
        BY <2>3, <2>4
      <3> QED
        BY <3>1 DEF h
    <2> QED
      BY <2>3, <2>4, <2>5 DEF m2
  <1>4. CASE ~(before # NULL /\ before + 1 + h[before].size = a)
    <2>1. Merge(m, before, a) = m /\ b = a
      BY <1>4 DEF Merge, h
    <2>2. MergedBut(h, F, a)
      <3> SUFFICES ASSUME NEW c \in F, c + 1 + h[c].size \in F, c # a
                   PROVE  FALSE
        BY DEF MergedBut
      <3>1. c + 1 + h[c].size = a
        BY DEF h
      <3>2. c < a /\ c \in Nat /\ a \in Nat /\ h[c].size \in Nat
        BY <1>1, <3>1
      <3>3. before # NULL
        <4>1. before = NULL => c >= a
          BY <1>2 DEF LastBefore
        <4> QED
          BY <3>2, <4>1
      <3>4. before \in F /\ before < a /\ c <= before
        BY <1>2, <3>2, <3>3 DEF LastBefore
      <3>5. c # before
        BY <1>4, <3>1, <3>3
      <3>6. before \in Nat /\ (c < before => c + h[c].size < before)
        BY <1>1, <3>4
      <3> QED
        BY <3>1, <3>2, <3>4, <3>5, <3>6
    <2> QED
      BY <2>1, <2>2 DEF h
  <1> QED
    BY <1>3, <1>4

(* ... and with the one behind.                                            *)
LEMMA SecondMerge ==
    ASSUME NEW m, NEW F, Placed(m, F), NEW b \in F, MergedBut(m.header, F, b)
    PROVE  \E F2 : /\ Placed(Merge(m, b, m.header[b].next), F2)
                   /\ Merged(Merge(m, b, m.header[b].next).header, F2)
  <1> DEFINE h == m.header
             x == h[b].next
             s == h[b].size
  <1>1. /\ F \in SUBSET Nat
        /\ \A c \in F : c \in Nat /\ c # NULL /\ h[c].size \in Nat
        /\ \A c, d \in F : c < d => c + h[c].size < d
        /\ b \in Nat /\ b # NULL /\ s \in Nat
    BY PlacedFacts
  <1>2. FirstFrom(F, b + 1, x)
    BY DEF Placed, Walkable, InOrder
  <1> HIDE DEF h, x, s
  <1>3. CASE x # NULL /\ b + 1 + s = x
    <2>1. x \in F
      BY <1>2, <1>3 DEF FirstFrom
    <2> DEFINE m2 == Merge(m, b, x)
    <2>2. /\ Placed(m2, F \ {x})
          /\ m2.header[b].size = s + 1 + h[x].size
          /\ \A c \in F \ {b, x} : m2.header[c].size = h[c].size
      <3>1. Touching(m, b, x)
        BY <1>3 DEF Touching, h, x, s
      <3>2. Joined(m2, m, F, b, x)
        BY <2>1, <3>1, MergePlaced
      <3> QED
        BY <3>2 DEF Joined, h, s
    <2> HIDE DEF m2
    <2>3. ASSUME NEW c \in F \ {x} PROVE c + 1 + m2.header[c].size \notin F \ {x}
      <3>1. CASE c = b
        <4>1. x # b /\ x \in Nat /\ h[x].size \in Nat
          BY <1>1, <1>3, <2>1
        <4>2. x + 1 + h[x].size \notin F
          BY <2>1, <4>1 DEF MergedBut, h
        <4>3. b + 1 + m2.header[b].size = x + 1 + h[x].size
          BY <1>1, <1>3, <2>2, <4>1
        <4> QED
          BY <3>1, <4>2, <4>3
      <3>2. CASE c # b
        BY <2>2, <3>2 DEF MergedBut, h
      <3> QED
        BY <3>1, <3>2
    <2>4. Merged(m2.header, F \ {x})
      BY <2>3 DEF Merged
    <2> QED
      BY <2>2, <2>4 DEF m2, h, x
  <1>4. CASE ~(x # NULL /\ b + 1 + s = x)
    <2>1. Merge(m, b, x) = m
      BY <1>4 DEF Merge, h, s
    <2>2. b + 1 + s \notin F
      <3> SUFFICES ASSUME b + 1 + s \in F PROVE FALSE
        OBVIOUS
      <3> DEFINE e == b + 1 + s
      <3>1. e \in Nat /\ e \in F /\ e >= b + 1
        BY <1>1
      <3> HIDE DEF e
      <3>2. x # NULL
        <4>1. x = NULL => e < b + 1
          BY <1>2, <3>1 DEF FirstFrom
        <4> QED
          BY <1>1, <3>1, <4>1
      <3>3. x \in F /\ x >= b + 1 /\ e >= x
        BY <1>2, <3>1, <3>2 DEF FirstFrom
      <3>4. x \in Nat /\ b < x
        <4>1. x \in Nat
          BY <1>1, <3>3
        <4> QED
          BY <1>1, <3>3, <4>1
      <3>5. b + s < x
        BY <1>1, <3>3, <3>4 DEF s
      <3>6. e = b + 1 + s
        BY DEF e
      <3> QED
        BY <1>1, <1>4, <3>1, <3>2, <3>3, <3>4, <3>5, <3>6
    <2>3. Merged(h, F)
      BY <2>2 DEF Merged, MergedBut, h, s
    <2> QED
      BY <2>1, <2>3 DEF h, x
  <1> QED
    BY <1>3, <1>4

-----------------------------------------------------------------------------
(* The invariant of a state is that of its memory.                         *)
OfMemory ==
    /\ IInv => Placed(Memory, FreeBlocks) /\ Merged(Memory.header, FreeBlocks)
    /\ \A F : Placed(Memory, F) /\ Merged(Memory.header, F) => IInv

LEMMA MemoryInvariant == OfMemory
  <1>1. /\ Memory.root = rootHeader /\ Memory.header = header
        /\ Memory.allocated = allocated
    BY DEF Memory
  <1>2. TypeOK <=> Memory \in MemoryType
    BY DEF TypeOK, MemoryType, Memory, Headers, HeaderSize
  <1>3. LinksAhead <=> Ahead(header)
    BY DEF LinksAhead, Ahead
  <1>4. FreeBlocks = FreeOf(rootHeader, header)
    BY DEF FreeBlocks, FreeOf
  <1>5. ASSUME IInv
        PROVE  Placed(Memory, FreeBlocks) /\ Merged(Memory.header, FreeBlocks)
    BY <1>1, <1>2, <1>3, <1>5 DEF IInv, Placed, Walkable, Bare, AllocatedBare, Blocks
  <1>6. ASSUME NEW F, Placed(Memory, F), Merged(Memory.header, F)
        PROVE  IInv
    <2>1. FreeBlocks = F
      BY <1>1, <1>4, <1>6, FreeOfList DEF Placed, Walkable, MemoryType
    <2> QED
      BY <1>1, <1>2, <1>3, <1>6, <2>1
         DEF IInv, Placed, Walkable, Bare, AllocatedBare, Blocks
  <1> QED
    BY <1>5, <1>6 DEF OfMemory

(* The two blocks on either side of the hole: initializeMemHeaderList.     *)
LEMMA InitHolds == Init => IInv
  <1> SUFFICES ASSUME Init PROVE IInv
    OBVIOUS
  <1> DEFINE F == {FreeMem, HoleEnd}
             e == HoleStart - FreeMem - 1
             g == MaxAddr - HoleEnd
  <1>0. /\ FreeMem \in Nat /\ HoleStart \in Nat /\ HoleEnd \in Nat /\ MaxAddr \in Nat
        /\ FreeMem < HoleStart /\ HoleStart < HoleEnd /\ HoleEnd <= MaxAddr
        /\ FreeMem \in Usable /\ HoleEnd \in Usable /\ Usable \subseteq Addr /\ Addr \subseteq Nat
        /\ FreeMem # NULL /\ HoleEnd # NULL
    BY AddrFacts
  <1>1. /\ e \in HeaderSize /\ g \in HeaderSize
        /\ 0 \in HeaderSize
        /\ e \in Nat /\ g \in Nat
        /\ FreeMem + e = HoleStart - 1 /\ HoleEnd + g = MaxAddr
    BY <1>0 DEF HeaderSize
  <1> HIDE DEF e, g
  <1>2. /\ rootHeader = FreeMem /\ allocated = {}
        /\ header = [a \in Addr |-> CASE a = FreeMem -> Header(e, NULL, HoleEnd)
                                     [] a = HoleEnd -> Header(g, FreeMem, NULL)
                                     [] OTHER -> Header(0, NULL, NULL)]
    BY DEF Init, e, g
  <1>3. \A a \in Addr : /\ a = FreeMem => header[a] = Header(e, NULL, HoleEnd)
                        /\ a = HoleEnd => header[a] = Header(g, FreeMem, NULL)
                        /\ a # FreeMem /\ a # HoleEnd => header[a] = Header(0, NULL, NULL)
    BY <1>0, <1>2
  <1>4. header \in Headers
    <2>1. /\ Header(e, NULL, HoleEnd) \in [size : HeaderSize,
                                           prev : Usable \cup {NULL}, next : Usable \cup {NULL}]
          /\ Header(g, FreeMem, NULL) \in [size : HeaderSize,
                                           prev : Usable \cup {NULL}, next : Usable \cup {NULL}]
          /\ Header(0, NULL, NULL) \in [size : HeaderSize,
                                        prev : Usable \cup {NULL}, next : Usable \cup {NULL}]
      BY <1>0, <1>1 DEF Header
    <2>2. header = [a \in Addr |-> header[a]]
      BY <1>2
    <2> QED
      BY <1>3, <2>1, <2>2 DEF Headers
  <1>5. /\ header[FreeMem].size = e /\ header[HoleEnd].size = g
        /\ header[FreeMem].prev = NULL /\ header[FreeMem].next = HoleEnd
        /\ header[HoleEnd].prev = FreeMem /\ header[HoleEnd].next = NULL
        /\ \A a \in Addr : a # FreeMem /\ a # HoleEnd => header[a].next = NULL
    BY <1>0, <1>3 DEF Header
  <1>6. Ahead(header)
    <2> SUFFICES ASSUME NEW a \in Addr PROVE header[a].next = NULL \/ header[a].next > a
      BY DEF Ahead
    <2> QED
      BY <1>0, <1>5
  <1>7. InOrder(rootHeader, header, F)
    BY <1>0, <1>2, <1>5 DEF InOrder, FirstFrom, LastBefore
  <1>8. Memory.root = rootHeader /\ Memory.header = header /\ Memory.allocated = {}
    BY <1>2 DEF Memory
  <1>9. Walkable(Memory, F)
    BY <1>0, <1>2, <1>4, <1>6, <1>7, <1>8 DEF Walkable, MemoryType, Memory
  <1>10. /\ \A u \in Usable : u \in Nat /\ (u >= HoleEnd \/ u < HoleStart)
         /\ \A u \in Nat : FreeMem <= u /\ u <= MaxAddr /\ (u >= HoleEnd \/ u < HoleStart)
                             => u \in Usable
         /\ \A u \in Usable : FreeMem <= u /\ u <= MaxAddr
    BY MemoryAssumption DEF Usable, Addr
  <1>11. /\ \A u \in Extent(header, FreeMem) : u \in Nat /\ FreeMem <= u /\ u < HoleStart
         /\ \A u \in Nat : FreeMem <= u /\ u < HoleStart => u \in Extent(header, FreeMem)
         /\ \A u \in Extent(header, HoleEnd) : u \in Nat /\ HoleEnd <= u /\ u <= MaxAddr
         /\ \A u \in Nat : HoleEnd <= u /\ u <= MaxAddr => u \in Extent(header, HoleEnd)
    BY <1>0, <1>1, <1>5 DEF Extent
  <1>12. Apart(header, F)
    <2>1. Extent(header, FreeMem) \subseteq Usable
      BY <1>0, <1>10, <1>11
    <2>2. Extent(header, HoleEnd) \subseteq Usable
      BY <1>0, <1>10, <1>11
    <2>3. FreeMem + header[FreeMem].size < HoleEnd /\ FreeMem < HoleEnd
      BY <1>0, <1>1, <1>5
    <2> QED
      BY <1>0, <2>1, <2>2, <2>3 DEF Apart
  <1>13. Covered(header, F)
    BY <1>10, <1>11 DEF Covered
  <1>14. Merged(header, F)
    <2>1. FreeMem + 1 + header[FreeMem].size = HoleStart
      BY <1>0, <1>1, <1>5
    <2>2. HoleEnd + 1 + header[HoleEnd].size = MaxAddr + 1
      BY <1>0, <1>1, <1>5
    <2> QED
      BY <1>0, <2>1, <2>2 DEF Merged
  <1>15. F \cup Memory.allocated = F /\ F \cap Memory.allocated = {} /\ Bare(Memory)
    BY <1>8 DEF Bare
  <1>16. Placed(Memory, F) /\ Merged(Memory.header, F)
    <2> HIDE DEF F
    <2> QED
      BY <1>8, <1>9, <1>12, <1>13, <1>14, <1>15 DEF Placed
  <1> HIDE DEF F
  <1> QED
    BY <1>16, MemoryInvariant DEF OfMemory

(* A memory with the invariant that becomes the state.                     *)
LEMMA BecomeKeeps ==
    ASSUME NEW m, NEW K, Placed(m, K), Merged(m.header, K), Become(m)
    PROVE  IInv'
  <1>1. /\ Memory'.root = m.root /\ Memory'.header = m.header
        /\ Memory'.allocated = m.allocated
    BY DEF Become, Memory
  <1>2. m \in MemoryType /\ Memory' = [root |-> rootHeader', header |-> header',
                                       allocated |-> allocated']
    BY DEF Placed, Walkable, Memory
  <1>3. Memory' = m
    BY <1>2 DEF MemoryType, Become
  <1>4. (Placed(Memory, K) /\ Merged(Memory.header, K))'
    BY <1>1, <1>3
  <1>5. OfMemory'
    BY MemoryInvariant, PTL
  <1> QED
    BY <1>4, <1>5 DEF OfMemory

(* kmalloc takes from the block that its search found.                     *)
LEMMA KMallocKeeps ==
    ASSUME IInv, ~Overwrites, NEW n \in Sizes, KMalloc(n)
    PROVE  IInv'
  <1> DEFINE node == FirstFit(Memory, n)
  <1>1. Placed(Memory, FreeBlocks) /\ Merged(Memory.header, FreeBlocks)
    BY MemoryInvariant DEF OfMemory
  <1>2. n \in Nat
    BY AddrFacts
  <1>3. /\ node # NULL /\ Harmless(node, n) /\ Become(GetMemHeader(Memory, node, n))
    BY DEF KMalloc, Overwrites
  <1>4. node \in FreeBlocks /\ Memory.header[node].size >= n
    <2>1. Walkable(Memory, FreeBlocks)
      BY <1>1 DEF Placed
    <2> QED
      BY <1>2, <1>3, <2>1, FirstFitFinds
  <1> HIDE DEF node
  <1>5. \/ Memory.header[node].size # n
        \/ node + 1 + n = HoleStart
        \/ node + n = MaxAddr /\ Memory.header[node].prev = NULL
    BY <1>3 DEF Harmless, Memory
  <1>6. PICK K : /\ Placed(GetMemHeader(Memory, node, n), K)
                 /\ Merged(GetMemHeader(Memory, node, n).header, K)
    BY <1>1, <1>2, <1>4, <1>5, GetMemHeaderKeeps
  <1> QED
    BY <1>3, <1>6, BecomeKeeps

(* kfree links the block in and merges it with both its neighbours.        *)
LEMMA KFreeKeeps ==
    ASSUME IInv, NEW a \in allocated, KFree(a)
    PROVE  IInv'
  <1> DEFINE m1 == InsertMemHeaderLink([Memory EXCEPT !.allocated = @ \ {a}], a)
             before == m1.header[a].prev
             touches == before # NULL /\ before + 1 + m1.header[before].size = a
             m2 == Merge(m1, before, a)
             b == IF touches THEN before ELSE a
             m3 == Merge(m2, b, m2.header[b].next)
             F1 == FreeBlocks \cup {a}
  <1>1. Placed(Memory, FreeBlocks) /\ Merged(Memory.header, FreeBlocks)
    BY MemoryInvariant DEF OfMemory
  <1>2. a \in Memory.allocated
    BY DEF Memory
  <1>3. Become(m3)
    BY DEF KFree
  <1>4. /\ Placed(m1, F1)
        /\ \A c \in F1 : c + 1 + m1.header[c].size \in F1 => c = a \/ c + 1 + m1.header[c].size = a
    BY <1>1, <1>2, InsertPlaced
  <1>5. b = IF before # NULL /\ before + 1 + m1.header[before].size = a THEN before ELSE a
    OBVIOUS
  <1>6. a \in F1 /\ before = m1.header[a].prev
    OBVIOUS
  <1> HIDE DEF m1, before, b, F1
  <1>7. PICK F2 : Placed(m2, F2) /\ b \in F2 /\ MergedBut(m2.header, F2, b)
    BY <1>4, <1>5, <1>6, FirstMerge
  <1> HIDE DEF m2
  <1>8. PICK K : Placed(m3, K) /\ Merged(m3.header, K)
    BY <1>7, SecondMerge
  <1> QED
    BY <1>3, <1>8, BecomeKeeps

(* Every step keeps the invariant, unless it overwrites what follows the   *)
(* block it hands out.                                                     *)
LEMMA StepKeeps == IInv /\ [Next]_vars /\ [~Overwrites]_vars => IInv'
  <1> SUFFICES ASSUME IInv, [Next]_vars, [~Overwrites]_vars PROVE IInv'
    OBVIOUS
  <1>1. ASSUME NEW n \in Sizes, KMalloc(n), ~Overwrites PROVE IInv'
    BY <1>1, KMallocKeeps
  <1>2. ASSUME NEW a \in allocated, KFree(a) PROVE IInv'
    BY <1>2, KFreeKeeps
  <1>3. ASSUME UNCHANGED vars PROVE IInv'
    <2>1. Memory' = Memory
      BY <1>3 DEF vars, Memory
    <2>2. PICK K : Placed(Memory, K) /\ Merged(Memory.header, K)
      BY MemoryInvariant DEF OfMemory
    <2>3. Become(Memory)
      BY <1>3 DEF Become, Memory, vars
    <2> QED
      BY <2>2, <2>3, BecomeKeeps
  <1>4. CASE Next /\ ~Overwrites
    BY <1>1, <1>2, <1>4 DEF Next
  <1> QED
    BY <1>3, <1>4

(* Blocks that are apart share no unit.                                    *)
LEMMA DisjointFollows == IInv => BlocksDisjoint
  <1> SUFFICES ASSUME IInv PROVE BlocksDisjoint
    OBVIOUS
  <1>1. /\ Apart(header, Blocks) /\ FreeBlocks \cap allocated = {}
        /\ \A a \in Blocks : Span(a) = Extent(header, a)
    BY DEF IInv, Span, Extent
  <1>2. \A a \in Blocks : a \in Nat /\ header[a].size \in Nat
    BY MemoryInvariant, PlacedFacts DEF OfMemory, Memory, Blocks
  <1>3. ASSUME NEW a \in Blocks, NEW b \in Blocks, a < b
        PROVE  Span(a) \cap Span(b) = {}
    <2>1. a + header[a].size < b
      BY <1>1, <1>3 DEF Apart
    <2> QED
      BY <1>2, <2>1 DEF Span
  <1>4. ASSUME NEW a \in Blocks, NEW b \in Blocks, a # b
        PROVE  Span(a) \cap Span(b) = {}
    <2>1. a < b \/ b < a
      BY <1>2, <1>4
    <2> QED
      BY <1>3, <2>1
  <1> QED
    BY <1>1, <1>4 DEF BlocksDisjoint, Apart

(* A stretch that nobody has lies in one free block: where that ended, the *)
(* next unit would start another free block right behind it.               *)
LEMMA RefusalFollows == IInv => RefusesOnlyWhenFull
  <1> DEFINE owned == (UNION {Span(a) : a \in allocated}) \cup {HoleStart - 1}
  <1>0. HoleStart - 1 \in owned /\ \A c \in allocated : Span(c) \subseteq owned
    OBVIOUS
  <1> SUFFICES ASSUME IInv, NEW n \in Sizes, FirstFit(Memory, n) = NULL,
                      NEW a \in Usable, a..(a + n) \subseteq Usable \ owned
               PROVE  FALSE
    BY DEF RefusesOnlyWhenFull
  <1>1. /\ Placed(Memory, FreeBlocks) /\ Merged(header, FreeBlocks)
        /\ Memory.header = header /\ Memory.allocated = allocated
    BY MemoryInvariant DEF OfMemory, Memory
  <1>2. /\ \A c \in FreeBlocks : c \in Nat /\ c # NULL /\ header[c].size \in Nat
        /\ \A c, d \in FreeBlocks : c < d => c + header[c].size < d
        /\ FreeBlocks \in SUBSET Nat
    BY <1>1, PlacedFacts
  <1>3. a \in Nat /\ n \in Nat
    BY AddrFacts
  <1>4. \A c \in FreeBlocks : header[c].size < n
    <2>1. Walkable(Memory, FreeBlocks)
      BY <1>1 DEF Placed
    <2>2. NULL \notin FreeBlocks
      BY <1>2
    <2> QED
      BY <1>1, <1>3, <2>1, <2>2, FirstFitFinds
  <1>5. ASSUME NEW u \in Nat, a <= u, u <= a + n
        PROVE  \E c \in FreeBlocks : c <= u /\ u <= c + header[c].size
    <2>1. u \in Usable /\ u \notin owned
      BY <1>3, <1>5
    <2>2. u # HoleStart - 1
      <3> HIDE DEF owned
      <3> QED
        BY <1>0, <2>1
    <2>3. Covered(header, FreeBlocks \cup allocated)
      BY <1>1 DEF Placed
    <2>4. PICK c \in FreeBlocks \cup allocated : u \in Extent(header, c)
      BY <2>1, <2>2, <2>3 DEF Covered
    <2>5. c \notin allocated
      <3> HIDE DEF owned
      <3> QED
        BY <1>0, <2>1, <2>4 DEF Span, Extent
    <2> QED
      BY <1>2, <2>4, <2>5 DEF Extent
  <1> HIDE DEF owned
  <1>6. PICK c \in FreeBlocks : c <= a /\ a <= c + header[c].size
    BY <1>3, <1>5
  <1> DEFINE e == c + 1 + header[c].size
  <1>7. e \in Nat /\ a <= e /\ e <= a + n
    <2>1. c \in Nat /\ header[c].size \in Nat /\ header[c].size < n
      BY <1>2, <1>4
    <2> QED
      BY <1>3, <1>6, <2>1
  <1>8. PICK d \in FreeBlocks : d <= e /\ e <= d + header[d].size
    BY <1>5, <1>7
  <1>9. e = d
    <2>1. /\ c \in Nat /\ d \in Nat /\ header[c].size \in Nat /\ header[d].size \in Nat
          /\ c < d => c + header[c].size < d
          /\ d < c => d + header[d].size < c
      BY <1>2
    <2> QED
      BY <1>7, <1>8, <2>1
  <1> QED
    BY <1>1, <1>9 DEF Merged

-----------------------------------------------------------------------------
(* The theorems are about the allocator with or without exact fits, up to  *)
(* the first step that overwrites something: the code takes such steps,    *)
(* and nothing here is claimed of what follows one.                        *)

(* The allocator keeps its free list and the layout of memory until a      *)
(* request fits a block exactly where getMemHeader (c/memHeader.c:207)     *)
(* writes a header over what follows the block.                            *)
THEOREM MemoryIsKept == Spec /\ NothingOverwritten => []IInv
  BY InitHolds, StepKeeps, PTL DEF Spec, NothingOverwritten

(* So until then every size and every link stays within the memory,        *)
THEOREM TypeCorrect == Spec /\ NothingOverwritten => []TypeOK
  <1>1. IInv => TypeOK
    BY DEF IInv
  <1> QED
    BY <1>1, MemoryIsKept, PTL

(* until then kmalloc (c/mem.c) hands out no unit that somebody has, and   *)
THEOREM BlocksNeverOverlap == Spec /\ NothingOverwritten => []BlocksDisjoint
  BY DisjointFollows, MemoryIsKept, PTL

(* it refuses a request only when no stretch of memory is long enough.     *)
THEOREM RefusalsAreRight == Spec /\ NothingOverwritten => []RefusesOnlyWhenFull
  BY RefusalFollows, MemoryIsKept, PTL
=============================================================================

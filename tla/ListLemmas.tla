----------------------------- MODULE ListLemmas -----------------------------
(***************************************************************************)
(* What the proofs about the ready queue and about the kernel need to know *)
(* of linked lists: how the set of the members of a list changes when one  *)
(* is appended, taken from its head or unlinked.                           *)
(***************************************************************************)
EXTENDS DispQueue, NaturalLemmas

(* The links every lemma is about.                                         *)
Links == [Slot -> Proc \cup {NULL}]

(* The slots, the pids and the idle process.                               *)
LEMMA SlotFacts == /\ Proc \subseteq Slot
                   /\ NULL \notin Proc
                   /\ Idle \in Slot
                   /\ Idle \notin Proc
                   /\ \A p \in Slot : p # Idle => p \in Proc
  BY MaxPidAssumption, NullAssumption DEF Slot, Proc, Idle

(* The head of a list is in it.                                            *)
LEMMA ReachHead ==
    ASSUME NEW link, NEW h \in Slot
    PROVE  h \in Reach(link, h)
  BY NullAssumption DEF Reach

(* A list is closed under its link.                                        *)
LEMMA ReachStep ==
    ASSUME NEW link \in Links, NEW h, NEW x \in Reach(link, h), link[x] # NULL
    PROVE  link[x] \in Reach(link, h)
  BY SlotFacts DEF Reach, Closed, Links

(* A list is contained in every closed set that holds its head.            *)
LEMMA ReachLeast ==
    ASSUME NEW link, NEW h, NEW S \in SUBSET Slot, h \in S, Closed(S, link)
    PROVE  Reach(link, h) \subseteq S
  BY DEF Reach

(* Whatever is reached is a slot.                                          *)
LEMMA ReachInSlot ==
    ASSUME NEW link, NEW h
    PROVE  Reach(link, h) \subseteq Slot
  BY DEF Reach

(* A list has one end: whoever is reached from an end is that end.         *)
LEMMA OneEnd ==
    ASSUME NEW link \in Links, NEW h \in Slot,
           NEW x \in Reach(link, h), link[x] = NULL, NEW y \in Reach(link, h), link[y] = NULL
    PROVE  x = y
  <1> DEFINE S == {z \in Slot : x \in Reach(link, z)}
  <1>1. x \in Slot /\ y \in Slot /\ NULL \notin Slot
    BY ReachInSlot, NullAssumption
  <1>2. h \in S
    OBVIOUS
  <1>3. Closed(S, link)
    <2> SUFFICES ASSUME NEW z \in S, link[z] # NULL PROVE link[z] \in S
      BY DEF Closed
    <2>1. z \in Slot /\ z # x /\ link[z] \in Slot /\ x \in Reach(link, z)
      BY SlotFacts DEF Links
    <2>2. \A T \in SUBSET Slot : link[z] \in T /\ Closed(T, link) => x \in T
      <3> SUFFICES ASSUME NEW T \in SUBSET Slot, link[z] \in T, Closed(T, link) PROVE x \in T
        OBVIOUS
      <3>1. T \cup {z} \in SUBSET Slot /\ z \in T \cup {z} /\ Closed(T \cup {z}, link)
        BY <2>1 DEF Closed
      <3>2. x \in T \cup {z}
        BY <1>1, <2>1, <3>1 DEF Reach
      <3> QED
        BY <2>1, <3>2
    <2>3. x \in Reach(link, link[z])
      BY <1>1, <2>1, <2>2 DEF Reach
    <2> QED
      BY <2>1, <2>3
  <1>4. y \in S
    BY <1>2, <1>3, ReachLeast
  <1>5. Reach(link, y) \subseteq {y}
    <2>1. Closed({y}, link) /\ {y} \in SUBSET Slot
      BY <1>1 DEF Closed
    <2> QED
      BY <2>1, ReachLeast
  <1> QED
    BY <1>4, <1>5

(* The empty list has no members.                                          *)
LEMMA ReachNull ==
    ASSUME NEW link
    PROVE  Reach(link, NULL) = {}
  BY DEF Reach

(* Only pids other than the idle one are ever linked.                      *)
LEMMA ReachInProc ==
    ASSUME NEW link \in Links, NEW h \in Proc \cup {NULL}
    PROVE  Reach(link, h) \subseteq Proc
  <1>1. CASE h = NULL
    BY <1>1, ReachNull
  <1>2. CASE h \in Proc
    <2>1. Closed(Proc, link)
      BY SlotFacts DEF Closed, Links
    <2> QED
      BY <1>2, <2>1, SlotFacts, ReachLeast
  <1> QED
    BY <1>1, <1>2

-----------------------------------------------------------------------------
(* What the three functions do to the forward links.                       *)
Appended(link2, link, t, p) ==
    \A x \in Slot : link2[x] = IF x = p THEN NULL ELSE IF x = t THEN p ELSE link[x]

HeadTaken(link2, link, h) ==
    \A x \in Slot : link2[x] = IF x = h THEN NULL ELSE link[x]

Unlinked(link2, link, a, p) ==
    \A x \in Slot : link2[x] = IF x = p THEN NULL ELSE IF x = a THEN link[p] ELSE link[x]

(* Appending p behind the end t of a list adds p to it and nothing else.   *)
LEMMA ReachAppend ==
    ASSUME NEW link \in Links, NEW h \in Proc, NEW p \in Proc,
           NEW t \in Reach(link, h), link[t] = NULL,
           p \notin Reach(link, h),
           NEW link2 \in Links, Appended(link2, link, t, p)
    PROVE  Reach(link2, h) = Reach(link, h) \cup {p}
  <1> DEFINE R == Reach(link, h)
             R2 == Reach(link2, h)
  <1>0. R \subseteq Slot /\ R2 \subseteq Slot /\ t \in Slot /\ p \in Slot /\ h \in Slot
    BY ReachInSlot, SlotFacts
  <1>1. \A x \in Slot : link2[x] = IF x = p THEN NULL ELSE IF x = t THEN p ELSE link[x]
    BY DEF Appended
  <1>2. R2 \subseteq R \cup {p}
    <2>1. Closed(R \cup {p}, link2)
      BY <1>0, <1>1, ReachStep DEF Closed
    <2>2. h \in R \cup {p}
      BY <1>0, ReachHead
    <2> QED
      BY <1>0, <2>1, <2>2, ReachLeast
  <1>3. R \subseteq R2
    <2>1. h \in R2
      BY <1>0, ReachHead
    <2>2. Closed(R2 \ {p}, link)
      <3> SUFFICES ASSUME NEW x \in R2, x # p
                   PROVE  link[x] \in (R2 \ {p}) \cup {NULL}
        BY DEF Closed
      <3>1. CASE x = t
        BY <3>1
      <3>2. CASE x # t
        <4>1. link2[x] = link[x] /\ x \in R
          BY <1>0, <1>1, <1>2, <3>2
        <4>2. link[x] # NULL => link[x] \in R2 /\ link[x] \in R
          BY <4>1, ReachStep
        <4> QED
          BY <4>2
      <3> QED
        BY <3>1, <3>2
    <2>3. h # p
      BY <1>0, ReachHead
    <2> QED
      BY <1>0, <2>1, <2>2, <2>3, ReachLeast
  <1>4. p \in R2
    <2>1. t \in R2 /\ link2[t] = p
      BY <1>0, <1>1, <1>3
    <2> QED
      BY <2>1, ReachStep, SlotFacts
  <1> QED
    BY <1>2, <1>3, <1>4

(* Taking the head off a list, when nothing in the list points back at the *)
(* head, leaves the rest of it.                                            *)
LEMMA ReachTail ==
    ASSUME NEW link \in Links, NEW h \in Proc,
           \A x \in Reach(link, h) : link[x] # h,
           NEW link2 \in Links, HeadTaken(link2, link, h)
    PROVE  Reach(link2, link[h]) = Reach(link, h) \ {h}
  <1> DEFINE R == Reach(link, h)
             n == link[h]
             R2 == Reach(link2, n)
  <1>0. R \subseteq Slot /\ R2 \subseteq Slot /\ h \in Slot /\ h \in R /\ n \in Proc \cup {NULL}
    BY ReachInSlot, ReachHead, SlotFacts DEF Links
  <1>1. \A x \in Slot : link2[x] = IF x = h THEN NULL ELSE link[x]
    BY DEF HeadTaken
  <1>2. CASE n = NULL
    <2>1. R2 = {}
      BY <1>2, ReachNull
    <2>2. Closed({h}, link)
      BY <1>2 DEF Closed
    <2>3. R \subseteq {h}
      BY <1>0, <2>2, ReachLeast
    <2> QED
      BY <2>1, <2>3
  <1>3. CASE n # NULL
    <2>1. R2 \subseteq R \ {h}
      <3>1. Closed(R \ {h}, link2)
        BY <1>0, <1>1, ReachStep DEF Closed
      <3>2. n \in R \ {h}
        BY <1>0, <1>3, ReachStep
      <3> QED
        BY <1>0, <3>1, <3>2, ReachLeast
    <2>2. R \subseteq R2 \cup {h}
      <3>1. n \in R2
        BY <1>0, <1>3, SlotFacts, ReachHead
      <3>2. Closed(R2 \cup {h}, link)
        <4> SUFFICES ASSUME NEW x \in R2 \cup {h}
                     PROVE  link[x] \in (R2 \cup {h}) \cup {NULL}
          BY DEF Closed
        <4>1. CASE x = h
          BY <3>1, <4>1
        <4>2. CASE x # h
          BY <1>0, <1>1, <4>2, ReachStep
        <4> QED
          BY <4>1, <4>2
      <3>3. R2 \cup {h} \in SUBSET Slot /\ h \in R2 \cup {h}
        BY <1>0
      <3> HIDE DEF R2
      <3> QED
        BY <3>2, <3>3, ReachLeast
    <2> QED
      BY <2>1, <2>2
  <1> QED
    BY <1>2, <1>3

(* The back link of the members of a list inverts the link.                *)
BackInverts(link, back, h) ==
    \A x \in Reach(link, h) :
        /\ link[x] # NULL => back[link[x]] = x
        /\ back[x] # NULL => back[x] \in Reach(link, h) /\ link[back[x]] = x

(* A member other than the head has another member before it.              *)
LEMMA InnerHasPrev ==
    ASSUME NEW link \in Links, NEW back \in Links, NEW h \in Proc,
           BackInverts(link, back, h),
           NEW p \in Reach(link, h), p # h
    PROVE  back[p] \in Reach(link, h) \ {p} /\ link[back[p]] = p
  <1> DEFINE R == Reach(link, h)
  <1>0. R \subseteq Slot /\ h \in Slot /\ h \in R
    BY ReachInSlot, ReachHead, SlotFacts
  <1>1. ~ Closed(R \ {p}, link)
    <2> SUFFICES ASSUME Closed(R \ {p}, link) PROVE FALSE
      OBVIOUS
    <2>1. R \ {p} \in SUBSET Slot /\ h \in R \ {p}
      BY <1>0
    <2>2. R \subseteq R \ {p}
      BY <2>1, ReachLeast
    <2> QED
      BY <2>2
  <1>2. PICK x \in R \ {p} : link[x] \notin (R \ {p}) \cup {NULL}
    BY <1>1 DEF Closed
  <1>3. link[x] = p
    BY <1>2, ReachStep
  <1>4. p # NULL
    BY <1>0, NullAssumption
  <1>5. back[p] = x
    BY <1>2, <1>3, <1>4 DEF BackInverts
  <1> QED
    BY <1>2, <1>3, <1>5

(* Unlinking an inner member takes it, and only it, off the list.          *)
LEMMA ReachUnlink ==
    ASSUME NEW link \in Links, NEW h \in Proc,
           NEW p \in Reach(link, h), p # h,
           NEW a \in Reach(link, h), link[a] = p, link[p] # p,
           \A x \in Reach(link, h) : link[x] = p => x = a,
           NEW link2 \in Links, Unlinked(link2, link, a, p)
    PROVE  Reach(link2, h) = Reach(link, h) \ {p}
  <1> DEFINE R == Reach(link, h)
             R2 == Reach(link2, h)
  <1>0. R \subseteq Slot /\ R2 \subseteq Slot /\ h \in Slot /\ h \in R /\ h \in R2
    BY ReachInSlot, ReachHead, SlotFacts
  <1>1. a \in R \ {p} /\ link[a] = p
    OBVIOUS
  <1>2. \A x \in R : link[x] = p => x = a
    OBVIOUS
  <1>3. \A x \in Slot : link2[x] = IF x = p THEN NULL ELSE IF x = a THEN link[p] ELSE link[x]
    BY DEF Unlinked
  <1>4. link[p] # p
    BY <1>1, <1>2
  <1>5. R2 \subseteq R \ {p}
    <2>1. Closed(R \ {p}, link2)
      <3> SUFFICES ASSUME NEW x \in R \ {p}
                   PROVE  link2[x] \in (R \ {p}) \cup {NULL}
        BY DEF Closed
      <3>1. link[x] \in R \cup {NULL} /\ link[p] \in R \cup {NULL}
        BY ReachStep
      <3>2. CASE x = a
        BY <1>0, <1>3, <1>4, <3>1, <3>2
      <3>3. CASE x # a
        BY <1>0, <1>2, <1>3, <3>1, <3>3
      <3> QED
        BY <3>2, <3>3
    <2>2. R \ {p} \in SUBSET Slot /\ h \in R \ {p}
      BY <1>0
    <2> QED
      BY <2>1, <2>2, ReachLeast
  <1>6. a \in R2
    <2> SUFFICES ASSUME a \notin R2 PROVE FALSE
      OBVIOUS
    <2>1. Closed(R2, link)
      <3> SUFFICES ASSUME NEW x \in R2
                   PROVE  link[x] \in R2 \cup {NULL}
        BY DEF Closed
      <3>1. x # p /\ x # a
        BY <1>5
      <3>2. link2[x] = link[x]
        BY <1>0, <1>3, <3>1
      <3> QED
        BY <3>2, ReachStep
    <2>2. R \subseteq R2
      BY <1>0, <2>1, ReachLeast
    <2> QED
      BY <1>1, <2>2
  <1>7. R \subseteq R2 \cup {p}
    <2>1. Closed(R2 \cup {p}, link)
      <3> SUFFICES ASSUME NEW x \in R2 \cup {p}
                   PROVE  link[x] \in (R2 \cup {p}) \cup {NULL}
        BY DEF Closed
      <3>1. CASE x = p
        <4>1. link2[a] = link[p]
          BY <1>0, <1>1, <1>3
        <4> QED
          BY <1>6, <3>1, <4>1, ReachStep
      <3>2. CASE x = a
        BY <1>1, <3>2
      <3>3. CASE x # p /\ x # a
        BY <1>0, <1>3, <3>3, ReachStep
      <3> QED
        BY <3>1, <3>2, <3>3
    <2>2. R2 \cup {p} \in SUBSET Slot /\ h \in R2 \cup {p}
      BY <1>0
    <2> HIDE DEF R2
    <2> QED
      BY <2>1, <2>2, ReachLeast
  <1> QED
    BY <1>5, <1>7

(* Unlinking an inner member, when a back link says who links to it.       *)
LEMMA ReachRemove ==
    ASSUME NEW link \in Links, NEW back \in Links, NEW h \in Proc,
           BackInverts(link, back, h),
           NEW p \in Reach(link, h), p # h,
           NEW link2 \in Links, Unlinked(link2, link, back[p], p)
    PROVE  Reach(link2, h) = Reach(link, h) \ {p}
  <1>1. back[p] \in Reach(link, h) \ {p} /\ link[back[p]] = p
    BY InnerHasPrev
  <1>2. p # NULL
    BY ReachInSlot, NullAssumption
  <1>3. \A x \in Reach(link, h) : link[x] = p => x = back[p]
    BY <1>2 DEF BackInverts
  <1>4. link[p] # p
    BY <1>1, <1>3
  <1> QED
    BY <1>1, <1>3, <1>4, ReachUnlink

-----------------------------------------------------------------------------
(* Nothing changes for a list whose links stay.                            *)
LEMMA ReachSame ==
    ASSUME NEW link \in Links, NEW link2 \in Links, NEW h,
           \A x \in Reach(link, h) : link2[x] = link[x]
    PROVE  Reach(link2, h) = Reach(link, h)
  <1>1. CASE h \in Slot
    <2>1. Closed(Reach(link, h), link2) /\ h \in Reach(link, h)
      BY <1>1, ReachHead, ReachStep DEF Closed
    <2>2. Reach(link2, h) \subseteq Reach(link, h)
      BY <2>1, ReachInSlot, ReachLeast
    <2>3. Closed(Reach(link2, h), link) /\ h \in Reach(link2, h)
      BY <1>1, <2>2, ReachHead, ReachStep DEF Closed
    <2>4. Reach(link, h) \subseteq Reach(link2, h)
      BY <2>3, ReachInSlot, ReachLeast
    <2> QED
      BY <2>2, <2>4
  <1>2. CASE h = NULL
    BY <1>2, ReachNull
  <1>3. CASE h \notin Slot /\ h # NULL
    BY <1>3 DEF Reach
  <1> QED
    BY <1>1, <1>2, <1>3

(* A member other than the head is linked to by another.                   *)
LEMMA InnerIsLinked ==
    ASSUME NEW link \in Links, NEW h \in Proc, NEW p \in Reach(link, h), p # h
    PROVE  \E x \in Reach(link, h) \ {p} : link[x] = p
  <1> DEFINE R == Reach(link, h)
  <1>0. R \subseteq Slot /\ h \in Slot /\ h \in R
    BY ReachInSlot, ReachHead, SlotFacts
  <1>1. ~ Closed(R \ {p}, link)
    <2> SUFFICES ASSUME Closed(R \ {p}, link) PROVE FALSE
      OBVIOUS
    <2>1. R \ {p} \in SUBSET Slot /\ h \in R \ {p}
      BY <1>0
    <2>2. R \subseteq R \ {p}
      BY <2>1, ReachLeast
    <2> QED
      BY <2>2
  <1>2. PICK x \in R \ {p} : link[x] \notin (R \ {p}) \cup {NULL}
    BY <1>1 DEF Closed
  <1> QED
    BY <1>2, ReachStep

-----------------------------------------------------------------------------
(* Several lists that share the links: heads[a] is the head of the list    *)
(* that belongs to a.  No process is linked to twice, or is linked to and  *)
(* a head, or is the head of two lists, and only members are linked on.    *)
Chain(link, heads, a) == Reach(link, heads[a])

LinkedOnce(link, heads) ==
    /\ \A x, y \in Slot : link[x] = link[y] /\ link[x] # NULL => x = y
    /\ \A a, b \in Slot : heads[a] = heads[b] /\ heads[a] # NULL => a = b
    /\ \A a, x \in Slot : heads[a] # NULL => link[x] # heads[a]

OnlyMembersLinked(link, heads) ==
    \A x \in Slot : link[x] # NULL => \E a \in Slot : x \in Chain(link, heads, a)

ListsApart(link, heads) ==
    /\ link \in Links /\ heads \in Links
    /\ LinkedOnce(link, heads) /\ OnlyMembersLinked(link, heads)

(* The members of all lists are processes.                                 *)
LEMMA ChainInProc ==
    ASSUME NEW link \in Links, NEW heads \in Links, NEW a \in Slot
    PROVE  Chain(link, heads, a) \subseteq Proc /\ heads[a] \in Proc \cup {NULL}
  BY ReachInProc DEF Chain, Links

(* The lists have no member in common: what is in one of them and not in   *)
(* the other is closed under the links.                                    *)
LEMMA ChainsDisjoint ==
    ASSUME NEW link, NEW heads, ListsApart(link, heads), NEW a \in Slot, NEW b \in Slot, a # b
    PROVE  Chain(link, heads, a) \cap Chain(link, heads, b) = {}
  <1> DEFINE A == Chain(link, heads, a)
             B == Chain(link, heads, b)
  <1>1. link \in Links /\ heads \in Links /\ A \subseteq Slot /\ B \subseteq Slot
    BY ReachInSlot DEF ListsApart, Chain
  <1>2. heads[a] \in Proc \cup {NULL} /\ heads[b] \in Proc \cup {NULL}
    BY <1>1, ChainInProc
  <1>3. CASE heads[a] = NULL \/ heads[b] = NULL
    BY <1>3, ReachNull DEF Chain
  <1>4. CASE heads[a] # NULL /\ heads[b] # NULL
    <2>1. heads[a] \in Proc /\ heads[b] \in Proc /\ heads[a] # heads[b] /\ heads[a] \in Slot
      BY <1>2, <1>4, SlotFacts DEF ListsApart, LinkedOnce
    <2>2. \A y \in B : y # heads[b] => \E x \in B : link[x] = y
      BY <1>1, <2>1, InnerIsLinked DEF Chain
    <2>3. heads[a] \notin B
      BY <1>1, <1>4, <2>1, <2>2 DEF ListsApart, LinkedOnce
    <2>4. Closed(A \ B, link)
      <3> SUFFICES ASSUME NEW y \in A \ B, link[y] # NULL
                   PROVE  link[y] \in A \ B
        BY DEF Closed
      <3>1. link[y] \in A
        BY <1>1, ReachStep DEF Chain
      <3>2. link[y] # heads[b]
        BY <1>1, <1>4 DEF ListsApart, LinkedOnce
      <3>3. link[y] \notin B
        BY <1>1, <2>2, <3>2 DEF ListsApart, LinkedOnce
      <3> QED
        BY <3>1, <3>3
    <2>5. heads[a] \in A \ B /\ A \ B \in SUBSET Slot
      BY <1>1, <2>1, <2>3, ReachHead DEF Chain
    <2>6. A \subseteq A \ B
      BY <2>4, <2>5, ReachLeast DEF Chain
    <2> QED
      BY <2>6
  <1> QED
    BY <1>3, <1>4

(* Every list has an end, or the links would map its members one to one to *)
(* those other than the head.                                              *)
LEMMA ChainEnds ==
    ASSUME NEW link, NEW heads, ListsApart(link, heads), NEW a \in Slot, heads[a] # NULL
    PROVE  /\ Ends(link, heads[a])
           /\ TailOf(link, heads[a]) \in Chain(link, heads, a)
           /\ link[TailOf(link, heads[a])] = NULL
  <1> DEFINE A == Chain(link, heads, a)
             h == heads[a]
  <1>1. link \in Links /\ heads \in Links /\ A \subseteq Proc /\ h \in Proc
    BY ChainInProc DEF ListsApart
  <1>2. h \in A /\ A \subseteq Slot
    BY <1>1, ReachHead, SlotFacts DEF Chain
  <1>3. \E t \in A : link[t] = NULL
    <2> SUFFICES ASSUME \A t \in A : link[t] # NULL PROVE FALSE
      OBVIOUS
    <2>1. IsFiniteSet(A)
      <3>1. IsFiniteSet(1..MaxPid)
        <4>1. 1 \in Int /\ MaxPid \in Int
          BY MaxPidAssumption
        <4> QED
          BY <4>1, FS_Interval
      <3> QED
        BY <1>1, <3>1, FS_Subset DEF Proc
    <2> DEFINE f == [x \in A |-> link[x]]
    <2>2. \A x \in A : link[x] \in A \ {h}
      BY <1>1, <1>2, ReachStep DEF Chain, ListsApart, LinkedOnce
    <2>3. f \in [A -> A \ {h}]
      BY <2>2
    <2>4. IsFiniteSet(A \ {h}) /\ Cardinality(A \ {h}) = Cardinality(A) - 1
      BY <1>2, <2>1, FS_RemoveElement
    <2>5. Cardinality(A) \in Nat
      BY <2>1, FS_CardinalityType
    <2>6. PICK x, y \in A : x # y /\ f[x] = f[y]
      <3>1. Cardinality(A \ {h}) < Cardinality(A)
        BY <2>4, <2>5
      <3> HIDE DEF f, A, h
      <3> QED
        BY <2>1, <2>3, <2>4, <3>1, FS_PigeonHole
    <2> QED
      BY <1>2, <2>6 DEF ListsApart, LinkedOnce
  <1>4. Reach(link, heads[a]) = A
    BY DEF Chain
  <1> QED
    BY <1>3, <1>4 DEF Ends, TailOf

(* A process in no list is neither linked on nor linked to.                *)
Outside(link, heads, p) == \A a \in Slot : p \notin Chain(link, heads, a)

(* A process that is in no list links to nobody and is linked to by        *)
(* nobody.                                                                 *)
LEMMA OutsideIsLoose ==
    ASSUME NEW link, NEW heads, ListsApart(link, heads), NEW p \in Proc, Outside(link, heads, p)
    PROVE  /\ link[p] = NULL
           /\ \A x \in Slot : link[x] # p
           /\ \A a \in Slot : heads[a] # p
  <1>1. link \in Links /\ heads \in Links /\ p \in Slot /\ p # NULL
    BY SlotFacts, NullAssumption DEF ListsApart
  <1>2. link[p] = NULL
    BY <1>1 DEF ListsApart, OnlyMembersLinked, Outside
  <1>3. \A a \in Slot : heads[a] # p
    BY <1>1, ReachHead DEF Chain, Outside
  <1>4. ASSUME NEW x \in Slot, link[x] = p PROVE FALSE
    <2>1. PICK a \in Slot : x \in Chain(link, heads, a)
      BY <1>1, <1>4 DEF ListsApart, OnlyMembersLinked
    <2> QED
      BY <1>1, <1>4, <2>1, ReachStep DEF Chain, Outside
  <1> QED
    BY <1>2, <1>3, <1>4

(* What the operations on the lists do: p joins the list of a, or leaves   *)
(* the list it is in.                                                      *)
Joined(link2, heads2, link, heads, a, p) ==
    /\ ListsApart(link2, heads2)
    /\ \A b \in Slot : Chain(link2, heads2, b)
                         = IF b = a THEN Chain(link, heads, b) \cup {p} ELSE Chain(link, heads, b)

Left(link2, heads2, link, heads, p) ==
    /\ ListsApart(link2, heads2)
    /\ \A b \in Slot : Chain(link2, heads2, b) = Chain(link, heads, b) \ {p}

HeadSet(heads2, heads, a, h) ==
    \A b \in Slot : heads2[b] = IF b = a THEN h ELSE heads[b]

(* A process that is in no list becomes the only member of an empty one.   *)
LEMMA JoinFirst ==
    ASSUME NEW link, NEW heads, ListsApart(link, heads), NEW a \in Slot, heads[a] = NULL,
           NEW p \in Proc, Outside(link, heads, p),
           NEW heads2 \in Links, HeadSet(heads2, heads, a, p)
    PROVE  Joined(link, heads2, link, heads, a, p)
  <1>1. link \in Links /\ heads \in Links /\ p \in Slot /\ p # NULL
    BY SlotFacts, NullAssumption DEF ListsApart
  <1>2. link[p] = NULL /\ (\A x \in Slot : link[x] # p) /\ (\A b \in Slot : heads[b] # p)
    BY OutsideIsLoose
  <1>3. \A b \in Slot : b # a => Chain(link, heads2, b) = Chain(link, heads, b)
    BY DEF HeadSet, Chain
  <1>4. Chain(link, heads, a) = {}
    BY ReachNull DEF Chain
  <1>5. Chain(link, heads2, a) = {p}
    <2>1. heads2[a] = p
      BY DEF HeadSet
    <2>2. Closed({p}, link)
      BY <1>2 DEF Closed
    <2>3. Reach(link, p) = {p}
      BY <1>1, <2>2, ReachHead, ReachLeast
    <2> QED
      BY <2>1, <2>3 DEF Chain
  <1>6. LinkedOnce(link, heads2)
    BY <1>1, <1>2 DEF ListsApart, LinkedOnce, HeadSet
  <1>7. OnlyMembersLinked(link, heads2)
    <2> SUFFICES ASSUME NEW x \in Slot, link[x] # NULL
                 PROVE  \E b \in Slot : x \in Chain(link, heads2, b)
      BY DEF OnlyMembersLinked
    <2>1. PICK b \in Slot : x \in Chain(link, heads, b)
      BY DEF ListsApart, OnlyMembersLinked
    <2> QED
      BY <1>3, <1>4, <2>1
  <1> QED
    BY <1>1, <1>3, <1>4, <1>5, <1>6, <1>7 DEF Joined, ListsApart

(* A process that is in no list is appended to one that has an end.        *)
LEMMA JoinBehind ==
    ASSUME NEW link, NEW heads, ListsApart(link, heads), NEW a \in Slot, heads[a] # NULL,
           NEW p \in Proc, Outside(link, heads, p),
           NEW link2 \in Links, Appended(link2, link, TailOf(link, heads[a]), p)
    PROVE  Joined(link2, heads, link, heads, a, p)
  <1> DEFINE t == TailOf(link, heads[a])
  <1>1. link \in Links /\ heads \in Links /\ p \in Slot /\ p # NULL /\ heads[a] \in Proc
    BY ChainInProc, SlotFacts, NullAssumption DEF ListsApart
  <1>2. link[p] = NULL /\ (\A x \in Slot : link[x] # p) /\ (\A b \in Slot : heads[b] # p)
    BY OutsideIsLoose
  <1>3. t \in Chain(link, heads, a) /\ link[t] = NULL /\ t \in Slot /\ t # p
    BY <1>1, ChainEnds, ReachInSlot DEF Chain, Outside
  <1> HIDE DEF t
  <1>4. \A x \in Slot : link2[x] = IF x = p THEN NULL ELSE IF x = t THEN p ELSE link[x]
    BY DEF Appended, t
  <1>5. Chain(link2, heads, a) = Chain(link, heads, a) \cup {p}
    <2>1. Appended(link2, link, t, p) /\ p \notin Reach(link, heads[a]) /\ t \in Reach(link, heads[a])
      BY <1>3 DEF Outside, Chain, t
    <2> QED
      BY <1>1, <1>3, <2>1, ReachAppend DEF Chain
  <1>6. ASSUME NEW b \in Slot, b # a
        PROVE  Chain(link2, heads, b) = Chain(link, heads, b)
    <2>1. \A x \in Chain(link, heads, b) : x \in Slot /\ x # p /\ x # t
      BY <1>3, <1>6, ChainsDisjoint, ReachInSlot DEF Outside, Chain
    <2>2. \A x \in Chain(link, heads, b) : link2[x] = link[x]
      BY <1>4, <2>1
    <2> QED
      BY <1>1, <2>2, ReachSame DEF Chain
  <1>7. LinkedOnce(link2, heads)
    BY <1>1, <1>2, <1>3, <1>4 DEF ListsApart, LinkedOnce
  <1>8. OnlyMembersLinked(link2, heads)
    <2> SUFFICES ASSUME NEW x \in Slot, link2[x] # NULL
                 PROVE  \E b \in Slot : x \in Chain(link2, heads, b)
      BY DEF OnlyMembersLinked
    <2>1. CASE x = t
      BY <1>3, <1>5, <2>1
    <2>2. CASE x # t
      <3>1. link[x] # NULL
        BY <1>4, <2>2
      <3>2. PICK b \in Slot : x \in Chain(link, heads, b)
        BY <3>1 DEF ListsApart, OnlyMembersLinked
      <3> QED
        BY <1>5, <1>6, <3>2
    <2> QED
      BY <2>1, <2>2
  <1> QED
    BY <1>1, <1>5, <1>6, <1>7, <1>8 DEF Joined, ListsApart

(* The head leaves its list, and the other lists do not change.            *)
LEMMA LeaveHead ==
    ASSUME NEW link, NEW heads, ListsApart(link, heads), NEW a \in Slot, NEW p \in Proc, heads[a] = p,
           NEW link2 \in Links, HeadTaken(link2, link, p),
           NEW heads2 \in Links, HeadSet(heads2, heads, a, link[p])
    PROVE  Left(link2, heads2, link, heads, p)
  <1>1. link \in Links /\ heads \in Links /\ p \in Slot /\ p # NULL /\ \A x \in Slot : link[x] # p
    BY SlotFacts, NullAssumption DEF ListsApart, LinkedOnce
  <1>2. p \in Chain(link, heads, a)
    BY <1>1, ReachHead DEF Chain
  <1>3. Chain(link2, heads2, a) = Chain(link, heads, a) \ {p}
    <2>1. heads2[a] = link[p] /\ \A x \in Reach(link, p) : link[x] # p
      BY <1>1, ReachInSlot DEF HeadSet
    <2> QED
      BY <1>1, <2>1, ReachTail DEF Chain
  <1>4. ASSUME NEW b \in Slot, b # a
        PROVE  Chain(link2, heads2, b) = Chain(link, heads, b) /\ p \notin Chain(link, heads, b)
    <2>1. \A x \in Chain(link, heads, b) : x \in Slot /\ x # p
      BY <1>2, <1>4, ChainsDisjoint, ReachInSlot DEF Chain
    <2>2. \A x \in Chain(link, heads, b) : link2[x] = link[x]
      BY <2>1 DEF HeadTaken
    <2>3. heads2[b] = heads[b]
      BY <1>4 DEF HeadSet
    <2> QED
      BY <1>1, <2>1, <2>2, <2>3, ReachSame DEF Chain
  <1>5. \A x \in Slot : link2[x] = IF x = p THEN NULL ELSE link[x]
    BY DEF HeadTaken
  <1>6. \A b \in Slot : heads2[b] = IF b = a THEN link[p] ELSE heads[b]
    BY DEF HeadSet
  <1>7. LinkedOnce(link2, heads2)
    BY <1>1, <1>5, <1>6 DEF ListsApart, LinkedOnce
  <1>8. OnlyMembersLinked(link2, heads2)
    <2> SUFFICES ASSUME NEW x \in Slot, link2[x] # NULL
                 PROVE  \E b \in Slot : x \in Chain(link2, heads2, b)
      BY DEF OnlyMembersLinked
    <2>1. link[x] # NULL /\ x # p
      BY <1>5
    <2>2. PICK b \in Slot : x \in Chain(link, heads, b)
      BY <2>1 DEF ListsApart, OnlyMembersLinked
    <2> QED
      BY <1>3, <1>4, <2>1, <2>2
  <1> QED
    BY <1>3, <1>4, <1>7, <1>8 DEF Left, ListsApart

(* An inner member leaves its list, and the other lists do not change.     *)
LEMMA LeaveInner ==
    ASSUME NEW link, NEW heads, ListsApart(link, heads), NEW a \in Slot,
           NEW p \in Chain(link, heads, a), heads[a] # p,
           NEW before \in Chain(link, heads, a), link[before] = p,
           NEW link2 \in Links, Unlinked(link2, link, before, p)
    PROVE  Left(link2, heads, link, heads, p)
  <1>1. link \in Links /\ heads \in Links /\ p \in Slot /\ p # NULL /\ before \in Slot
    BY ReachInSlot, NullAssumption DEF ListsApart, Chain
  <1>2. heads[a] \in Proc
    BY <1>1, ChainInProc, ReachNull DEF Chain
  <1>3. \A x \in Slot : link[x] = p => x = before
    BY <1>1 DEF ListsApart, LinkedOnce
  <1>4. before # p
    <2> SUFFICES ASSUME before = p PROVE FALSE
      OBVIOUS
    <2>1. PICK x \in Chain(link, heads, a) \ {p} : link[x] = p
      BY <1>1, <1>2, InnerIsLinked DEF Chain
    <2> QED
      BY <1>3, <2>1, ReachInSlot DEF Chain
  <1>5. Chain(link2, heads, a) = Chain(link, heads, a) \ {p}
    <2>1. link[p] # p /\ \A x \in Reach(link, heads[a]) : link[x] = p => x = before
      BY <1>1, <1>3, <1>4, ReachInSlot
    <2>2. p \in Reach(link, heads[a]) /\ before \in Reach(link, heads[a])
      BY DEF Chain
    <2> QED
      BY <1>1, <1>2, <2>1, <2>2, ReachUnlink DEF Chain
  <1>6. ASSUME NEW b \in Slot, b # a
        PROVE  Chain(link2, heads, b) = Chain(link, heads, b) /\ p \notin Chain(link, heads, b)
    <2>1. \A x \in Chain(link, heads, b) : x \in Slot /\ x # p /\ x # before
      BY <1>6, ChainsDisjoint, ReachInSlot DEF Chain
    <2>2. \A x \in Chain(link, heads, b) : link2[x] = link[x]
      BY <2>1 DEF Unlinked
    <2> QED
      BY <1>1, <2>1, <2>2, ReachSame DEF Chain
  <1>7. \A x \in Slot : link2[x] = IF x = p THEN NULL ELSE IF x = before THEN link[p] ELSE link[x]
    BY DEF Unlinked
  <1>8. LinkedOnce(link2, heads)
    BY <1>1, <1>3, <1>4, <1>7 DEF ListsApart, LinkedOnce
  <1>9. OnlyMembersLinked(link2, heads)
    <2> SUFFICES ASSUME NEW x \in Slot, link2[x] # NULL
                 PROVE  \E b \in Slot : x \in Chain(link2, heads, b)
      BY DEF OnlyMembersLinked
    <2>1. link[x] # NULL /\ x # p
      BY <1>1, <1>7
    <2>2. PICK b \in Slot : x \in Chain(link, heads, b)
      BY <2>1 DEF ListsApart, OnlyMembersLinked
    <2> QED
      BY <1>5, <1>6, <2>1, <2>2
  <1> QED
    BY <1>5, <1>6, <1>8, <1>9, <1>1 DEF Left, ListsApart
=============================================================================

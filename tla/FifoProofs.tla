----------------------------- MODULE FifoProofs -----------------------------
(***************************************************************************)
(* The ready queue implements the first-in first-out queue.  A listing     *)
(* writes the linked list as a sequence.  There is never more than one, so *)
(* QueueSeq is it; every call turns the listing into the one the abstract  *)
(* queue prescribes.                                                       *)
(***************************************************************************)
EXTENDS ReadyQueueProofs, SequenceTheorems

(* s lists, without repetition, the n members of the list from h on.       *)
Lists(link, h, s, n) ==
    /\ n \in Nat /\ s \in [1..n -> Proc]
    /\ h = IF n = 0 THEN NULL ELSE s[1]
    /\ \A i \in 1..n : link[s[i]] = IF i = n THEN NULL ELSE s[i + 1]
    /\ \A i, j \in 1..n : s[i] = s[j] => i = j

(* A listing lists exactly the members of the list.                        *)
LEMMA ListsMembers ==
    ASSUME NEW link \in Links, NEW h, NEW s, NEW n, Lists(link, h, s, n)
    PROVE  Reach(link, h) = {s[i] : i \in 1..n} /\ Cardinality(Reach(link, h)) = n
  <1> DEFINE R == Reach(link, h)
             listed == {s[i] : i \in 1..n}
  <1>1. n \in Nat /\ s \in [1..n -> Proc] /\ Proc \subseteq Slot /\ NULL \notin Proc
    BY SlotFacts DEF Lists
  <1>2. CASE n = 0
    <2>1. R = {} /\ 1..n = {}
      BY <1>2, ReachNull DEF Lists
    <2> QED
      BY <1>2, <2>1, FS_EmptySet
  <1>3. CASE n # 0
    <2>1. R \subseteq listed
      <3>1. Closed(listed, link)
        BY <1>1 DEF Closed, Lists
      <3>2. listed \in SUBSET Slot /\ h \in listed
        BY <1>1, <1>3 DEF Lists
      <3> QED
        BY <3>1, <3>2, ReachLeast
    <2>2. listed \subseteq R
      <3> DEFINE S == {i \in 1..n : s[i] \in R}
      <3>1. 1 \in S
        BY <1>1, <1>3, ReachHead DEF Lists
      <3>2. ASSUME NEW i \in 1..(n - 1), i \in S
            PROVE  i + 1 \in S
        <4>1. i \in 1..n /\ i # n /\ i + 1 \in 1..n /\ s[i] \in R /\ s[i + 1] \in Proc
          BY <1>1, <3>2
        <4>2. link[s[i]] = s[i + 1]
          BY <4>1 DEF Lists
        <4> QED
          BY <1>1, <4>1, <4>2, ReachStep
      <3>3. 1..n \subseteq S
        <4> HIDE DEF S
        <4> QED
          BY <1>1, <3>1, <3>2, UpTo
      <3> QED
        BY <3>3
    <2>3. R = listed
      BY <2>1, <2>2
    <2>4. s \in Surjection(1..n, listed) /\ s \in Injection(1..n, listed)
      BY <1>1 DEF Lists, Surjection, Injection, IsInjective
    <2>5. IsFiniteSet(1..n) /\ Cardinality(1..n) = n
      BY <1>1, FS_Interval
    <2>6. Cardinality(listed) = n
      BY <2>4, <2>5, FS_Surjection
    <2> QED
      BY <2>3, <2>6
  <1> QED
    BY <1>2, <1>3

(* QueueSeq, for any list.                                                 *)
SeqOf(link, h) ==
    LET n == Cardinality(Reach(link, h))
    IN  CHOOSE s \in [1..n -> Reach(link, h)] :
            /\ n > 0 => s[1] = h
            /\ \A i \in 1..n : link[s[i]] = IF i = n THEN NULL ELSE s[i + 1]

(* The links leave no choice in how a queue is listed.                     *)
LEMMA ListsOnce ==
    ASSUME NEW link \in Links, NEW h, NEW s, NEW n, Lists(link, h, s, n)
    PROVE  SeqOf(link, h) = s /\ s \in Seq(Proc) /\ Len(s) = n
  <1> DEFINE R == Reach(link, h)
             Good(t) == /\ n > 0 => t[1] = h
                        /\ \A i \in 1..n : link[t[i]] = IF i = n THEN NULL ELSE t[i + 1]
  <1>0. n \in Nat /\ s \in [1..n -> Proc]
    BY DEF Lists
  <1>1. R = {s[i] : i \in 1..n} /\ Cardinality(R) = n
    BY ListsMembers
  <1>2. s \in [1..n -> R] /\ Good(s)
    BY <1>0, <1>1 DEF Lists
  <1>3. ASSUME NEW t \in [1..n -> R], Good(t)
        PROVE  t = s
    <2> DEFINE S == {i \in 1..n : t[i] = s[i]}
    <2>1. n > 0 => 1 \in S
      BY <1>0, <1>2, <1>3
    <2>2. ASSUME NEW i \in 1..(n - 1), i \in S
          PROVE  i + 1 \in S
      <3>1. i \in 1..n /\ i # n /\ i + 1 \in 1..n /\ t[i] = s[i]
        BY <1>0, <2>2
      <3>2. link[t[i]] = t[i + 1] /\ link[s[i]] = s[i + 1]
        BY <1>2, <1>3, <3>1
      <3> QED
        BY <3>1, <3>2
    <2>3. 1..n \subseteq S
      <3> HIDE DEF S
      <3> QED
        BY <1>0, <2>1, <2>2, UpTo
    <2>4. \A i \in 1..n : t[i] = s[i]
      BY <2>3
    <2>5. s = [i \in 1..n |-> s[i]] /\ t = [i \in 1..n |-> t[i]]
      BY <1>0
    <2> QED
      BY <2>4, <2>5, Zenon
  <1>4. SeqOf(link, h) = CHOOSE t \in [1..n -> R] : Good(t)
    BY <1>1 DEF SeqOf
  <1>5. SeqOf(link, h) = s
    <2> HIDE DEF Good, R
    <2> QED
      BY <1>2, <1>3, <1>4
  <1> QED
    BY <1>0, <1>5

-----------------------------------------------------------------------------
(* What the calls do to the listing.                                       *)

(* The first process of an empty queue.                                    *)
LEMMA ListsFirst ==
    ASSUME NEW p \in Proc, NEW link2, link2[p] = NULL
    PROVE  Lists(link2, p, Append(<<>>, p), 1)
  BY DEF Lists

(* A process appended behind the last one.                                 *)
LEMMA ListsAppend ==
    ASSUME NEW link \in Links, NEW h, NEW s, NEW n, Lists(link, h, s, n), n > 0,
           NEW p \in Proc \ Reach(link, h), NEW link2, Appended(link2, link, s[n], p)
    PROVE  Lists(link2, h, Append(s, p), n + 1)
  <1> DEFINE s2 == [i \in 1..(n + 1) |-> IF i = n + 1 THEN p ELSE s[i]]
  <1>0. n \in Nat /\ s \in [1..n -> Proc] /\ h = s[1]
    BY DEF Lists
  <1>1. \A i \in 1..n : s[i] # p
    BY ListsMembers
  <1>2. \A i \in 1..n : link[s[i]] = IF i = n THEN NULL ELSE s[i + 1]
    BY DEF Lists
  <1>3. \A i, j \in 1..n : s[i] = s[j] => i = j
    BY DEF Lists
  <1>4. s2 \in [1..(n + 1) -> Proc] /\ s2 = Append(s, p)
    <2>1. s \in Seq(Proc) /\ Len(s) = n
      BY <1>0
    <2>2. s2 \in [1..(n + 1) -> Proc]
      BY <1>0
    <2>3. s2 \in Seq(Proc) /\ Len(s2) = n + 1
      BY <1>0, <2>2
    <2>4. /\ Append(s, p) \in Seq(Proc) /\ Len(Append(s, p)) = n + 1
          /\ \A i \in 1..(n + 1) : Append(s, p)[i] = s2[i]
      BY <1>0, <2>1, AppendProperties
    <2> HIDE DEF s2
    <2> QED
      BY <2>2, <2>3, <2>4, SeqEqual
  <1>5. n \in 1..n /\ \A i \in 1..n : s[i] \in Slot
    BY <1>0, SlotFacts
  <1>7. \A i \in 1..n : link2[s[i]] = IF i = n THEN p ELSE s[i + 1]
    BY <1>0, <1>1, <1>2, <1>3, <1>5 DEF Appended
  <1>8. link2[p] = NULL
    BY SlotFacts DEF Appended
  <1>9. \A i \in 1..(n + 1) : link2[s2[i]] = IF i = n + 1 THEN NULL ELSE s2[i + 1]
    BY <1>0, <1>7, <1>8
  <1>10. \A i, j \in 1..(n + 1) : s2[i] = s2[j] => i = j
    BY <1>0, <1>1, <1>3
  <1>11. h = s2[1]
    BY <1>0
  <1> HIDE DEF s2
  <1> QED
    BY <1>0, <1>4, <1>9, <1>10, <1>11 DEF Lists

(* The process at position i taken out of a listing.                       *)
Without(s, n, i) == [j \in 1..(n - 1) |-> s[IF j < i THEN j ELSE j + 1]]

(* Taking the first element off a sequence is taking out its first         *)
(* position.                                                               *)
LEMMA WithoutFirst ==
    ASSUME NEW n \in Nat, n > 0, NEW s \in [1..n -> Proc]
    PROVE  Without(s, n, 1) = Tail(s) /\ Head(s) = s[1] /\ s # <<>>
  <1> DEFINE s2 == Without(s, n, 1)
  <1>1. s \in Seq(Proc) /\ Len(s) = n /\ s # <<>>
    OBVIOUS
  <1>2. s2 \in [1..(n - 1) -> Proc] /\ \A i \in 1..(n - 1) : s2[i] = s[i + 1]
    BY DEF Without
  <1>3. s2 \in Seq(Proc) /\ Len(s2) = n - 1
    BY <1>2
  <1>4. /\ Tail(s) \in Seq(Proc) /\ Len(Tail(s)) = n - 1
        /\ \A i \in 1..(n - 1) : Tail(s)[i] = s[i + 1]
    BY <1>1, HeadTailProperties
  <1>5. s2 = Tail(s)
    BY <1>2, <1>3, <1>4, SeqEqual
  <1> QED
    BY <1>1, <1>5

(* The head taken off the list.                                            *)
LEMMA ListsTail ==
    ASSUME NEW link \in Links, NEW h, NEW s, NEW n, Lists(link, h, s, n), n > 0,
           NEW link2, HeadTaken(link2, link, h)
    PROVE  Lists(link2, link[h], Without(s, n, 1), n - 1)
  <1> DEFINE s2 == Without(s, n, 1)
  <1>1. n \in Nat /\ n - 1 \in Nat /\ s \in [1..n -> Proc] /\ h = s[1] /\ 1 \in 1..n
    BY DEF Lists
  <1>2. \A i \in 1..n : link[s[i]] = IF i = n THEN NULL ELSE s[i + 1]
    BY DEF Lists
  <1>3. \A i, j \in 1..n : s[i] = s[j] => i = j
    BY DEF Lists
  <1>4. s2 \in [1..(n - 1) -> Proc] /\ \A i \in 1..(n - 1) : s2[i] = s[i + 1] /\ i + 1 \in 1..n
    BY <1>1 DEF Without
  <1>5. \A i \in 1..(n - 1) : s[i + 1] \in Slot /\ s[i + 1] # h
    BY <1>1, <1>3, <1>4, SlotFacts
  <1>6. \A i \in 1..(n - 1) : link2[s2[i]] = link[s[i + 1]]
    BY <1>4, <1>5 DEF HeadTaken
  <1>7. \A i \in 1..(n - 1) : link2[s2[i]] = IF i = n - 1 THEN NULL ELSE s2[i + 1]
    BY <1>1, <1>2, <1>4, <1>6
  <1>8. \A i, j \in 1..(n - 1) : s2[i] = s2[j] => i = j
    BY <1>1, <1>3, <1>4
  <1>9. link[h] = IF n - 1 = 0 THEN NULL ELSE s2[1]
    BY <1>1, <1>2, <1>4
  <1> QED
    BY <1>1, <1>4, <1>7, <1>8, <1>9 DEF Lists

(* An inner process unlinked from the list.                                *)
LEMMA ListsUnlink ==
    ASSUME NEW link \in Links, NEW h, NEW s, NEW n, Lists(link, h, s, n),
           NEW k \in 2..n,
           NEW link2, Unlinked(link2, link, s[k - 1], s[k])
    PROVE  Lists(link2, h, Without(s, n, k), n - 1)
  <1> DEFINE s2 == Without(s, n, k)
  <1>1. /\ n \in Nat /\ n - 1 \in Nat /\ s \in [1..n -> Proc] /\ h = s[1]
        /\ k \in 1..n /\ k - 1 \in 1..n /\ n > 1
    BY DEF Lists
  <1>2. \A i \in 1..n : link[s[i]] = IF i = n THEN NULL ELSE s[i + 1]
    BY DEF Lists
  <1>3. \A i, j \in 1..n : s[i] = s[j] => i = j
    BY DEF Lists
  <1>4. /\ s2 \in [1..(n - 1) -> Proc]
        /\ \A i \in 1..(n - 1) : s2[i] = s[IF i < k THEN i ELSE i + 1]
    BY <1>1 DEF Without
  <1>5. \A i \in 1..n : s[i] \in Slot
    BY <1>1, SlotFacts
  <1>6. \A i \in 1..n : i # k => link2[s[i]] = IF i = k - 1 THEN link[s[k]] ELSE link[s[i]]
    BY <1>1, <1>3, <1>5 DEF Unlinked
  <1>7. ASSUME NEW i \in 1..(n - 1)
        PROVE  link2[s2[i]] = IF i = n - 1 THEN NULL ELSE s2[i + 1]
    <2>1. CASE i < k - 1
      BY <1>1, <1>2, <1>4, <1>6, <2>1
    <2>2. CASE i = k - 1
      BY <1>1, <1>2, <1>4, <1>6, <2>2
    <2>3. CASE i >= k
      <3>1. i + 1 \in 1..n /\ i + 1 # k /\ i + 1 # k - 1 /\ s2[i] = s[i + 1]
        BY <1>1, <1>4, <2>3
      <3>2. link2[s2[i]] = IF i + 1 = n THEN NULL ELSE s[(i + 1) + 1]
        BY <1>2, <1>6, <3>1
      <3>3. i # n - 1 => s2[i + 1] = s[(i + 1) + 1]
        BY <1>1, <1>4, <2>3
      <3> QED
        BY <1>1, <3>2, <3>3
    <2> QED
      BY <1>1, <2>1, <2>2, <2>3
  <1>8. \A i, j \in 1..(n - 1) : s2[i] = s2[j] => i = j
    BY <1>1, <1>3, <1>4
  <1>9. h = IF n - 1 = 0 THEN NULL ELSE s2[1]
    BY <1>1, <1>4
  <1> QED
    BY <1>1, <1>4, <1>7, <1>8, <1>9 DEF Lists

-----------------------------------------------------------------------------
(* The queue can be written as a sequence: part of the invariant.          *)
Listed == \E n \in Nat : \E s \in [1..n -> Proc] : Lists(next, readyQueue, s, n)

(* The abstract queue is the listing, before a step and after it.          *)
LEMMA QueueListed ==
    ASSUME IInv, NEW s, NEW n, Lists(next, readyQueue, s, n)
    PROVE  /\ QueueSeq = s /\ n \in Nat /\ s \in [1..n -> Proc] /\ Len(s) = n
           /\ Queued = {s[i] : i \in 1..n}
  <1>1. next \in Links
    BY LinkFacts
  <1>2. SeqOf(next, readyQueue) = s /\ Len(s) = n
    BY <1>1, ListsOnce
  <1>3. QueueSeq = SeqOf(next, readyQueue)
    BY DEF QueueSeq, SeqOf, Queued
  <1>4. Queued = {s[i] : i \in 1..n}
    BY <1>1, ListsMembers DEF Queued
  <1> QED
    BY <1>2, <1>3, <1>4 DEF Lists

(* The refinement mapping in the next state, by the listing there.         *)
LEMMA QueueListedNext ==
    ASSUME IInv', NEW s, NEW n, Lists(next', readyQueue', s, n)
    PROVE  Listed' /\ QueueSeq' = s
  <1>1. next' \in Links
    BY DEF IInv, TypeOK, Links
  <1>2. SeqOf(next', readyQueue') = s
    BY <1>1, ListsOnce
  <1>3. QueueSeq' = SeqOf(next', readyQueue')
    BY DEF QueueSeq, SeqOf, Queued
  <1>4. Listed'
    BY DEF Listed, Lists
  <1> QED
    BY <1>2, <1>3, <1>4

(* ready(p) adds p to the abstract queue, unless p is the idle process.    *)
LEMMA ReadyImplements ==
    ASSUME IInv, IInv', Listed, NEW p \in Slot, ReadyCall(p)
    PROVE  Listed' /\ [Abstract!Next]_(Abstract!vars)
  <1>1. PICK n \in Nat : \E s \in [1..n -> Proc] : Lists(next, readyQueue, s, n)
    BY DEF Listed
  <1>2. PICK s \in [1..n -> Proc] : Lists(next, readyQueue, s, n)
    BY <1>1
  <1>3. QueueSeq = s /\ Len(s) = n /\ Queued = {s[i] : i \in 1..n}
    BY <1>2, QueueListed
  <1>4. CASE p = Idle
    <2>1. readyQueue' = readyQueue /\ process' = process /\ next' = next
      BY <1>4 DEF ReadyCall, Become, Ready, Kernel
    <2>2. Listed' /\ QueueSeq' = s
      BY <1>2, <2>1, QueueListedNext
    <2> QED
      BY <1>3, <2>1, <2>2 DEF Abstract!vars
  <1>5. CASE p # Idle
    <2>1. p \in Proc /\ p \notin Queued
      BY <1>5, SlotFacts DEF ReadyCall
    <2>2. /\ process' = process
          /\ Lists(next', readyQueue', Append(s, p), n + 1)
      <3>1. CASE readyQueue = NULL
        <4>1. readyQueue' = p /\ process' = process /\ next' = [next EXCEPT ![p] = NULL]
          BY <1>5, <3>1, SlotFacts DEF ReadyCall, Become, Ready, Kernel
        <4>2. next'[p] = NULL
          BY <4>1, LinkFacts DEF Links
        <4>3. n = 0 /\ s = <<>>
          BY <1>2, <3>1, SlotFacts DEF Lists
        <4>4. Lists(next', p, Append(<<>>, p), 1)
          BY <2>1, <4>2, ListsFirst
        <4>5. n + 1 = 1 /\ Append(s, p) = Append(<<>>, p)
          BY <4>3
        <4> QED
          BY <4>1, <4>4, <4>5, Zenon
      <3>2. CASE readyQueue # NULL
        <4> DEFINE t == TailOf(next, readyQueue)
        <4>1. t \in Queued /\ next[t] = NULL
          BY <3>2 DEF IInv, Linked, WalkEnds, Ends, TailOf, Queued
        <4>2. /\ readyQueue' = readyQueue /\ process' = process
              /\ next' = [[next EXCEPT ![t] = p] EXCEPT ![p] = NULL]
          BY <1>5, <3>2, SlotFacts DEF ReadyCall, Become, Ready, Kernel
        <4> HIDE DEF t
        <4>3. n > 0 /\ t = s[n]
          <5>1. PICK i \in 1..n : t = s[i]
            BY <1>3, <4>1
          <5>2. i = n
            BY <1>2, <4>1, <5>1, SlotFacts DEF Lists
          <5> QED
            BY <5>1, <5>2
        <4>4. Appended(next', next, s[n], p)
          BY <2>1, <4>1, <4>2, <4>3, LinkFacts, SlotFacts DEF Appended, Links
        <4>5. Lists(next', readyQueue, Append(s, p), n + 1)
          BY <1>2, <2>1, <4>3, <4>4, LinkFacts, ListsAppend DEF Queued
        <4> QED
          BY <4>2, <4>5
      <3> QED
        BY <3>1, <3>2
    <2>3. Listed' /\ QueueSeq' = Append(s, p)
      BY <2>2, QueueListedNext
    <2>4. Abstract!Add(p)
      BY <1>3, <2>1, <2>2, <2>3 DEF Abstract!Add, Abstract!Queued
    <2> QED
      BY <2>1, <2>3, <2>4 DEF Abstract!Next
  <1> QED
    BY <1>4, <1>5

(* next() takes the first of the abstract queue, or lets nobody run.       *)
LEMMA NextImplements ==
    ASSUME IInv, IInv', Listed, NextCall
    PROVE  Listed' /\ Abstract!Take
  <1>1. PICK n \in Nat : \E s \in [1..n -> Proc] : Lists(next, readyQueue, s, n)
    BY DEF Listed
  <1>2. PICK s \in [1..n -> Proc] : Lists(next, readyQueue, s, n)
    BY <1>1
  <1>3. QueueSeq = s /\ Len(s) = n /\ Queued = {s[i] : i \in 1..n}
    BY <1>2, QueueListed
  <1>4. CASE readyQueue = NULL
    <2>1. readyQueue' = readyQueue /\ process' = Idle /\ next' = next
      BY <1>4 DEF NextCall, Become, NextProcess, Kernel
    <2>2. s = <<>>
      BY <1>2, <1>4, SlotFacts DEF Lists
    <2>3. Listed' /\ QueueSeq' = s
      BY <1>2, <2>1, QueueListedNext
    <2> QED
      BY <1>3, <2>1, <2>2, <2>3 DEF Abstract!Take
  <1>5. CASE readyQueue # NULL
    <2>1. /\ readyQueue' = next[readyQueue] /\ process' = readyQueue
          /\ next' = [next EXCEPT ![readyQueue] = NULL]
      BY <1>5 DEF NextCall, Become, NextProcess, Kernel
    <2>2. n > 0 /\ readyQueue = s[1]
      BY <1>2, <1>5 DEF Lists
    <2>3. HeadTaken(next', next, readyQueue)
      BY <2>1, LinkFacts DEF HeadTaken, Links
    <2>4. Lists(next', readyQueue', Without(s, n, 1), n - 1)
      BY <1>2, <2>1, <2>2, <2>3, LinkFacts, ListsTail
    <2>5. Without(s, n, 1) = Tail(s) /\ Head(s) = s[1] /\ s # <<>>
      BY <2>2, WithoutFirst
    <2>6. Listed' /\ QueueSeq' = Tail(s)
      BY <2>4, <2>5, QueueListedNext
    <2> QED
      BY <1>3, <2>1, <2>2, <2>5, <2>6 DEF Abstract!Take
  <1> QED
    BY <1>4, <1>5

(* readyRemoval(p) takes p out of the abstract queue, wherever it is.      *)
LEMMA ReadyRemovalImplements ==
    ASSUME IInv, IInv', Listed, NEW p \in Slot, ReadyRemovalCall(p)
    PROVE  Listed' /\ [Abstract!Next]_(Abstract!vars)
  <1>1. PICK n \in Nat : \E s \in [1..n -> Proc] : Lists(next, readyQueue, s, n)
    BY DEF Listed
  <1>2. PICK s \in [1..n -> Proc] : Lists(next, readyQueue, s, n)
    BY <1>1
  <1>3. QueueSeq = s /\ Len(s) = n /\ Queued = {s[i] : i \in 1..n}
    BY <1>2, QueueListed
  <1>4. CASE state[p] # "READY"
    <2>1. readyQueue' = readyQueue /\ process' = process /\ next' = next
      BY <1>4 DEF ReadyRemovalCall, Become, ReadyRemoval, Kernel
    <2>2. Listed' /\ QueueSeq' = s
      BY <1>2, <2>1, QueueListedNext
    <2> QED
      BY <1>3, <2>1, <2>2 DEF Abstract!vars
  <1>5. CASE p \in Queued
    <2>0. PICK k \in 1..n : p = s[k]
      BY <1>3, <1>5
    <2>1. p \in Proc /\ NULL \notin Slot /\ next \in Links /\ state[p] = "READY"
      BY <1>5, LinkFacts, NullAssumption DEF IInv, QueuedAreReady
    <2>2. /\ process' = process
          /\ Lists(next', readyQueue', Without(s, n, k), n - 1)
      <3>1. CASE k = 1
        <4>1. n > 0 /\ p = readyQueue /\ prev[p] = NULL
          BY <1>2, <2>0, <2>1, <3>1, LinkFacts, SlotFacts DEF Lists
        <4>2. /\ readyQueue' = next[p] /\ process' = process
              /\ next' = [x \in Slot |-> IF x = p THEN NULL
                                         ELSE IF x = prev[p] THEN next[p] ELSE next[x]]
          BY <2>1, <4>1 DEF ReadyRemovalCall, Become, ReadyRemoval, Kernel
        <4>3. HeadTaken(next', next, readyQueue)
          BY <2>1, <4>1, <4>2 DEF HeadTaken
        <4> QED
          BY <1>2, <2>1, <3>1, <4>1, <4>2, <4>3, ListsTail
      <3>2. CASE k # 1
        <4>1. k \in 2..n /\ k - 1 \in 1..n /\ k - 1 # n /\ s[k - 1] \in Queued
          BY <1>3, <2>0, <3>2
        <4>2. next[s[k - 1]] = p
          BY <1>2, <2>0, <4>1 DEF Lists
        <4>3. prev[p] = s[k - 1] /\ prev[p] # NULL
          BY <2>1, <4>1, <4>2, LinkFacts, SlotFacts DEF BackInverts, Queued
        <4>4. /\ readyQueue' = readyQueue /\ process' = process
              /\ next' = [x \in Slot |-> IF x = p THEN NULL
                                         ELSE IF x = prev[p] THEN next[p] ELSE next[x]]
          BY <2>1, <4>3 DEF ReadyRemovalCall, Become, ReadyRemoval, Kernel
        <4>5. Unlinked(next', next, s[k - 1], s[k])
          BY <2>0, <4>3, <4>4 DEF Unlinked
        <4> QED
          BY <1>2, <2>1, <4>1, <4>4, <4>5, ListsUnlink
      <3> QED
        BY <3>1, <3>2
    <2>3. Listed' /\ QueueSeq' = Without(s, n, k)
      BY <2>2, QueueListedNext
    <2>4. Abstract!Remove(p)
      BY <1>3, <2>0, <2>2, <2>3 DEF Abstract!Remove, Without
    <2> QED
      BY <2>1, <2>3, <2>4 DEF Abstract!Next
  <1> QED
    BY <1>4, <1>5 DEF ReadyRemovalCall

-----------------------------------------------------------------------------
(* The empty queue is listed, and is the empty sequence.                   *)
LEMMA InitListed == Init => Listed /\ Abstract!Init
  <1> SUFFICES ASSUME Init PROVE Listed /\ Abstract!Init
    OBVIOUS
  <1>1. IInv
    BY InitEstablishes
  <1>2. Lists(next, readyQueue, <<>>, 0)
    BY DEF Lists, Init
  <1>3. Listed
    BY <1>2 DEF Listed, Lists
  <1>4. QueueSeq = <<>>
    BY <1>1, <1>2, QueueListed
  <1> QED
    BY <1>3, <1>4 DEF Abstract!Init, Init

(* Every call keeps the listing and is a step of the sequence, or none.    *)
LEMMA StepImplements ==
    IInv /\ Listed /\ [Next]_vars => Listed' /\ [Abstract!Next]_(Abstract!vars)
  <1> SUFFICES ASSUME IInv, Listed, [Next]_vars
               PROVE  Listed' /\ [Abstract!Next]_(Abstract!vars)
    OBVIOUS
  <1>0. IInv'
    BY StepKeeps
  <1>1. CASE NextCall
    BY <1>0, <1>1, NextImplements DEF Abstract!Next
  <1>2. ASSUME NEW p \in Slot, ReadyCall(p)
        PROVE  Listed' /\ [Abstract!Next]_(Abstract!vars)
    BY <1>0, <1>2, ReadyImplements
  <1>3. ASSUME NEW p \in Slot, ReadyRemovalCall(p)
        PROVE  Listed' /\ [Abstract!Next]_(Abstract!vars)
    BY <1>0, <1>3, ReadyRemovalImplements
  <1>4. CASE UNCHANGED <<readyQueue, process, next>>
    BY <1>4 DEF Listed, Lists, QueueSeq, Queued, Abstract!vars
  <1>5. ASSUME NEW p \in Proc, NEW q \in {"BLOCKED", "SLEEPING", "WAITING"}, SuspendCall(p, q)
        PROVE  UNCHANGED <<readyQueue, process, next>>
    BY <1>5 DEF SuspendCall
  <1>6. CASE UNCHANGED vars
    BY <1>4, <1>6 DEF vars
  <1> QED
    BY <1>1, <1>2, <1>3, <1>4, <1>5, <1>6 DEF Next

(* For any number of processes, ready(), next() and readyRemoval() of      *)
(* c/disp.c together are a first-in first-out queue: no process overtakes  *)
(* another one, none is handed the processor twice for one ready() and     *)
(* none is taken out but the one cleanup() names.                          *)
THEOREM QueueIsFifo == Spec => ImplementsFifo
  <1>1. Init /\ [][Next]_vars => [](IInv /\ Listed)
    BY InitEstablishes, InitListed, StepKeeps, StepImplements, PTL
  <1> QED
    BY <1>1, InitListed, StepImplements, PTL DEF Spec, ImplementsFifo, Abstract!Spec
=============================================================================

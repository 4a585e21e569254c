-------------------------- MODULE ReadyQueueProofs --------------------------
(***************************************************************************)
(* The ready queue is a proper doubly linked list in every reachable state *)
(* and for every number of processes.  The argument is about sets of slots *)
(* only: Reach is the least closed set that holds the head, so what a call *)
(* does to the list is found by exhibiting closed sets.                    *)
(***************************************************************************)
EXTENDS ReadyQueue, ListLemmas

-----------------------------------------------------------------------------
(* The inductive invariant.  TypeOK gives the links their domains, Linked  *)
(* locates the ends of the list, and QueuedAreReady is what makes          *)
(* readyRemoval do its work on every queued process.                       *)
IInv == TypeOK /\ Linked /\ QueuedAreReady

(* What the invariant says about the links, in the form the lemmas use.    *)
LEMMA LinkFacts ==
    ASSUME IInv
    PROVE  /\ next \in Links /\ prev \in Links
           /\ readyQueue \in Proc \cup {NULL}
           /\ Queued \subseteq Proc
           /\ BackInverts(next, prev, readyQueue)
           /\ readyQueue # NULL => readyQueue \in Queued /\ prev[readyQueue] = NULL
           /\ readyQueue = NULL => Queued = {}
  <1>1. next \in Links /\ prev \in Links /\ readyQueue \in Proc \cup {NULL}
    BY DEF IInv, TypeOK, Links
  <1>2. Queued \subseteq Proc
    BY <1>1, ReachInProc DEF Queued
  <1>3. BackInverts(next, prev, readyQueue)
    BY DEF IInv, Linked, LinksInverse, BackInverts, Queued
  <1>4. readyQueue # NULL => readyQueue \in Queued /\ prev[readyQueue] = NULL
    BY <1>1, SlotFacts, ReachHead DEF IInv, Linked, LinksInverse, Queued
  <1>5. readyQueue = NULL => Queued = {}
    BY ReachNull DEF Queued
  <1> QED
    BY <1>1, <1>2, <1>3, <1>4, <1>5

(* ready(p) on an empty queue makes p the whole of it.                     *)
LEMMA ReadyFirstKeeps ==
    ASSUME IInv, NEW p \in Proc, readyQueue = NULL, Become(Ready(Kernel, p))
    PROVE  IInv'
  <1>1. /\ readyQueue' = p
        /\ process' = process
        /\ next' = [next EXCEPT ![p] = NULL]
        /\ prev' = [prev EXCEPT ![p] = NULL]
        /\ state' = [state EXCEPT ![p] = "READY"]
    BY SlotFacts DEF Become, Ready, Kernel
  <1>2. TypeOK'
    BY <1>1, SlotFacts DEF IInv, TypeOK, ProcState
  <1>3. p \in Slot /\ next'[p] = NULL /\ prev'[p] = NULL /\ state'[p] = "READY"
    BY <1>1, SlotFacts DEF IInv, TypeOK
  <1>4. Queued' = {p}
    <2>1. Closed({p}, next')
      BY <1>3 DEF Closed
    <2>2. Reach(next', p) \subseteq {p}
      BY <1>3, <2>1, ReachLeast
    <2>3. p \in Reach(next', p)
      BY <1>3, ReachHead
    <2> QED
      BY <1>1, <2>2, <2>3 DEF Queued
  <1>5. Linked'
    BY <1>1, <1>3, <1>4 DEF Linked, WalkEnds, LinksInverse, Ends, Queued
  <1>6. QueuedAreReady'
    BY <1>3, <1>4 DEF QueuedAreReady
  <1> QED
    BY <1>2, <1>5, <1>6 DEF IInv

(* ready(p) on a queue appends p behind its last process.                  *)
LEMMA ReadyBehindKeeps ==
    ASSUME IInv, NEW p \in Proc \ Queued, readyQueue # NULL, Become(Ready(Kernel, p))
    PROVE  IInv'
  <1> DEFINE t == TailOf(next, readyQueue)
  <1>0. /\ next \in Links /\ prev \in Links /\ readyQueue \in Proc
        /\ Queued \subseteq Proc /\ Proc \subseteq Slot
        /\ BackInverts(next, prev, readyQueue)
        /\ readyQueue \in Queued /\ prev[readyQueue] = NULL
    BY LinkFacts, SlotFacts
  <1>1. t \in Queued /\ next[t] = NULL
    BY DEF IInv, Linked, WalkEnds, Ends, TailOf, Queued
  <1>2. /\ readyQueue' = readyQueue
        /\ process' = process
        /\ next' = [[next EXCEPT ![t] = p] EXCEPT ![p] = NULL]
        /\ prev' = [prev EXCEPT ![p] = t]
        /\ state' = [state EXCEPT ![p] = "READY"]
    BY SlotFacts DEF Become, Ready, Kernel
  <1> HIDE DEF t
  <1>3. t \in Proc /\ t # p
    BY <1>0, <1>1
  <1>4. TypeOK'
    BY <1>2, <1>3, SlotFacts DEF IInv, TypeOK, ProcState
  <1>5. next' \in Links
    BY <1>4 DEF TypeOK, Links
  <1>6. /\ \A x \in Slot : next'[x] = IF x = p THEN NULL ELSE IF x = t THEN p ELSE next[x]
        /\ \A x \in Slot : prev'[x] = IF x = p THEN t ELSE prev[x]
        /\ \A x \in Slot : state'[x] = IF x = p THEN "READY" ELSE state[x]
    BY <1>0, <1>2, <1>3 DEF Links, IInv, TypeOK
  <1>7. Queued' = Queued \cup {p}
    <2>1. t \in Reach(next, readyQueue) /\ p \notin Reach(next, readyQueue)
      BY <1>1 DEF Queued
    <2>2. Appended(next', next, t, p)
      BY <1>6 DEF Appended
    <2>3. Reach(next', readyQueue) = Reach(next, readyQueue) \cup {p}
      BY <1>0, <1>1, <1>5, <2>1, <2>2, ReachAppend
    <2> QED
      BY <1>2, <2>3 DEF Queued
  <1>8. WalkEnds'
    BY <1>0, <1>6, <1>7 DEF WalkEnds, Ends, Queued
  <1>9. LinksInverse'
    <2>1. prev'[readyQueue'] = NULL
      BY <1>0, <1>2, <1>6
    <2>2. ASSUME NEW x \in Queued'
          PROVE  /\ next'[x] # NULL => prev'[next'[x]] = x
                 /\ prev'[x] # NULL => prev'[x] \in Queued' /\ next'[prev'[x]] = x
      <3>1. CASE x = p
        BY <1>0, <1>1, <1>3, <1>6, <1>7, <3>1
      <3>2. CASE x # p
        <4>1. x \in Queued /\ x \in Slot /\ prev'[x] = prev[x]
          BY <1>0, <1>6, <1>7, <2>2, <3>2
        <4>2. next[x] # NULL => next[x] \in Queued
          BY <1>0, <4>1, ReachStep DEF Queued
        <4>3. next'[x] # NULL => prev'[next'[x]] = x
          BY <1>0, <1>3, <1>6, <3>2, <4>1, <4>2 DEF BackInverts, Queued
        <4>4. prev[x] # NULL => prev[x] \in Queued /\ next[prev[x]] = x
          BY <1>0, <4>1 DEF BackInverts, Queued
        <4>5. prev[x] # t
          BY <1>0, <1>1, <4>1, <4>4, NullAssumption
        <4>6. prev'[x] # NULL => prev'[x] \in Queued' /\ next'[prev'[x]] = x
          BY <1>0, <1>6, <1>7, <4>1, <4>4, <4>5
        <4> QED
          BY <4>3, <4>6
      <3> QED
        BY <3>1, <3>2
    <2> QED
      BY <2>1, <2>2 DEF LinksInverse
  <1>10. QueuedAreReady'
    BY <1>0, <1>6, <1>7 DEF IInv, QueuedAreReady
  <1> QED
    BY <1>4, <1>8, <1>9, <1>10 DEF IInv, Linked

(* ready() for a process that is not queued keeps the list in order.       *)
LEMMA ReadyCallKeeps ==
    ASSUME IInv, NEW p \in Slot, ReadyCall(p)
    PROVE  IInv'
  <1>1. CASE p = Idle
    <2>1. /\ readyQueue' = readyQueue /\ process' = process
          /\ next' = next /\ prev' = prev /\ state' = state
      BY <1>1 DEF ReadyCall, Become, Ready, Kernel
    <2> QED
      BY <2>1 DEF IInv, TypeOK, Linked, WalkEnds, LinksInverse, QueuedAreReady, Queued
  <1>2. CASE p # Idle /\ readyQueue = NULL
    BY <1>2, SlotFacts, ReadyFirstKeeps DEF ReadyCall
  <1>3. CASE p # Idle /\ readyQueue # NULL
    BY <1>3, SlotFacts, ReadyBehindKeeps DEF ReadyCall
  <1> QED
    BY <1>1, <1>2, <1>3

(* next() takes the head off the list.                                     *)
LEMMA NextCallKeeps ==
    ASSUME IInv, NextCall
    PROVE  IInv'
  <1>1. CASE readyQueue = NULL
    <2>1. /\ readyQueue' = readyQueue /\ process' = Idle
          /\ next' = next /\ prev' = prev /\ state' = state
      BY <1>1 DEF NextCall, Become, NextProcess, Kernel
    <2> QED
      BY <2>1, SlotFacts DEF IInv, TypeOK, Linked, WalkEnds, LinksInverse, QueuedAreReady, Queued
  <1>2. CASE readyQueue # NULL
    <2> DEFINE p == readyQueue
               h == next[readyQueue]
    <2>0. /\ next \in Links /\ prev \in Links /\ p \in Proc
          /\ Queued \subseteq Proc /\ Proc \subseteq Slot
          /\ BackInverts(next, prev, readyQueue)
          /\ p \in Queued /\ prev[p] = NULL
          /\ h \in Proc \cup {NULL}
      BY <1>2, LinkFacts, SlotFacts DEF Links
    <2>1. /\ readyQueue' = h
          /\ process' = p
          /\ next' = [next EXCEPT ![p] = NULL]
          /\ prev' = [x \in Slot |-> IF x \in {p, h} THEN NULL ELSE prev[x]]
          /\ state' = [state EXCEPT ![p] = "RUNNING"]
      BY <1>2 DEF NextCall, Become, NextProcess, Kernel
    <2>2. TypeOK'
      <3>1. next' \in [Slot -> Proc \cup {NULL}] /\ prev' \in [Slot -> Proc \cup {NULL}]
        BY <2>0, <2>1 DEF Links
      <3>2. state' \in [Slot -> ProcState]
        BY <2>0, <2>1 DEF IInv, TypeOK, ProcState
      <3> QED
        BY <2>0, <2>1, <3>1, <3>2 DEF TypeOK
    <2>3. /\ \A x \in Slot : next'[x] = IF x = p THEN NULL ELSE next[x]
          /\ \A x \in Slot : prev'[x] = IF x \in {p, h} THEN NULL ELSE prev[x]
          /\ \A x \in Slot : state'[x] = IF x = p THEN "RUNNING" ELSE state[x]
      BY <2>0, <2>1 DEF Links, IInv, TypeOK
    <2>4. Queued' = Queued \ {p}
      <3>1. \A x \in Reach(next, readyQueue) : next[x] # readyQueue
        BY <2>0, NullAssumption DEF BackInverts, Queued
      <3>2. HeadTaken(next', next, readyQueue)
        BY <2>3 DEF HeadTaken
      <3>3. next' \in Links
        BY <2>2 DEF TypeOK, Links
      <3>4. Reach(next', next[readyQueue]) = Reach(next, readyQueue) \ {readyQueue}
        BY <2>0, <3>1, <3>2, <3>3, ReachTail
      <3> QED
        BY <2>1, <3>4 DEF Queued
    <2>5. WalkEnds'
      <3>1. PICK t \in Queued : next[t] = NULL
        BY <1>2 DEF IInv, Linked, WalkEnds, Ends, Queued
      <3>2. CASE t = p
        BY <2>1, <3>1, <3>2 DEF WalkEnds
      <3>3. CASE t # p
        <4>1. t \in Queued' /\ next'[t] = NULL
          BY <2>0, <2>3, <2>4, <3>1, <3>3
        <4> QED
          BY <4>1 DEF WalkEnds, Ends, Queued
      <3> QED
        BY <3>2, <3>3
    <2>6. LinksInverse'
      <3>1. readyQueue' # NULL => prev'[readyQueue'] = NULL
        BY <2>0, <2>1, <2>3
      <3>2. ASSUME NEW x \in Queued'
            PROVE  /\ next'[x] # NULL => prev'[next'[x]] = x
                   /\ prev'[x] # NULL => prev'[x] \in Queued' /\ next'[prev'[x]] = x
        <4>1. x \in Queued /\ x # p /\ x \in Slot /\ next'[x] = next[x]
          BY <2>0, <2>3, <2>4
        <4>2. /\ next[x] # NULL => prev[next[x]] = x
              /\ prev[x] # NULL => prev[x] \in Queued /\ next[prev[x]] = x
          BY <2>0, <4>1 DEF BackInverts, Queued
        <4>3. next[x] # NULL => next[x] \in Queued /\ next[x] # p /\ next[x] # h
          <5>1. next[x] # NULL => next[x] \in Queued
            BY <2>0, <4>1, ReachStep DEF Queued
          <5>2. h # NULL => prev[h] = p
            BY <2>0 DEF BackInverts, Queued
          <5> QED
            BY <2>0, <4>1, <4>2, <5>1, <5>2, NullAssumption
        <4>4. next'[x] # NULL => prev'[next'[x]] = x
          BY <2>0, <2>3, <4>1, <4>2, <4>3
        <4>5. prev'[x] # NULL => prev'[x] \in Queued' /\ next'[prev'[x]] = x
          BY <2>0, <2>3, <2>4, <4>1, <4>2
        <4> QED
          BY <4>4, <4>5
      <3> QED
        BY <3>1, <3>2 DEF LinksInverse
    <2>7. QueuedAreReady'
      BY <2>0, <2>3, <2>4 DEF IInv, QueuedAreReady
    <2> QED
      BY <2>2, <2>5, <2>6, <2>7 DEF IInv, Linked
  <1> QED
    BY <1>1, <1>2

(* readyRemoval() of the head, which has no process before it.             *)
LEMMA RemoveHeadKeeps ==
    ASSUME IInv, readyQueue # NULL, Become(ReadyRemoval(Kernel, readyQueue))
    PROVE  IInv'
  <1> DEFINE p == readyQueue
             h == next[readyQueue]
  <1>0. /\ next \in Links /\ prev \in Links /\ p \in Proc
        /\ Queued \subseteq Proc /\ Proc \subseteq Slot
        /\ BackInverts(next, prev, readyQueue)
        /\ p \in Queued /\ prev[p] = NULL
        /\ h \in Proc \cup {NULL} /\ NULL \notin Slot
    BY LinkFacts, SlotFacts, NullAssumption DEF Links
  <1>1. /\ readyQueue' = h /\ process' = process /\ state' = state
        /\ next' = [x \in Slot |-> IF x = p THEN NULL ELSE IF x = prev[p] THEN h ELSE next[x]]
        /\ prev' = [x \in Slot |-> IF x = p THEN NULL ELSE IF x = h THEN prev[p] ELSE prev[x]]
    BY <1>0 DEF Become, ReadyRemoval, Kernel, IInv, QueuedAreReady
  <1>2. /\ \A x \in Slot : next'[x] = IF x = p THEN NULL ELSE next[x]
        /\ \A x \in Slot : prev'[x] = IF x = p \/ x = h THEN NULL ELSE prev[x]
    BY <1>0, <1>1
  <1>3. TypeOK'
    <2>1. next' \in [Slot -> Proc \cup {NULL}] /\ prev' \in [Slot -> Proc \cup {NULL}]
      BY <1>0, <1>1 DEF Links
    <2> QED
      BY <1>0, <1>1, <2>1 DEF IInv, TypeOK
  <1>4. Queued' = Queued \ {p}
    <2>1. \A x \in Reach(next, readyQueue) : next[x] # readyQueue
      BY <1>0 DEF BackInverts, Queued
    <2>2. HeadTaken(next', next, readyQueue)
      BY <1>2 DEF HeadTaken
    <2>3. next' \in Links
      BY <1>3 DEF TypeOK, Links
    <2>4. Reach(next', next[readyQueue]) = Reach(next, readyQueue) \ {readyQueue}
      BY <1>0, <2>1, <2>2, <2>3, ReachTail
    <2> QED
      BY <1>1, <2>4 DEF Queued
  <1>5. WalkEnds'
    <2>1. PICK t \in Queued : next[t] = NULL
      BY DEF IInv, Linked, WalkEnds, Ends, Queued
    <2>2. CASE t = p
      BY <1>1, <2>1, <2>2 DEF WalkEnds
    <2>3. CASE t # p
      <3>1. t \in Queued' /\ next'[t] = NULL
        BY <1>0, <1>2, <1>4, <2>1, <2>3
      <3> QED
        BY <3>1 DEF WalkEnds, Ends, Queued
    <2> QED
      BY <2>2, <2>3
  <1>6. LinksInverse'
    <2>1. readyQueue' # NULL => prev'[readyQueue'] = NULL
      BY <1>0, <1>1, <1>2
    <2>2. ASSUME NEW x \in Queued'
          PROVE  /\ next'[x] # NULL => prev'[next'[x]] = x
                 /\ prev'[x] # NULL => prev'[x] \in Queued' /\ next'[prev'[x]] = x
      <3>1. x \in Queued /\ x # p /\ x \in Slot /\ next'[x] = next[x]
        BY <1>0, <1>2, <1>4
      <3>2. /\ next[x] # NULL => prev[next[x]] = x
            /\ prev[x] # NULL => prev[x] \in Queued /\ next[prev[x]] = x
        BY <1>0, <3>1 DEF BackInverts, Queued
      <3>3. next[x] # NULL => next[x] \in Queued /\ next[x] # p /\ next[x] # h
        <4>1. next[x] # NULL => next[x] \in Queued
          BY <1>0, <3>1, ReachStep DEF Queued
        <4>2. h # NULL => prev[h] = p
          BY <1>0 DEF BackInverts, Queued
        <4> QED
          BY <1>0, <3>1, <3>2, <4>1, <4>2
      <3>4. next'[x] # NULL => prev'[next'[x]] = x
        BY <1>0, <1>2, <3>1, <3>2, <3>3
      <3>5. prev'[x] # NULL => prev'[x] \in Queued' /\ next'[prev'[x]] = x
        BY <1>0, <1>2, <1>4, <3>1, <3>2
      <3> QED
        BY <3>4, <3>5
    <2> QED
      BY <2>1, <2>2 DEF LinksInverse
  <1>7. QueuedAreReady'
    BY <1>1, <1>4 DEF IInv, QueuedAreReady
  <1> QED
    BY <1>3, <1>5, <1>6, <1>7 DEF IInv, Linked

(* readyRemoval() of a process with another one before it.                 *)
LEMMA RemoveInnerKeeps ==
    ASSUME IInv, NEW p \in Queued, p # readyQueue, Become(ReadyRemoval(Kernel, p))
    PROVE  IInv'
  <1> DEFINE a == prev[p]
             b == next[p]
  <1>0. /\ next \in Links /\ prev \in Links /\ readyQueue \in Proc /\ p \in Proc
        /\ Queued \subseteq Proc /\ Proc \subseteq Slot
        /\ BackInverts(next, prev, readyQueue)
        /\ readyQueue \in Queued /\ prev[readyQueue] = NULL
        /\ b \in Proc \cup {NULL} /\ NULL \notin Slot
    BY LinkFacts, SlotFacts, NullAssumption DEF Links
  <1>1. a \in Queued \ {p} /\ next[a] = p /\ a \in Proc
    BY <1>0, InnerHasPrev DEF Queued
  <1>2. /\ readyQueue' = readyQueue /\ process' = process /\ state' = state
        /\ next' = [x \in Slot |-> IF x = p THEN NULL ELSE IF x = a THEN b ELSE next[x]]
        /\ prev' = [x \in Slot |-> IF x = p THEN NULL ELSE IF x = b THEN a ELSE prev[x]]
    BY <1>0, <1>1 DEF Become, ReadyRemoval, Kernel, IInv, QueuedAreReady
  <1>3. /\ \A x \in Slot : next'[x] = IF x = p THEN NULL ELSE IF x = a THEN b ELSE next[x]
        /\ \A x \in Slot : prev'[x] = IF x = p THEN NULL ELSE IF x = b THEN a ELSE prev[x]
    BY <1>2
  <1>4. TypeOK'
    <2>1. next' \in [Slot -> Proc \cup {NULL}] /\ prev' \in [Slot -> Proc \cup {NULL}]
      BY <1>0, <1>1, <1>2 DEF Links
    <2> QED
      BY <1>0, <1>2, <2>1 DEF IInv, TypeOK
  <1>5. Queued' = Queued \ {p}
    <2>1. Unlinked(next', next, prev[p], p)
      BY <1>3 DEF Unlinked
    <2>2. next' \in Links /\ p \in Reach(next, readyQueue)
      BY <1>4 DEF TypeOK, Links, Queued
    <2>3. Reach(next', readyQueue) = Reach(next, readyQueue) \ {p}
      BY <1>0, <2>1, <2>2, ReachRemove
    <2> QED
      BY <1>2, <2>3 DEF Queued
  <1>6. /\ \A x \in Queued : next[x] # NULL => next[x] \in Queued /\ prev[next[x]] = x
        /\ \A x \in Queued : prev[x] # NULL => prev[x] \in Queued /\ next[prev[x]] = x
    BY <1>0, ReachStep DEF BackInverts, Queued
  <1> HIDE DEF a, b
  <1>7. WalkEnds'
    <2>1. PICK t \in Queued : next[t] = NULL
      BY <1>0 DEF IInv, Linked, WalkEnds, Ends, Queued
    <2>2. CASE t = p
      <3>1. a \in Queued' /\ next'[a] = NULL
        BY <1>0, <1>1, <1>3, <1>5, <2>1, <2>2 DEF b
      <3> QED
        BY <3>1 DEF WalkEnds, Ends, Queued
    <2>3. CASE t # p
      <3>1. t # a
        BY <1>0, <1>1, <2>1
      <3>2. t \in Queued' /\ next'[t] = NULL
        BY <1>0, <1>3, <1>5, <2>1, <2>3, <3>1
      <3> QED
        BY <3>2 DEF WalkEnds, Ends, Queued
    <2> QED
      BY <2>2, <2>3
  <1>8. LinksInverse'
    <2>0. /\ b # NULL => b \in Queued /\ b # p /\ prev[b] = p /\ b # readyQueue
          /\ a # p
      <3>1. b # NULL => b \in Queued /\ prev[b] = p
        BY <1>6 DEF b
      <3>2. b # p
        BY <1>0, <1>1, <1>6 DEF a, b
      <3> QED
        BY <1>0, <1>1, <3>1, <3>2
    <2>1. prev'[readyQueue'] = NULL
      BY <1>0, <1>2, <1>3, <2>0
    <2>2. ASSUME NEW x \in Queued'
          PROVE  /\ next'[x] # NULL => prev'[next'[x]] = x
                 /\ prev'[x] # NULL => prev'[x] \in Queued' /\ next'[prev'[x]] = x
      <3>1. x \in Queued /\ x # p /\ x \in Slot
        BY <1>0, <1>5
      <3>2. next'[x] # NULL => prev'[next'[x]] = x
        <4>1. CASE x = a
          BY <1>0, <1>1, <1>3, <2>0, <3>1, <4>1
        <4>2. CASE x # a
          <5>1. next'[x] = next[x]
            BY <1>3, <3>1, <4>2
          <5>2. next[x] # NULL => next[x] # p /\ next[x] # b
            BY <1>0, <1>6, <2>0, <3>1, <4>2 DEF a
          <5>3. next[x] # NULL => next[x] \in Slot /\ prev[next[x]] = x
            BY <1>0, <1>6, <3>1
          <5> QED
            BY <1>3, <5>1, <5>2, <5>3
        <4> QED
          BY <4>1, <4>2
      <3>3. prev'[x] # NULL => prev'[x] \in Queued' /\ next'[prev'[x]] = x
        <4>1. CASE x = b
          BY <1>0, <1>1, <1>3, <1>5, <2>0, <3>1, <4>1
        <4>2. CASE x # b
          <5>1. prev'[x] = prev[x]
            BY <1>3, <3>1, <4>2
          <5>2. prev[x] # NULL => prev[x] \in Queued /\ next[prev[x]] = x
            BY <1>6, <3>1
          <5>3. prev[x] # NULL => prev[x] # p /\ prev[x] # a
            BY <1>0, <1>1, <3>1, <4>2, <5>2 DEF b
          <5>4. prev[x] # NULL => prev[x] \in Slot
            BY <1>0, <5>2
          <5> QED
            BY <1>3, <1>5, <5>1, <5>2, <5>3, <5>4
        <4> QED
          BY <4>1, <4>2
      <3> QED
        BY <3>2, <3>3
    <2> QED
      BY <2>1, <2>2 DEF LinksInverse
  <1>9. QueuedAreReady'
    BY <1>2, <1>5 DEF IInv, QueuedAreReady
  <1> QED
    BY <1>4, <1>7, <1>8, <1>9 DEF IInv, Linked

(* readyRemoval() unlinks a queued process and ignores one not READY.      *)
LEMMA ReadyRemovalCallKeeps ==
    ASSUME IInv, NEW p \in Slot, ReadyRemovalCall(p)
    PROVE  IInv'
  <1>1. CASE p \in Queued /\ p = readyQueue
    <2>1. readyQueue # NULL
      BY <1>1, NullAssumption
    <2> QED
      BY <1>1, <2>1, RemoveHeadKeeps DEF ReadyRemovalCall
  <1>2. CASE p \in Queued /\ p # readyQueue
    BY <1>2, RemoveInnerKeeps DEF ReadyRemovalCall
  <1>3. CASE state[p] # "READY"
    <2>1. /\ readyQueue' = readyQueue /\ process' = process
          /\ next' = next /\ prev' = prev /\ state' = state
      BY <1>3 DEF ReadyRemovalCall, Become, ReadyRemoval, Kernel
    <2> QED
      BY <2>1 DEF IInv, TypeOK, Linked, WalkEnds, LinksInverse, QueuedAreReady, Queued
  <1> QED
    BY <1>1, <1>2, <1>3 DEF ReadyRemovalCall

(* Suspending a process that is not queued leaves the list alone.          *)
LEMMA SuspendCallKeeps ==
    ASSUME IInv, NEW p \in Proc, NEW s \in {"BLOCKED", "SLEEPING", "WAITING"}, SuspendCall(p, s)
    PROVE  IInv'
  <1>1. Queued' = Queued
    BY DEF SuspendCall, Queued
  <1>2. TypeOK'
    BY SlotFacts DEF IInv, TypeOK, SuspendCall, ProcState
  <1>3. Linked'
    BY <1>1 DEF IInv, Linked, WalkEnds, LinksInverse, SuspendCall, Queued
  <1>4. QueuedAreReady'
    BY <1>1, LinkFacts, SlotFacts DEF IInv, TypeOK, QueuedAreReady, SuspendCall
  <1> QED
    BY <1>2, <1>3, <1>4 DEF IInv

-----------------------------------------------------------------------------
(* The queue starts empty.                                                 *)
LEMMA InitEstablishes == Init => IInv
  <1> SUFFICES ASSUME Init PROVE IInv
    OBVIOUS
  <1>1. Queued = {}
    BY ReachNull DEF Init, Queued
  <1> QED
    BY <1>1, SlotFacts
       DEF Init, IInv, TypeOK, ProcState, Linked, WalkEnds, LinksInverse, QueuedAreReady

(* Every call of the dispatcher keeps the invariant.                       *)
LEMMA StepKeeps == IInv /\ [Next]_vars => IInv'
  <1> SUFFICES ASSUME IInv, [Next]_vars PROVE IInv'
    OBVIOUS
  <1>1. CASE NextCall
    BY <1>1, NextCallKeeps
  <1>2. ASSUME NEW p \in Slot, ReadyCall(p) PROVE IInv'
    BY <1>2, ReadyCallKeeps
  <1>3. ASSUME NEW p \in Slot, ReadyRemovalCall(p) PROVE IInv'
    BY <1>3, ReadyRemovalCallKeeps
  <1>4. ASSUME NEW p \in Proc, NEW s \in {"BLOCKED", "SLEEPING", "WAITING"}, SuspendCall(p, s)
        PROVE  IInv'
    BY <1>4, SuspendCallKeeps
  <1>5. CASE UNCHANGED vars
    BY <1>5 DEF vars, IInv, TypeOK, Linked, WalkEnds, LinksInverse, QueuedAreReady, Queued
  <1> QED
    BY <1>1, <1>2, <1>3, <1>4, <1>5 DEF Next

(* For any number of processes the ready queue's fields keep their types,  *)
(* the list stays a proper doubly linked list that ends, and only READY    *)
(* processes are on it, as long as ready(), next() and readyRemoval()      *)
(* (c/disp.c) are called under their discipline.                           *)
THEOREM QueueInvariant == Spec => []IInv
  <1> QED
    BY InitEstablishes, StepKeeps, PTL DEF Spec

(* Every field of the queue keeps its type (c/disp.c ready, next,          *)
(* readyRemoval): next() never hands out a null process.                   *)
THEOREM TypeCorrect == Spec => []TypeOK
  <1>1. IInv => TypeOK
    BY DEF IInv
  <1> QED
    BY <1>1, QueueInvariant, PTL

(* ready(), next() and readyRemoval() of c/disp.c keep the doubly linked   *)
(* list in order: no process is lost from it, no knot is tied in it.       *)
THEOREM QueueLinked == Spec => []Linked
  <1>1. IInv => Linked
    BY DEF IInv
  <1> QED
    BY <1>1, QueueInvariant, PTL

(* A process on the queue of c/disp.c carries the state READY, which is    *)
(* how cleanup() knows to call readyRemoval() for it.                      *)
THEOREM QueuedReady == Spec => []QueuedAreReady
  <1>1. IInv => QueuedAreReady
    BY DEF IInv
  <1> QED
    BY <1>1, QueueInvariant, PTL
=============================================================================

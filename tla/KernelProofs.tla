---------------------------- MODULE KernelProofs ----------------------------
(***************************************************************************)
(* The kernel is sound for every number of processes: under any workload   *)
(* of creations, ends, messages, sleeps and calls of the keyboard driver,  *)
(* with the interrupts of the timer and of the keyboard, every living      *)
(* process is in one place, and that is where its peers, the timer or the  *)
(* keyboard look for it.  The functions of the kernel move processes from  *)
(* place to place, so they are proved to keep an invariant that allows for *)
(* a set of processes which are in no place for the moment: between two    *)
(* requests only the running process is.                                   *)
(***************************************************************************)
EXTENDS KernelProperties, ListLemmas

(* The workloads: messages, sleeping and the keyboard, with no signals and *)
(* no waiting for a process, of which the runs show that they can lose     *)
(* processes.  Nobody sends to the idle process, or names the pid that     *)
(* marks an entry of the table as free.  All sleeps are of one length.     *)
(* The typist is patient: handleKbdISR() goes on with a read that ended.   *)
NoSignalsNoWaits ==
    /\ Requests \cap {"KILL", "WAIT"} = {}
    /\ \A p \in Proc : /\ SendTo[p] \subseteq Int \ {Idle, TOMBSTONE}
                       /\ ReceiveFrom[p] \subseteq Int \ {TOMBSTONE}
    /\ \A p, q \in Proc : \A s \in Durations[p] \ {0}, t \in Durations[q] \ {0} : s = t
    /\ Typist = "patient" \/ Keys = {}

-----------------------------------------------------------------------------
(* The kernel as a record.                                                 *)
Fields == {"readyQueue", "process", "next", "prev", "state", "pid", "lastPID",
           "senderQueue", "targetOfRecv", "ipcArgs", "waitingFor", "waitingNext",
           "sleepList", "sleepNext", "sleepPrev", "sleepTime",
           "sigMaskInstalled", "sigMaskOnStack", "sigMaskQueued", "fdTab", "kbd",
           "eax", "fault"}

IsKernel(k) == Fields \subseteq DOMAIN k

Same(j, k, fields) == \A f \in fields : j[f] = k[f]

(* The lists through `next': that of the idle process is the ready queue,  *)
(* that of another process its sender queue.                               *)
Heads(k) == [k.senderQueue EXCEPT ![Idle] = k.readyQueue]
On(k, a) == Chain(k.next, Heads(k), a)
Nowhere(k, p) == Outside(k.next, Heads(k), p)

Lists(k) ==
    /\ ListsApart(k.next, Heads(k))
    /\ k.readyQueue \in Proc \cup {NULL}
    /\ k.senderQueue \in Links /\ k.senderQueue[Idle] = NULL
    /\ k.prev \in Links

Typed(k) ==
    /\ k.process \in Slot
    /\ k.state \in [Slot -> ProcState]
    /\ k.targetOfRecv \in [Slot -> Slot \cup {EMPTY, TOMBSTONE}]
    /\ k.ipcArgs \in [Slot -> Buffers \cup {NULL}]
    /\ k.waitingFor \in [Slot -> Slot]
    /\ k.sleepNext \in Links /\ k.sleepPrev \in Links
    /\ k.sleepTime \in [Slot -> Int]
    /\ k.sigMaskInstalled \in [Slot -> SUBSET Signals]
    /\ k.sigMaskQueued \in [Slot -> SUBSET Signals]
    /\ k.fdTab \in [Slot -> [DOMAIN NoDescriptors -> 0..(DTAB_SIZE - 1) \cup {NULL}]]
    /\ k.eax \in [Slot -> Int]

(* What the workload leaves alone.                                         *)
Quiet(k) ==
    /\ k.waitingNext = [x \in Slot |-> NULL]
    /\ k.sigMaskOnStack = [x \in Slot |-> {}]
    /\ k.fault = "none"

(* The pids are given out in order, and a dead process receives from       *)
(* nobody, so that no clean-up finds it.  The idle process and mainProgram *)
(* have got theirs before the first request.                               *)
InOrder(k) ==
    /\ k.pid \in [Slot -> Slot \cup {EMPTY, TOMBSTONE}]
    /\ k.pid[Idle] = Idle /\ k.targetOfRecv[Idle] = Idle
    /\ \A x \in Slot : IF x < k.lastPID THEN k.pid[x] \in {x, TOMBSTONE} ELSE k.pid[x] = EMPTY
    /\ \A x \in Proc : ~Alive(k, x) => k.targetOfRecv[x] \in {x, EMPTY}

Pids(k) == k.lastPID \in 2..(MaxPid + 1) /\ InOrder(k)

(* Where a living process is, and what its fields say then.                *)
ReadyOnes(k) ==
    \A p \in On(k, Idle) : Alive(k, p) /\ k.state[p] = "READY" /\ k.targetOfRecv[p] = p

SendingOnes(k) ==
    \A r \in Proc : \A s \in On(k, r) :
        /\ Alive(k, r) /\ Alive(k, s)
        /\ k.state[s] = "BLOCKED" /\ k.ipcArgs[s] # NULL /\ k.targetOfRecv[s] = s
        /\ k.targetOfRecv[r] \notin {s, ReceiveAny}

ReceivingOnes(k, out) ==
    \A p \in Proc : Alive(k, p) /\ k.targetOfRecv[p] # p =>
        /\ Nowhere(k, p) /\ p \notin out
        /\ k.state[p] = "BLOCKED" /\ k.ipcArgs[p] # NULL
        /\ \/ k.targetOfRecv[p] = ReceiveAny
           \/ k.targetOfRecv[p] \in Proc /\ Alive(k, k.targetOfRecv[p])

OutOnes(k, out) ==
    \A p \in out : p \in Proc /\ Alive(k, p) /\ Nowhere(k, p) /\ k.targetOfRecv[p] = p

Everybody(k, out) ==
    \A p \in Proc : Alive(k, p) =>
        p \in out \/ k.targetOfRecv[p] # p \/ \E a \in Slot : p \in On(k, a)

Placed(k, out) ==
    /\ ReadyOnes(k) /\ SendingOnes(k) /\ ReceivingOnes(k, out)
    /\ OutOnes(k, out) /\ Everybody(k, out)

Settled(k, out) ==
    /\ IsKernel(k) /\ Lists(k) /\ Typed(k) /\ Quiet(k) /\ Pids(k) /\ Placed(k, out)

(* Two kinds of process are in none of these places for longer than a      *)
(* request: one that waits for characters, which kbd.p names, and those on *)
(* the sleep list.                                                         *)
Reading(k) ==
    {p \in Proc : Alive(k, p) /\ k.state[p] = "RUNNING" /\ k.process # p /\ k.kbd.p = p}

Aside(k) == [reading |-> Reading(k), asleep |-> Sleepers(k)]
Away(aside) == aside.reading \cup aside.asleep

(* The keyboard: who has it open, and what its reader may rely on.         *)
Owns(k, p, fd) == p \in Proc /\ Alive(k, p) /\ fd \in DOMAIN NoDescriptors /\ k.fdTab[p][fd] # NULL

KbdType == [state : SUBSET NotOpen, buf : Seq(Keys), p : Proc \cup {NULL}, chars : Seq(Keys),
            buflen : Nat, eof : EofChars \cup {C_D}, irq : BOOLEAN]

OneOwner(k) ==
    \A p, q, fd, gd : Owns(k, p, fd) /\ Owns(k, q, gd) => p = q /\ fd = gd

Console(k) ==
    /\ k.kbd \in KbdType
    /\ OneOwner(k)
    /\ k.kbd.state = NotOpen => ~k.kbd.irq /\ \A p, fd : ~Owns(k, p, fd)
    /\ k.kbd.state # NotOpen =>
         /\ "EMPTY" \notin k.kbd.state
         /\ k.kbd.irq = ("DISABLE" \notin k.kbd.state)
         /\ "STOP" \notin Requests => \E p, fd : Owns(k, p, fd)
    /\ \A p \in Reading(k) :
         /\ \E fd : Owns(k, p, fd)
         /\ k.kbd.irq /\ Len(k.kbd.chars) < k.kbd.buflen

(* The sleep list: when each sleeper is due, counted from now, is the sum  *)
(* of the differences up to it, and not later than a sleep that begins.    *)
NapHeads(k) == [x \in Slot |-> IF x = Idle THEN k.sleepList ELSE NULL]

Times == (UNION {Durations[p] : p \in Proc}) \ {0}

IsDue(k, due) ==
    /\ due \in [Slot -> Int]
    /\ k.sleepList # NULL => due[k.sleepList] = k.sleepTime[k.sleepList]
    /\ \A x \in Sleepers(k) :
         /\ k.sleepNext[x] # NULL => due[k.sleepNext[x]] = due[x] + k.sleepTime[k.sleepNext[x]]
         /\ \A time \in Times : due[x] <= time

Nap(k) ==
    /\ k.sleepList \in Proc \cup {NULL}
    /\ ListsApart(k.sleepNext, NapHeads(k))
    /\ \A x \in Sleepers(k) : k.state[x] = "SLEEPING"
    /\ \E due : IsDue(k, due)

Sound(k, out, aside) ==
    /\ Settled(k, out \cup Away(aside))
    /\ out \cap Away(aside) = {}
    /\ Aside(k) = aside
    /\ Console(k) /\ Nap(k)

(* The process that runs, unless it is the idle one.                       *)
RunningIn(k) == {k.process} \ {Idle}

(* The inductive invariant.                                                *)
Running == {process} \ {Idle}

IInv ==
    /\ Sound(Kernel, Running, Aside(Kernel))
    /\ process # Idle => state[process] = "RUNNING"

-----------------------------------------------------------------------------
(* The types in which the requests move processes.                         *)
LEMMA KernelFacts ==
    ASSUME NEW k, Lists(k)
    PROVE  /\ k.next \in Links /\ Heads(k) \in Links
           /\ Heads(k)[Idle] = k.readyQueue
           /\ \A r \in Proc : Heads(k)[r] = k.senderQueue[r]
           /\ \A a \in Slot : On(k, a) \subseteq Proc
  <1>1. k.next \in Links /\ Heads(k) \in Links
    BY DEF Lists, ListsApart
  <1>2. Heads(k)[Idle] = k.readyQueue /\ \A r \in Proc : Heads(k)[r] = k.senderQueue[r]
    BY SlotFacts DEF Heads, Lists, Links
  <1> QED
    BY <1>1, <1>2, ChainInProc DEF On

(* What ready() writes.                                                    *)
LEMMA ReadyEffect ==
    ASSUME NEW k, IsKernel(k), NEW p \in Proc
    PROVE  /\ IsKernel(Ready(k, p))
           /\ Same(Ready(k, p), k, Fields \ {"readyQueue", "next", "prev", "state"})
           /\ Ready(k, p).state = [k.state EXCEPT ![p] = "READY"]
           /\ k.readyQueue = NULL =>
                /\ Ready(k, p).readyQueue = p
                /\ Ready(k, p).prev = [k.prev EXCEPT ![p] = NULL]
                /\ Ready(k, p).next = [k.next EXCEPT ![p] = NULL]
           /\ k.readyQueue # NULL =>
                /\ Ready(k, p).readyQueue = k.readyQueue
                /\ Ready(k, p).prev = [k.prev EXCEPT ![p] = TailOf(k.next, k.readyQueue)]
                /\ Ready(k, p).next = [k.next EXCEPT ![TailOf(k.next, k.readyQueue)] = p, ![p] = NULL]
  <1> DEFINE j == Ready(k, p)
  <1>0. p # Idle
    BY SlotFacts
  <1>1. CASE k.readyQueue = NULL
    <2>1. j = [k EXCEPT !.readyQueue = p, !.prev[p] = NULL, !.next[p] = NULL, !.state[p] = "READY"]
      BY <1>0, <1>1 DEF Ready
    <2>2. IsKernel(j)
      BY <2>1 DEF IsKernel
    <2>3. Same(j, k, Fields \ {"readyQueue", "next", "prev", "state"})
      BY <2>1 DEF IsKernel, Same
    <2>4. /\ j.state = [k.state EXCEPT ![p] = "READY"]
          /\ j.readyQueue = p
          /\ j.prev = [k.prev EXCEPT ![p] = NULL]
          /\ j.next = [k.next EXCEPT ![p] = NULL]
      BY <2>1 DEF IsKernel, Fields
    <2> QED
      BY <1>1, <2>2, <2>3, <2>4
  <1>2. CASE k.readyQueue # NULL
    <2> DEFINE t == TailOf(k.next, k.readyQueue)
    <2>1. j = [k EXCEPT !.next = [@ EXCEPT ![t] = p, ![p] = NULL], !.prev[p] = t, !.state[p] = "READY"]
      BY <1>0, <1>2 DEF Ready
    <2> HIDE DEF t
    <2>2. IsKernel(j)
      BY <2>1 DEF IsKernel
    <2>3. Same(j, k, Fields \ {"readyQueue", "next", "prev", "state"})
      BY <2>1 DEF IsKernel, Same
    <2>4. /\ j.state = [k.state EXCEPT ![p] = "READY"]
          /\ j.readyQueue = k.readyQueue
          /\ j.prev = [k.prev EXCEPT ![p] = t]
          /\ j.next = [k.next EXCEPT ![t] = p, ![p] = NULL]
      BY <2>1 DEF IsKernel, Fields
    <2> QED
      BY <1>2, <2>2, <2>3, <2>4 DEF t
  <1> QED
    BY <1>1, <1>2

-----------------------------------------------------------------------------
(* ready() of a process that is in no list puts it on the ready queue.     *)
LEMMA ReadyLists ==
    ASSUME NEW k, IsKernel(k), Lists(k), NEW p \in Proc, Nowhere(k, p), NEW j, j = Ready(k, p)
    PROVE  Lists(j) /\ Joined(j.next, Heads(j), k.next, Heads(k), Idle, p)
  <1> DEFINE H == Heads(k)
             t == TailOf(k.next, k.readyQueue)
  <1>1. /\ k.next \in Links /\ H \in Links /\ ListsApart(k.next, H) /\ p \in Slot /\ Idle \in Slot
        /\ H[Idle] = k.readyQueue /\ k.senderQueue \in Links /\ k.prev \in Links
    BY SlotFacts DEF Lists, ListsApart, Heads, Links
  <1>2. Outside(k.next, H, p)
    BY DEF Nowhere
  <1>3. k.next[p] = NULL
    BY <1>1, <1>2, OutsideIsLoose
  <1>4. j.senderQueue = k.senderQueue
    <2>1. Same(j, k, Fields \ {"readyQueue", "next", "prev", "state"})
      BY ReadyEffect
    <2> QED
      BY <2>1 DEF Same, Fields
  <1>5. CASE k.readyQueue = NULL
    <2>1. j.readyQueue = p /\ j.prev = [k.prev EXCEPT ![p] = NULL] /\ j.next = k.next
      <3>1. j.next = [k.next EXCEPT ![p] = NULL] /\ j.readyQueue = p /\ j.prev = [k.prev EXCEPT ![p] = NULL]
        BY <1>5, ReadyEffect
      <3> QED
        BY <1>1, <1>3, <3>1 DEF Links
    <2>2. Heads(j) \in Links /\ HeadSet(Heads(j), H, Idle, p)
      BY <1>1, <1>4, <2>1, SlotFacts DEF Heads, HeadSet, Links
    <2>3. Joined(k.next, Heads(j), k.next, H, Idle, p)
      BY <1>1, <1>2, <1>5, <2>2, JoinFirst
    <2>4. j.prev \in Links
      BY <1>1, <2>1 DEF Links
    <2> QED
      BY <1>1, <1>4, <2>1, <2>3, <2>4 DEF Lists, Joined
  <1>6. CASE k.readyQueue # NULL
    <2>1. j.readyQueue = k.readyQueue /\ Heads(j) = H
      BY <1>4, <1>6, ReadyEffect DEF Heads
    <2>2. t \in Proc /\ t \in Slot /\ t # p
      <3>1. t \in Chain(k.next, H, Idle)
        BY <1>1, <1>6, ChainEnds
      <3> QED
        BY <1>1, <1>2, <3>1, ChainInProc, SlotFacts DEF Outside
    <2>3. j.prev = [k.prev EXCEPT ![p] = t] /\ j.next = [k.next EXCEPT ![t] = p, ![p] = NULL]
      BY <1>6, ReadyEffect
    <2> HIDE DEF t
    <2>4. j.next \in Links /\ j.prev \in Links /\ Appended(j.next, k.next, t, p)
      BY <1>1, <2>2, <2>3 DEF Links, Appended
    <2>5. Joined(j.next, H, k.next, H, Idle, p)
      BY <1>1, <1>2, <1>6, <2>4, JoinBehind DEF t
    <2> QED
      BY <1>1, <1>4, <2>1, <2>4, <2>5 DEF Lists, Joined
  <1> QED
    BY <1>5, <1>6

(* ready() puts a process that is in no place on the ready queue.          *)
LEMMA ReadySettles ==
    ASSUME NEW k, NEW out, Settled(k, out), NEW p \in out
    PROVE  Settled(Ready(k, p), out \ {p})
  <1>1. /\ p \in Proc /\ Alive(k, p) /\ Nowhere(k, p) /\ k.targetOfRecv[p] = p
        /\ IsKernel(k) /\ Lists(k) /\ Typed(k) /\ Pids(k) /\ p \in Slot /\ p # Idle
    BY SlotFacts DEF Settled, Placed, OutOnes
  <1>2. PICK j : j = Ready(k, p)
    OBVIOUS
  <1>3. /\ IsKernel(j) /\ Same(j, k, Fields \ {"readyQueue", "next", "prev", "state"})
        /\ j.state = [k.state EXCEPT ![p] = "READY"]
    BY <1>1, <1>2, ReadyEffect
  <1>4. Lists(j) /\ Joined(j.next, Heads(j), k.next, Heads(k), Idle, p)
    BY <1>1, <1>2, ReadyLists
  <1>5. \A a \in Slot : On(j, a) = IF a = Idle THEN On(k, a) \cup {p} ELSE On(k, a)
    BY <1>4 DEF Joined, On
  <1>6. \A q : q # p => (Nowhere(j, q) <=> Nowhere(k, q))
    BY <1>5 DEF Nowhere, Outside, On
  <1>7. j.pid = k.pid /\ j.targetOfRecv = k.targetOfRecv /\ j.ipcArgs = k.ipcArgs /\ j.lastPID = k.lastPID
    BY <1>3 DEF Same, Fields
  <1>8. \A q : Alive(j, q) <=> Alive(k, q)
    BY <1>7 DEF Alive
  <1>9. j.state[p] = "READY" /\ \A q \in Slot : q # p => j.state[q] = k.state[q]
    BY <1>1, <1>3 DEF Typed
  <1>10. Typed(j) /\ Quiet(j)
    <2>1. j.state \in [Slot -> ProcState]
      BY <1>1, <1>3 DEF Typed, ProcState
    <2>2. Same(j, k, {"process", "targetOfRecv", "ipcArgs", "waitingFor", "sleepNext", "sleepPrev", "sleepTime",
                      "sigMaskInstalled", "sigMaskQueued", "fdTab", "eax", "sleepList", "waitingNext",
                      "sigMaskOnStack", "kbd", "fault"})
      BY <1>3 DEF Same, Fields
    <2> QED
      BY <1>1, <2>1, <2>2 DEF Same, Typed, Quiet, Settled
  <1>11. Pids(j)
    BY <1>1, <1>7, <1>8 DEF Pids, InOrder
  <1>12. ReadyOnes(j)
    BY <1>1, <1>5, <1>7, <1>8, <1>9, SlotFacts, KernelFacts DEF ReadyOnes, Settled, Placed
  <1>13. SendingOnes(j)
    <2> SUFFICES ASSUME NEW r \in Proc, NEW s \in On(j, r)
                 PROVE  /\ Alive(j, r) /\ Alive(j, s)
                        /\ j.state[s] = "BLOCKED" /\ j.ipcArgs[s] # NULL /\ j.targetOfRecv[s] = s
                        /\ j.targetOfRecv[r] \notin {s, ReceiveAny}
      BY DEF SendingOnes
    <2>1. s \in On(k, r) /\ s \in Slot /\ s # p
      BY <1>1, <1>5, SlotFacts, KernelFacts DEF Nowhere, Outside, On
    <2> QED
      BY <1>7, <1>8, <1>9, <2>1 DEF Settled, Placed, SendingOnes
  <1>14. ReceivingOnes(j, out \ {p})
    BY <1>1, <1>6, <1>7, <1>8, <1>9, SlotFacts DEF ReceivingOnes, Settled, Placed
  <1>15. OutOnes(j, out \ {p})
    BY <1>6, <1>7, <1>8 DEF OutOnes, Settled, Placed
  <1>16. Everybody(j, out \ {p})
    BY <1>1, <1>5, <1>7, <1>8, SlotFacts DEF Everybody, Settled, Placed
  <1> QED
    BY <1>2, <1>3, <1>4, <1>10, <1>11, <1>12, <1>13, <1>14, <1>15, <1>16 DEF Settled, Placed

-----------------------------------------------------------------------------
(* What does not touch these places: the results of calls, the signal      *)
(* mask, the devices, the sleep list, who runs, and the state and the      *)
(* arguments of processes in no list.                                      *)
Stays == {"readyQueue", "next", "senderQueue", "pid", "lastPID", "targetOfRecv", "waitingNext",
          "sigMaskOnStack", "fault"}

(* Writing the other fields moves nobody.                                  *)
LEMMA EditSettles ==
    ASSUME NEW k, NEW out, Settled(k, out), NEW j, IsKernel(j), Typed(j), j.prev \in Links,
           Same(j, k, Stays),
           \A q \in Proc : q \notin out => j.state[q] = k.state[q] /\ j.ipcArgs[q] = k.ipcArgs[q]
    PROVE  Settled(j, out)
  <1>1. /\ j.next = k.next /\ j.readyQueue = k.readyQueue /\ j.senderQueue = k.senderQueue
        /\ j.pid = k.pid /\ j.lastPID = k.lastPID /\ j.targetOfRecv = k.targetOfRecv
        /\ j.waitingNext = k.waitingNext
        /\ j.sigMaskOnStack = k.sigMaskOnStack /\ j.fault = k.fault
    BY DEF Same, Stays
  <1>2. Heads(j) = Heads(k)
    BY <1>1 DEF Heads
  <1>3. /\ \A a : On(j, a) = On(k, a)
        /\ \A q : Nowhere(j, q) <=> Nowhere(k, q)
        /\ \A q : Alive(j, q) <=> Alive(k, q)
    BY <1>1, <1>2 DEF On, Nowhere, Alive
  <1>4. Lists(j) /\ Quiet(j) /\ Pids(j)
    BY <1>1, <1>2, <1>3 DEF Settled, Lists, Quiet, Pids, InOrder
  <1>5. \A a \in Slot : \A q \in On(k, a) : q \in Proc /\ q \notin out
    BY KernelFacts DEF Settled, Placed, OutOnes, Nowhere, Outside, On
  <1>6. ReadyOnes(j) /\ SendingOnes(j)
    BY <1>1, <1>3, <1>5, SlotFacts DEF Settled, Placed, ReadyOnes, SendingOnes
  <1>7. ReceivingOnes(j, out)
    BY <1>1, <1>3 DEF Settled, Placed, ReceivingOnes
  <1>8. OutOnes(j, out) /\ Everybody(j, out)
    BY <1>1, <1>3 DEF Settled, Placed, OutOnes, Everybody
  <1> QED
    BY <1>4, <1>6, <1>7, <1>8 DEF Settled, Placed

-----------------------------------------------------------------------------
(* next() takes the head of the ready queue and runs it.                   *)
LEMMA NextEffect ==
    ASSUME NEW k, IsKernel(k)
    PROVE  /\ IsKernel(NextProcess(k))
           /\ Same(NextProcess(k), k, Fields \ {"readyQueue", "next", "prev", "state", "process"})
           /\ k.readyQueue = NULL =>
                /\ NextProcess(k).process = Idle
                /\ Same(NextProcess(k), k, {"readyQueue", "next", "prev", "state"})
           /\ k.readyQueue # NULL =>
                /\ NextProcess(k).process = k.readyQueue
                /\ NextProcess(k).readyQueue = k.next[k.readyQueue]
                /\ NextProcess(k).next = [k.next EXCEPT ![k.readyQueue] = NULL]
                /\ NextProcess(k).state = [k.state EXCEPT ![k.readyQueue] = "RUNNING"]
                /\ NextProcess(k).prev = [x \in Slot |-> IF x \in {k.readyQueue, k.next[k.readyQueue]}
                                                         THEN NULL ELSE k.prev[x]]
  <1> DEFINE j == NextProcess(k)
  <1>1. CASE k.readyQueue = NULL
    <2>1. j = [k EXCEPT !.process = Idle]
      BY <1>1 DEF NextProcess
    <2>2. IsKernel(j)
      BY <2>1 DEF IsKernel
    <2>3. Same(j, k, Fields \ {"process"})
      BY <2>1 DEF IsKernel, Same
    <2>4. j.process = Idle
      BY <2>1 DEF IsKernel, Fields
    <2> HIDE DEF j
    <2>5. Same(j, k, Fields \ {"readyQueue", "next", "prev", "state", "process"})
      BY <2>3 DEF Same
    <2>6. Same(j, k, {"readyQueue", "next", "prev", "state"})
      BY <2>3 DEF Same, Fields
    <2> QED
      BY <1>1, <2>2, <2>4, <2>5, <2>6 DEF j
  <1>2. CASE k.readyQueue # NULL
    <2> DEFINE p == k.readyQueue
               h == k.next[p]
               back == [x \in Slot |-> IF x \in {p, h} THEN NULL ELSE k.prev[x]]
    <2>1. j = [k EXCEPT !.readyQueue = h, !.next[p] = NULL, !.prev = back,
                        !.state[p] = "RUNNING", !.process = p]
      BY <1>2 DEF NextProcess
    <2> HIDE DEF h, back, p, j
    <2>2. IsKernel(j)
      BY <2>1 DEF IsKernel
    <2>3. Same(j, k, Fields \ {"readyQueue", "next", "prev", "state", "process"})
      BY <2>1 DEF IsKernel, Same
    <2>4. j.process = p /\ j.readyQueue = h /\ j.next = [k.next EXCEPT ![p] = NULL]
          /\ j.state = [k.state EXCEPT ![p] = "RUNNING"] /\ j.prev = back
      BY <2>1 DEF IsKernel, Fields
    <2> QED
      BY <1>2, <2>2, <2>3, <2>4 DEF j, p, h, back
  <1> QED
    BY <1>1, <1>2

-----------------------------------------------------------------------------
(* A process that leaves its list, and keeps its target, is in no place.   *)
LEMMA LeavingSettles ==
    ASSUME NEW k, NEW out, Settled(k, out), NEW a \in Slot, NEW p \in On(k, a),
           NEW j, IsKernel(j), Lists(j), Typed(j),
           Same(j, k, Fields \ {"readyQueue", "senderQueue", "next", "prev",
                                "process", "state", "ipcArgs", "eax"}),
           Left(j.next, Heads(j), k.next, Heads(k), p),
           \A q \in Proc : q # p /\ q \notin out =>
                j.state[q] = k.state[q] /\ j.ipcArgs[q] = k.ipcArgs[q]
    PROVE  Settled(j, out \cup {p})
  <1>1. /\ j.pid = k.pid /\ j.lastPID = k.lastPID /\ j.targetOfRecv = k.targetOfRecv
        /\ j.waitingNext = k.waitingNext
        /\ j.sigMaskOnStack = k.sigMaskOnStack /\ j.fault = k.fault
    BY DEF Same, Fields
  <1>2. /\ \A b \in Slot : On(j, b) = On(k, b) \ {p}
        /\ \A q : q # p => (Nowhere(j, q) <=> Nowhere(k, q))
        /\ Nowhere(j, p)
        /\ \A q : Alive(j, q) <=> Alive(k, q)
    BY <1>1 DEF On, Nowhere, Outside, Left, Alive
  <1>3. Quiet(j) /\ Pids(j)
    BY <1>1, <1>2 DEF Settled, Quiet, Pids, InOrder
  <1>4. /\ \A b \in Slot : \A q \in On(k, b) : q \in Proc /\ q \notin out /\ ~Nowhere(k, q)
        /\ p \in Proc /\ p \notin out /\ ~Nowhere(k, p)
    BY KernelFacts DEF Settled, Placed, OutOnes, Nowhere, Outside, On
  <1>5. Alive(k, p) /\ k.targetOfRecv[p] = p
    <2>1. CASE a = Idle
      BY <2>1 DEF Settled, Placed, ReadyOnes
    <2>2. CASE a # Idle
      BY <2>2, SlotFacts DEF Settled, Placed, SendingOnes
    <2> QED
      BY <2>1, <2>2
  <1>6. ReadyOnes(j)
    BY <1>1, <1>2, <1>4, SlotFacts DEF Settled, Placed, ReadyOnes
  <1>7. SendingOnes(j)
    <2> SUFFICES ASSUME NEW r \in Proc, NEW s \in On(j, r)
                 PROVE  /\ Alive(j, r) /\ Alive(j, s)
                        /\ j.state[s] = "BLOCKED" /\ j.ipcArgs[s] # NULL /\ j.targetOfRecv[s] = s
                        /\ j.targetOfRecv[r] \notin {s, ReceiveAny}
      BY DEF SendingOnes
    <2>1. s \in On(k, r) /\ s # p /\ r \in Slot
      BY <1>2, SlotFacts
    <2>2. j.state[s] = k.state[s] /\ j.ipcArgs[s] = k.ipcArgs[s]
      BY <1>4, <2>1
    <2> QED
      BY <1>1, <1>2, <2>1, <2>2 DEF Settled, Placed, SendingOnes
  <1>8. ReceivingOnes(j, out \cup {p})
    BY <1>1, <1>2, <1>4, <1>5 DEF Settled, Placed, ReceivingOnes
  <1>9. OutOnes(j, out \cup {p})
    BY <1>1, <1>2, <1>4, <1>5 DEF Settled, Placed, OutOnes
  <1>10. Everybody(j, out \cup {p})
    BY <1>1, <1>2 DEF Settled, Placed, Everybody
  <1> QED
    BY <1>3, <1>6, <1>7, <1>8, <1>9, <1>10 DEF Settled, Placed

(* next() takes the process it runs out of all places, and marks it.       *)
LEMMA NextSettles ==
    ASSUME NEW k, NEW out, Settled(k, out)
    PROVE  /\ Settled(NextProcess(k), out \cup RunningIn(NextProcess(k)))
           /\ out \cap RunningIn(NextProcess(k)) = {}
           /\ \A q \in RunningIn(NextProcess(k)) : NextProcess(k).state[q] = "RUNNING"
           /\ \A q \in Slot \ RunningIn(NextProcess(k)) : NextProcess(k).state[q] = k.state[q]
  <1>1. IsKernel(k) /\ Lists(k) /\ Typed(k)
    BY DEF Settled
  <1>2. PICK j : j = NextProcess(k)
    OBVIOUS
  <1>3. CASE k.readyQueue = NULL
    <2>1. IsKernel(j) /\ j.process = Idle
          /\ Same(j, k, Fields \ {"readyQueue", "next", "prev", "state", "process"})
          /\ Same(j, k, {"readyQueue", "next", "prev", "state"})
      BY <1>1, <1>2, <1>3, NextEffect
    <2>2. Same(j, k, Fields \ {"process"})
      BY <2>1 DEF Same
    <2>3. Same(j, k, Stays) /\ j.state = k.state /\ j.ipcArgs = k.ipcArgs /\ j.prev = k.prev
      BY <2>2 DEF Same, Fields, Stays
    <2>4. Typed(j)
      <3>1. Same(j, k, {"state", "targetOfRecv", "ipcArgs", "waitingFor", "sleepNext", "sleepPrev", "sleepTime",
                      "sigMaskInstalled", "sigMaskQueued", "fdTab", "eax"})
        BY <2>2 DEF Same, Fields
      <3> QED
        BY <1>1, <2>1, <3>1, SlotFacts DEF Same, Typed
    <2>5. Settled(j, out)
      BY <1>1, <2>1, <2>3, <2>4, EditSettles DEF Lists
    <2>6. RunningIn(j) = {}
      BY <2>1 DEF RunningIn
    <2> QED
      BY <1>2, <2>3, <2>5, <2>6
  <1>4. CASE k.readyQueue # NULL
    <2> DEFINE p == k.readyQueue
    <2>1. /\ IsKernel(j) /\ j.process = p
          /\ Same(j, k, Fields \ {"readyQueue", "next", "prev", "state", "process"})
          /\ j.readyQueue = k.next[p]
          /\ j.next = [k.next EXCEPT ![p] = NULL]
          /\ j.state = [k.state EXCEPT ![p] = "RUNNING"]
          /\ j.prev = [x \in Slot |-> IF x \in {p, k.next[p]} THEN NULL ELSE k.prev[x]]
      BY <1>1, <1>2, <1>4, NextEffect
    <2>2. p \in Proc /\ p \in Slot /\ p # Idle /\ Idle \in Slot
          /\ k.next \in Links /\ k.prev \in Links /\ k.senderQueue \in Links
          /\ Heads(k) \in Links /\ Heads(k)[Idle] = p /\ ListsApart(k.next, Heads(k))
      BY <1>1, <1>4, SlotFacts, KernelFacts DEF Lists
    <2>3. k.next[p] \in Proc \cup {NULL}
      BY <2>2 DEF Links
    <2>4. j.senderQueue = k.senderQueue
      BY <2>1 DEF Same, Fields
    <2>5. j.next \in Links /\ HeadTaken(j.next, k.next, p)
      BY <2>1, <2>2 DEF Links, HeadTaken
    <2>6. Heads(j) \in Links /\ HeadSet(Heads(j), Heads(k), Idle, k.next[p])
      BY <2>1, <2>2, <2>3, <2>4 DEF Heads, HeadSet, Links
    <2>7. Left(j.next, Heads(j), k.next, Heads(k), p)
      BY <2>2, <2>5, <2>6, LeaveHead
    <2>8. j.prev \in Links
      BY <2>1, <2>2 DEF Links
    <2>9. Lists(j)
      BY <1>1, <2>1, <2>3, <2>4, <2>7, <2>8 DEF Lists, Left
    <2>10. Typed(j)
      <3>1. Same(j, k, {"targetOfRecv", "ipcArgs", "waitingFor", "sleepNext", "sleepPrev", "sleepTime",
                      "sigMaskInstalled", "sigMaskQueued", "fdTab", "eax"})
        BY <2>1 DEF Same, Fields
      <3>2. j.state \in [Slot -> ProcState]
        BY <1>1, <2>1 DEF Typed, ProcState
      <3> QED
        BY <1>1, <2>1, <2>2, <3>1, <3>2 DEF Same, Typed
    <2>11. \A q \in Slot : q # p => j.state[q] = k.state[q] /\ j.ipcArgs[q] = k.ipcArgs[q]
      <3>1. j.ipcArgs = k.ipcArgs
        BY <2>1 DEF Same, Fields
      <3> QED
        BY <1>1, <2>1, <3>1 DEF Typed
    <2>12. Same(j, k, Fields \ {"readyQueue", "senderQueue", "next", "prev",
                                "process", "state", "ipcArgs", "eax"})
      BY <2>1 DEF Same
    <2>13. p \in On(k, Idle)
      BY <2>2, ReachHead DEF On, Chain
    <2>14. p \notin out
      BY <2>2, <2>13 DEF Settled, Placed, OutOnes, Nowhere, Outside, On
    <2>15. j.state[p] = "RUNNING"
      BY <1>1, <2>1, <2>2 DEF Typed
    <2>16. RunningIn(j) = {p}
      BY <2>1, <2>2 DEF RunningIn
    <2> HIDE DEF p
    <2>17. Settled(j, out \cup {p})
      <3>1. \A q \in Proc : q # p /\ q \notin out => j.state[q] = k.state[q] /\ j.ipcArgs[q] = k.ipcArgs[q]
        BY <2>11, SlotFacts
      <3> QED
        BY <2>1, <2>2, <2>7, <2>9, <2>10, <2>12, <2>13, <3>1, LeavingSettles
    <2> QED
      BY <1>2, <2>11, <2>14, <2>15, <2>16, <2>17
  <1> QED
    BY <1>3, <1>4

-----------------------------------------------------------------------------
(* The targets of receivers are not links: changing one moves nobody.      *)
Retarget(k, p, t) == [k EXCEPT !.targetOfRecv[p] = t]

Retargeted(j, k, p, t) ==
    /\ IsKernel(j) /\ Lists(j) /\ Typed(j) /\ Quiet(j) /\ Pids(j)
    /\ j.state = k.state /\ j.ipcArgs = k.ipcArgs
    /\ j.targetOfRecv[p] = t
    /\ \A q \in Slot : q # p => j.targetOfRecv[q] = k.targetOfRecv[q]
    /\ \A a : On(j, a) = On(k, a)
    /\ \A q : Nowhere(j, q) <=> Nowhere(k, q)
    /\ \A q : Alive(j, q) <=> Alive(k, q)

(* Setting target_of_recv touches nothing else of the kernel.              *)
LEMMA TargetChange ==
    ASSUME NEW k, NEW out, Settled(k, out), NEW p \in Proc, Alive(k, p), NEW t \in Slot
    PROVE  Retargeted(Retarget(k, p, t), k, p, t)
  <1>0. PICK j : j = Retarget(k, p, t)
    OBVIOUS
  <1>1. IsKernel(k) /\ Lists(k) /\ Typed(k) /\ Quiet(k) /\ Pids(k) /\ p \in Slot
    BY SlotFacts DEF Settled
  <1>2. IsKernel(j) /\ j.targetOfRecv = [k.targetOfRecv EXCEPT ![p] = t]
    <2>1. IsKernel(j)
      BY <1>0, <1>1 DEF IsKernel, Retarget
    <2>2. j.targetOfRecv = [k.targetOfRecv EXCEPT ![p] = t]
      BY <1>0, <1>1 DEF IsKernel, Fields, Retarget
    <2> QED
      BY <2>1, <2>2
  <1>3. Same(j, k, Fields \ {"targetOfRecv"})
    BY <1>0, <1>1 DEF Same, IsKernel, Retarget
  <1>4. /\ j.next = k.next /\ j.readyQueue = k.readyQueue /\ j.senderQueue = k.senderQueue
        /\ j.pid = k.pid /\ j.lastPID = k.lastPID /\ j.prev = k.prev
        /\ j.sleepList = k.sleepList /\ j.waitingNext = k.waitingNext
        /\ j.sigMaskOnStack = k.sigMaskOnStack /\ j.kbd = k.kbd /\ j.fault = k.fault
        /\ j.process = k.process /\ j.state = k.state /\ j.ipcArgs = k.ipcArgs
        /\ j.waitingFor = k.waitingFor /\ j.sleepNext = k.sleepNext
        /\ j.sleepPrev = k.sleepPrev /\ j.sleepTime = k.sleepTime
        /\ j.sigMaskInstalled = k.sigMaskInstalled /\ j.sigMaskQueued = k.sigMaskQueued
        /\ j.fdTab = k.fdTab /\ j.eax = k.eax
    BY <1>3 DEF Same, Fields
  <1> HIDE DEF Fields
  <1>5. Heads(j) = Heads(k)
    BY <1>4 DEF Heads
  <1>6. j.targetOfRecv \in [Slot -> Slot \cup {EMPTY, TOMBSTONE}]
        /\ j.targetOfRecv[p] = t
        /\ \A q \in Slot : q # p => j.targetOfRecv[q] = k.targetOfRecv[q]
    BY <1>1, <1>2 DEF Typed
  <1>7. /\ \A a : On(j, a) = On(k, a)
        /\ \A q : Nowhere(j, q) <=> Nowhere(k, q)
        /\ \A q : Alive(j, q) <=> Alive(k, q)
    BY <1>4, <1>5 DEF On, Nowhere, Alive
  <1>8. Lists(j) /\ Quiet(j)
    BY <1>1, <1>4, <1>5 DEF Lists, Quiet
  <1>9. Typed(j)
    BY <1>1, <1>4, <1>6 DEF Typed
  <1>10. Pids(j)
    BY <1>1, <1>4, <1>6, <1>7, SlotFacts DEF Pids, InOrder
  <1> QED
    BY <1>0, <1>2, <1>4, <1>6, <1>7, <1>8, <1>9, <1>10 DEF Retargeted

(* rm_BlockedRecver() ends the receiving of a process.                     *)
LEMMA RmRecverSettles ==
    ASSUME NEW k, NEW out, Settled(k, out), NEW r \in Proc, Alive(k, r), k.targetOfRecv[r] # r
    PROVE  /\ Settled(RmBlockedRecver(k, r), out \cup {r})
           /\ RmBlockedRecver(k, r).ipcArgs = k.ipcArgs
  <1>1. PICK j : j = RmBlockedRecver(k, r)
    OBVIOUS
  <1>2. j = Retarget(k, r, r)
    BY <1>1 DEF RmBlockedRecver, Alive, Retarget
  <1>3. Retargeted(j, k, r, r)
    BY <1>2, TargetChange, SlotFacts
  <1>4. /\ IsKernel(j) /\ Lists(j) /\ Typed(j) /\ Quiet(j) /\ Pids(j)
        /\ j.state = k.state /\ j.ipcArgs = k.ipcArgs
        /\ j.targetOfRecv[r] = r
        /\ \A q \in Slot : q # r => j.targetOfRecv[q] = k.targetOfRecv[q]
        /\ \A a : On(j, a) = On(k, a)
        /\ \A q : Nowhere(j, q) <=> Nowhere(k, q)
        /\ \A q : Alive(j, q) <=> Alive(k, q)
    BY <1>3 DEF Retargeted
  <1>5. Nowhere(k, r) /\ r \notin out
    BY DEF Settled, Placed, ReceivingOnes
  <1>6. \A a \in Slot : On(k, a) \subseteq Slot /\ r \notin On(k, a)
    <2>1. Lists(k)
      BY DEF Settled
    <2> QED
      BY <1>5, <2>1, KernelFacts, SlotFacts DEF Nowhere, Outside, On
  <1>7. ReadyOnes(j)
    BY <1>4, <1>6, SlotFacts DEF Settled, Placed, ReadyOnes
  <1>8. SendingOnes(j)
    <2> SUFFICES ASSUME NEW q \in Proc, NEW s \in On(j, q)
                 PROVE  /\ Alive(j, q) /\ Alive(j, s)
                        /\ j.state[s] = "BLOCKED" /\ j.ipcArgs[s] # NULL /\ j.targetOfRecv[s] = s
                        /\ j.targetOfRecv[q] \notin {s, ReceiveAny}
      BY DEF SendingOnes
    <2>1. s \in On(k, q) /\ s # r /\ s \in Slot /\ q \in Slot /\ r # ReceiveAny
      BY <1>4, <1>6, SlotFacts DEF ReceiveAny, Idle
    <2>2. /\ Alive(k, q) /\ Alive(k, s)
          /\ k.state[s] = "BLOCKED" /\ k.ipcArgs[s] # NULL /\ k.targetOfRecv[s] = s
          /\ k.targetOfRecv[q] \notin {s, ReceiveAny}
      BY <2>1 DEF Settled, Placed, SendingOnes
    <2> QED
      BY <1>4, <2>1, <2>2
  <1>9. ReceivingOnes(j, out \cup {r})
    BY <1>4, SlotFacts DEF Settled, Placed, ReceivingOnes
  <1>10. OutOnes(j, out \cup {r})
    BY <1>4, <1>5, SlotFacts DEF Settled, Placed, OutOnes
  <1>11. Everybody(j, out \cup {r})
    BY <1>4, SlotFacts DEF Settled, Placed, Everybody
  <1> QED
    BY <1>1, <1>4, <1>7, <1>8, <1>9, <1>10, <1>11 DEF Settled, Placed

(* A process that blocks in recv() waits where its peers look for it.      *)
LEMMA ReceiveSettles ==
    ASSUME NEW k, NEW out, Settled(k, out), NEW p \in out,
           k.state[p] = "BLOCKED", k.ipcArgs[p] # NULL,
           NEW from \in Slot, from # p, from # ReceiveAny => Alive(k, from),
           ~IsProcSending(k, from, p)
    PROVE  Settled(Retarget(k, p, from), out \ {p})
  <1>1. PICK j : j = Retarget(k, p, from)
    OBVIOUS
  <1>2. p \in Proc /\ p \in Slot /\ Alive(k, p) /\ Nowhere(k, p) /\ k.targetOfRecv[p] = p
    BY SlotFacts DEF Settled, Placed, OutOnes
  <1>3. /\ IsKernel(j) /\ Lists(j) /\ Typed(j) /\ Quiet(j) /\ Pids(j)
        /\ j.state = k.state /\ j.ipcArgs = k.ipcArgs
        /\ j.targetOfRecv[p] = from
        /\ \A q \in Slot : q # p => j.targetOfRecv[q] = k.targetOfRecv[q]
        /\ \A a : On(j, a) = On(k, a)
        /\ \A q : Nowhere(j, q) <=> Nowhere(k, q)
        /\ \A q : Alive(j, q) <=> Alive(k, q)
    <2>1. Retargeted(j, k, p, from)
      BY <1>1, <1>2, TargetChange
    <2> QED
      BY <2>1 DEF Retargeted
  <1>4. \A a \in Slot : On(k, a) \subseteq Slot /\ p \notin On(k, a)
    <2>1. Lists(k)
      BY DEF Settled
    <2> QED
      BY <1>2, <2>1, KernelFacts, SlotFacts DEF Nowhere, Outside, On
  <1>5. \A s \in On(k, p) : from \notin {s, ReceiveAny}
    <2> SUFFICES ASSUME NEW s \in On(k, p), from \in {s, ReceiveAny} PROVE FALSE
      OBVIOUS
    <2>1. Heads(k)[p] = k.senderQueue[p] /\ Alive(k, s) /\ s \in Senders(k, p)
      BY <1>2, KernelFacts DEF Settled, Placed, SendingOnes, On, Chain, Senders
    <2>2. CASE from = ReceiveAny
      <3>1. k.senderQueue[p] = NULL
        BY <2>2 DEF IsProcSending
      <3> QED
        BY <2>1, <3>1, ReachNull DEF Senders
    <2>3. CASE from # ReceiveAny
      BY <2>1, <2>3 DEF IsProcSending, Alive
    <2> QED
      BY <2>2, <2>3
  <1>6. ReadyOnes(j)
    BY <1>3, <1>4, SlotFacts DEF Settled, Placed, ReadyOnes
  <1>7. SendingOnes(j)
    <2> SUFFICES ASSUME NEW q \in Proc, NEW s \in On(j, q)
                 PROVE  /\ Alive(j, q) /\ Alive(j, s)
                        /\ j.state[s] = "BLOCKED" /\ j.ipcArgs[s] # NULL /\ j.targetOfRecv[s] = s
                        /\ j.targetOfRecv[q] \notin {s, ReceiveAny}
      BY DEF SendingOnes
    <2>1. s \in On(k, q) /\ s # p /\ s \in Slot /\ q \in Slot
      BY <1>3, <1>4, SlotFacts
    <2>2. /\ Alive(k, q) /\ Alive(k, s)
          /\ k.state[s] = "BLOCKED" /\ k.ipcArgs[s] # NULL /\ k.targetOfRecv[s] = s
          /\ k.targetOfRecv[q] \notin {s, ReceiveAny}
      BY <2>1 DEF Settled, Placed, SendingOnes
    <2> QED
      BY <1>3, <1>5, <2>1, <2>2
  <1>8. ReceivingOnes(j, out \ {p})
    <2> SUFFICES ASSUME NEW q \in Proc, Alive(j, q), j.targetOfRecv[q] # q
                 PROVE  /\ Nowhere(j, q) /\ q \notin out \ {p}
                        /\ j.state[q] = "BLOCKED" /\ j.ipcArgs[q] # NULL
                        /\ \/ j.targetOfRecv[q] = ReceiveAny
                           \/ j.targetOfRecv[q] \in Proc /\ Alive(j, j.targetOfRecv[q])
      BY DEF ReceivingOnes
    <2>1. CASE q = p
      BY <1>2, <1>3, <2>1, SlotFacts DEF ReceiveAny, Idle
    <2>2. CASE q # p
      BY <1>3, <2>2, SlotFacts DEF Settled, Placed, ReceivingOnes
    <2> QED
      BY <2>1, <2>2
  <1>9. OutOnes(j, out \ {p})
    BY <1>3, SlotFacts DEF Settled, Placed, OutOnes
  <1>10. Everybody(j, out \ {p})
    BY <1>2, <1>3, SlotFacts DEF Settled, Placed, Everybody
  <1> QED
    BY <1>1, <1>3, <1>6, <1>7, <1>8, <1>9, <1>10 DEF Settled, Placed

-----------------------------------------------------------------------------
(* add_BlockedSender() puts a blocked process on the sender queue of a     *)
(* process that does not receive from it.                                  *)
SenderAdded(j, k, r, p) ==
    /\ IsKernel(j) /\ Same(j, k, Fields \ {"senderQueue", "next"})
    /\ IF k.senderQueue[r] = NULL
       THEN /\ j.next = k.next
            /\ j.senderQueue = [k.senderQueue EXCEPT ![r] = p]
       ELSE /\ j.senderQueue = k.senderQueue
            /\ j.next = [k.next EXCEPT ![TailOf(k.next, k.senderQueue[r])] = p, ![p] = NULL]

(* What addBlockedSender() writes.                                         *)
LEMMA AddSenderEffect ==
    ASSUME NEW k, IsKernel(k), NEW r, NEW p
    PROVE  SenderAdded(AddBlockedSender(k, r, p), k, r, p)
  <1> DEFINE j == AddBlockedSender(k, r, p)
             t == TailOf(k.next, k.senderQueue[r])
  <1>1. CASE k.senderQueue[r] = NULL
    <2>1. j = [k EXCEPT !.senderQueue[r] = p]
      BY <1>1 DEF AddBlockedSender
    <2> HIDE DEF j
    <2>2. IsKernel(j)
      BY <2>1 DEF IsKernel
    <2>3. Same(j, k, Fields \ {"senderQueue"})
      BY <2>1 DEF IsKernel, Same
    <2>4. j.senderQueue = [k.senderQueue EXCEPT ![r] = p]
      BY <2>1 DEF IsKernel, Fields
    <2>5. Same(j, k, Fields \ {"senderQueue", "next"}) /\ j.next = k.next
      BY <2>3 DEF Same, Fields
    <2> QED
      BY <1>1, <2>2, <2>4, <2>5 DEF j, SenderAdded
  <1>2. CASE k.senderQueue[r] # NULL
    <2>1. j = [k EXCEPT !.next = [@ EXCEPT ![t] = p, ![p] = NULL]]
      BY <1>2 DEF AddBlockedSender
    <2> HIDE DEF j, t
    <2>2. IsKernel(j)
      BY <2>1 DEF IsKernel
    <2>3. Same(j, k, Fields \ {"next"})
      BY <2>1 DEF IsKernel, Same
    <2>4. j.next = [k.next EXCEPT ![t] = p, ![p] = NULL]
      BY <2>1 DEF IsKernel, Fields
    <2>5. Same(j, k, Fields \ {"senderQueue", "next"}) /\ j.senderQueue = k.senderQueue
      BY <2>3 DEF Same, Fields
    <2> QED
      BY <1>2, <2>2, <2>4, <2>5 DEF j, t, SenderAdded
  <1> QED
    BY <1>1, <1>2

(* addBlockedSender() appends to one list and leaves the others alone.     *)
LEMMA AddSenderLists ==
    ASSUME NEW k, IsKernel(k), Lists(k), NEW r \in Proc, NEW p \in Proc, Nowhere(k, p)
    PROVE  /\ Lists(AddBlockedSender(k, r, p))
           /\ Joined(AddBlockedSender(k, r, p).next, Heads(AddBlockedSender(k, r, p)),
                     k.next, Heads(k), r, p)
  <1> DEFINE H == Heads(k)
             t == TailOf(k.next, k.senderQueue[r])
  <1>0. PICK j : j = AddBlockedSender(k, r, p)
    OBVIOUS
  <1>1. SenderAdded(j, k, r, p)
    BY <1>0, AddSenderEffect
  <1>2. /\ k.next \in Links /\ H \in Links /\ ListsApart(k.next, H)
        /\ p \in Slot /\ Idle \in Slot /\ r \in Slot /\ r # Idle
        /\ H[r] = k.senderQueue[r] /\ k.senderQueue \in Links /\ k.prev \in Links
    BY SlotFacts DEF Lists, ListsApart, Heads, Links
  <1>3. Outside(k.next, H, p)
    BY DEF Nowhere
  <1>4. j.readyQueue = k.readyQueue /\ j.prev = k.prev
    <2>1. Same(j, k, Fields \ {"senderQueue", "next"})
      BY <1>1 DEF SenderAdded
    <2> QED
      BY <2>1 DEF Same, Fields
  <1>5. CASE k.senderQueue[r] = NULL
    <2>1. j.next = k.next /\ j.senderQueue = [k.senderQueue EXCEPT ![r] = p]
      BY <1>1, <1>5 DEF SenderAdded
    <2>2. j.senderQueue \in Links /\ j.senderQueue[Idle] = NULL
      BY <1>2, <2>1 DEF Lists, Links
    <2>3. Heads(j) \in Links /\ HeadSet(Heads(j), H, r, p)
      BY <1>2, <1>4, <2>1 DEF Heads, HeadSet, Links
    <2>4. Joined(k.next, Heads(j), k.next, H, r, p)
      BY <1>2, <1>3, <1>5, <2>3, JoinFirst
    <2> QED
      BY <1>0, <1>2, <1>4, <2>1, <2>2, <2>4 DEF Lists, Joined
  <1>6. CASE k.senderQueue[r] # NULL
    <2>1. j.senderQueue = k.senderQueue /\ Heads(j) = H
      <3>1. j.senderQueue = k.senderQueue
        BY <1>1, <1>6 DEF SenderAdded
      <3> QED
        BY <1>4, <3>1 DEF Heads
    <2>2. t \in Proc /\ t \in Slot /\ t # p
      <3>1. t \in Chain(k.next, H, r)
        BY <1>2, <1>6, ChainEnds
      <3> QED
        BY <1>2, <1>3, <3>1, ChainInProc, SlotFacts DEF Outside
    <2>3. j.next = [k.next EXCEPT ![t] = p, ![p] = NULL]
      BY <1>1, <1>6 DEF SenderAdded
    <2> HIDE DEF t
    <2>4. j.next \in Links /\ Appended(j.next, k.next, t, p)
      BY <1>2, <2>2, <2>3 DEF Links, Appended
    <2>5. Joined(j.next, H, k.next, H, r, p)
      BY <1>2, <1>3, <1>6, <2>4, JoinBehind DEF t
    <2> QED
      BY <1>0, <1>2, <1>4, <2>1, <2>5 DEF Lists, Joined
  <1> QED
    BY <1>5, <1>6

(* A sender may be queued with a living process that does not receive from *)
(* it.                                                                     *)
LEMMA AddSenderSettles ==
    ASSUME NEW k, NEW out, Settled(k, out), NEW p \in out,
           k.state[p] = "BLOCKED", k.ipcArgs[p] # NULL,
           NEW r \in Proc, r # p, Alive(k, r), k.targetOfRecv[r] \notin {p, ReceiveAny}
    PROVE  Settled(AddBlockedSender(k, r, p), out \ {p})
  <1>1. /\ p \in Proc /\ Alive(k, p) /\ Nowhere(k, p) /\ k.targetOfRecv[p] = p
        /\ IsKernel(k) /\ Lists(k) /\ Typed(k) /\ Pids(k) /\ p \in Slot /\ p # Idle
        /\ r \in Slot /\ r # Idle
    BY SlotFacts DEF Settled, Placed, OutOnes
  <1>2. PICK j : j = AddBlockedSender(k, r, p)
    OBVIOUS
  <1>3. IsKernel(j) /\ Same(j, k, Fields \ {"senderQueue", "next"})
    BY <1>1, <1>2, AddSenderEffect DEF SenderAdded
  <1>4. Lists(j) /\ Joined(j.next, Heads(j), k.next, Heads(k), r, p)
    BY <1>1, <1>2, AddSenderLists
  <1>5. \A a \in Slot : On(j, a) = IF a = r THEN On(k, a) \cup {p} ELSE On(k, a)
    BY <1>4 DEF Joined, On
  <1>6. \A q : q # p => (Nowhere(j, q) <=> Nowhere(k, q))
    BY <1>5 DEF Nowhere, Outside, On
  <1>7. /\ j.pid = k.pid /\ j.targetOfRecv = k.targetOfRecv /\ j.ipcArgs = k.ipcArgs
        /\ j.lastPID = k.lastPID /\ j.state = k.state
    BY <1>3 DEF Same, Fields
  <1>8. \A q : Alive(j, q) <=> Alive(k, q)
    BY <1>7 DEF Alive
  <1>9. Typed(j) /\ Quiet(j)
    <2>1. Same(j, k, {"process", "state", "targetOfRecv", "ipcArgs", "waitingFor", "sleepNext", "sleepPrev",
                      "sleepTime", "sigMaskInstalled", "sigMaskQueued", "fdTab", "eax", "sleepList",
                      "waitingNext", "sigMaskOnStack", "kbd", "fault"})
      BY <1>3 DEF Same, Fields
    <2> QED
      BY <1>1, <2>1 DEF Same, Typed, Quiet, Settled
  <1>10. Pids(j)
    BY <1>1, <1>7, <1>8 DEF Pids, InOrder
  <1>11. ReadyOnes(j)
    BY <1>1, <1>5, <1>7, <1>8, SlotFacts DEF ReadyOnes, Settled, Placed
  <1>12. SendingOnes(j)
    BY <1>1, <1>5, <1>7, <1>8, SlotFacts DEF SendingOnes, Settled, Placed
  <1>13. ReceivingOnes(j, out \ {p})
    BY <1>1, <1>6, <1>7, <1>8 DEF ReceivingOnes, Settled, Placed
  <1>14. OutOnes(j, out \ {p})
    BY <1>6, <1>7, <1>8 DEF OutOnes, Settled, Placed
  <1>15. Everybody(j, out \ {p})
    BY <1>1, <1>5, <1>7, <1>8, SlotFacts DEF Everybody, Settled, Placed
  <1> QED
    BY <1>2, <1>3, <1>4, <1>9, <1>10, <1>11, <1>12, <1>13, <1>14, <1>15 DEF Settled, Placed

-----------------------------------------------------------------------------
(* rm_BlockedSender() takes a sender off the queue, whether it is the head *)
(* or in the middle, and does nothing to a process that is nowhere.        *)
SenderRemoved(j, k, r, s) ==
    /\ IsKernel(j) /\ Same(j, k, Fields \ {"senderQueue", "next"})
    /\ IF k.senderQueue[r] = s
       THEN /\ j.next = [k.next EXCEPT ![s] = NULL]
            /\ j.senderQueue = [k.senderQueue EXCEPT ![r] = k.next[s]]
       ELSE /\ j.senderQueue = k.senderQueue
            /\ \E x \in Senders(k, r) :
                  /\ k.next[x] = s
                  /\ j.next = [k.next EXCEPT ![x] = k.next[s], ![s] = NULL]

(* What rmBlockedSender() writes, when it finds the sender.                *)
LEMMA RmSenderEffect ==
    ASSUME NEW k, IsKernel(k), NEW r, NEW s,
           k.senderQueue[r] = s \/ \E x \in Senders(k, r) : k.next[x] = s
    PROVE  SenderRemoved(RmBlockedSender(k, r, s), k, r, s)
  <1> DEFINE j == RmBlockedSender(k, r, s)
             n == k.next[s]
             before == CHOOSE x \in Senders(k, r) : k.next[x] = s
  <1>1. CASE k.senderQueue[r] = s
    <2>1. j = [k EXCEPT !.senderQueue[r] = n, !.next[s] = NULL]
      BY <1>1 DEF RmBlockedSender
    <2> HIDE DEF j, n
    <2>2. IsKernel(j)
      BY <2>1 DEF IsKernel
    <2>3. Same(j, k, Fields \ {"senderQueue", "next"})
      BY <2>1 DEF IsKernel, Same
    <2>4. j.senderQueue = [k.senderQueue EXCEPT ![r] = n] /\ j.next = [k.next EXCEPT ![s] = NULL]
      BY <2>1 DEF IsKernel, Fields
    <2> QED
      BY <1>1, <2>2, <2>3, <2>4 DEF j, n, SenderRemoved
  <1>2. CASE k.senderQueue[r] # s
    <2>1. before \in Senders(k, r) /\ k.next[before] = s
      BY <1>2
    <2>2. j = [k EXCEPT !.next = [@ EXCEPT ![before] = n, ![s] = NULL]]
      BY <1>2 DEF RmBlockedSender
    <2> HIDE DEF j, n, before
    <2>3. IsKernel(j)
      BY <2>2 DEF IsKernel
    <2>4. Same(j, k, Fields \ {"next"})
      BY <2>2 DEF IsKernel, Same
    <2>5. j.next = [k.next EXCEPT ![before] = n, ![s] = NULL]
      BY <2>2 DEF IsKernel, Fields
    <2>6. Same(j, k, Fields \ {"senderQueue", "next"}) /\ j.senderQueue = k.senderQueue
      BY <2>4 DEF Same, Fields
    <2> QED
      BY <1>2, <2>1, <2>3, <2>5, <2>6 DEF j, n, SenderRemoved
  <1> QED
    BY <1>1, <1>2

(* rmBlockedSender() unlinks from one list and leaves the others alone.    *)
LEMMA RmSenderLists ==
    ASSUME NEW k, IsKernel(k), Lists(k), NEW r \in Proc, NEW s \in On(k, r)
    PROVE  /\ SenderRemoved(RmBlockedSender(k, r, s), k, r, s)
           /\ Lists(RmBlockedSender(k, r, s))
           /\ Left(RmBlockedSender(k, r, s).next, Heads(RmBlockedSender(k, r, s)),
                   k.next, Heads(k), s)
  <1> DEFINE H == Heads(k)
  <1>1. /\ k.next \in Links /\ H \in Links /\ ListsApart(k.next, H)
        /\ Idle \in Slot /\ r \in Slot /\ r # Idle
        /\ H[r] = k.senderQueue[r] /\ k.senderQueue \in Links /\ k.prev \in Links
        /\ s \in Chain(k.next, H, r)
    BY SlotFacts DEF Lists, ListsApart, Heads, Links, On
  <1>2. s \in Proc /\ s \in Slot /\ s # Idle /\ H[r] \in Proc
    <2>1. s \in Proc /\ s \in Slot /\ s # Idle
      BY <1>1, ChainInProc, SlotFacts
    <2>2. H[r] # NULL
      BY <1>1, ReachNull DEF Chain
    <2> QED
      BY <1>1, <2>1, <2>2, ChainInProc
  <1>3. k.senderQueue[r] = s \/ \E x \in Senders(k, r) : k.next[x] = s
    BY <1>1, <1>2, InnerIsLinked DEF Senders, Chain
  <1>4. PICK j : j = RmBlockedSender(k, r, s)
    OBVIOUS
  <1>5. SenderRemoved(j, k, r, s)
    BY <1>3, <1>4, RmSenderEffect
  <1>6. j.readyQueue = k.readyQueue /\ j.prev = k.prev
    BY <1>5 DEF SenderRemoved, Same, Fields
  <1>7. k.next[s] \in Proc \cup {NULL}
    BY <1>1, <1>2 DEF Links
  <1>8. CASE k.senderQueue[r] = s
    <2>1. j.next = [k.next EXCEPT ![s] = NULL] /\ j.senderQueue = [k.senderQueue EXCEPT ![r] = k.next[s]]
      BY <1>5, <1>8 DEF SenderRemoved
    <2>2. j.next \in Links /\ HeadTaken(j.next, k.next, s)
      BY <1>1, <2>1 DEF HeadTaken, Links
    <2>3. j.senderQueue \in Links /\ j.senderQueue[Idle] = NULL
      BY <1>1, <1>7, <2>1 DEF Lists, Links
    <2>4. Heads(j) \in Links /\ HeadSet(Heads(j), H, r, k.next[s])
      BY <1>1, <1>6, <1>7, <2>1 DEF Heads, HeadSet, Links
    <2>5. Left(j.next, Heads(j), k.next, H, s)
      BY <1>1, <1>2, <1>8, <2>2, <2>4, LeaveHead
    <2> QED
      BY <1>4, <1>5, <1>6, <1>1, <2>3, <2>5 DEF Lists, Left
  <1>9. CASE k.senderQueue[r] # s
    <2>1. PICK x \in Senders(k, r) : k.next[x] = s /\ j.next = [k.next EXCEPT ![x] = k.next[s], ![s] = NULL]
      BY <1>5, <1>9 DEF SenderRemoved
    <2>2. j.senderQueue = k.senderQueue /\ Heads(j) = H
      BY <1>5, <1>6, <1>9 DEF SenderRemoved, Heads
    <2>3. x \in Chain(k.next, H, r) /\ x \in Slot
      BY <1>1, ReachInSlot DEF Senders, Chain
    <2>4. j.next \in Links /\ Unlinked(j.next, k.next, x, s)
      BY <1>1, <1>2, <1>7, <2>1, <2>3 DEF Links, Unlinked
    <2>5. Left(j.next, H, k.next, H, s)
      BY <1>1, <1>9, <2>1, <2>3, <2>4, LeaveInner
    <2> QED
      BY <1>4, <1>5, <1>6, <1>1, <2>2, <2>5 DEF Lists, Left
  <1> QED
    BY <1>8, <1>9

(* A sender that rmBlockedSender() unlinks is in no place any more.        *)
LEMMA RmSenderSettles ==
    ASSUME NEW k, NEW out, Settled(k, out), NEW r \in Proc, NEW s \in On(k, r)
    PROVE  /\ Settled(RmBlockedSender(k, r, s), out \cup {s})
           /\ SenderRemoved(RmBlockedSender(k, r, s), k, r, s)
           /\ \A b \in Slot : On(RmBlockedSender(k, r, s), b) = On(k, b) \ {s}
  <1>1. IsKernel(k) /\ Lists(k) /\ Typed(k) /\ r \in Slot
    BY SlotFacts DEF Settled
  <1>2. PICK j : j = RmBlockedSender(k, r, s)
    OBVIOUS
  <1>3. SenderRemoved(j, k, r, s) /\ Lists(j) /\ Left(j.next, Heads(j), k.next, Heads(k), s)
    BY <1>1, <1>2, RmSenderLists
  <1>4. IsKernel(j) /\ Same(j, k, Fields \ {"senderQueue", "next"})
    BY <1>3 DEF SenderRemoved
  <1>5. Typed(j) /\ j.state = k.state /\ j.ipcArgs = k.ipcArgs
    <2>1. Same(j, k, {"process", "state", "targetOfRecv", "ipcArgs", "waitingFor", "sleepNext", "sleepPrev",
                      "sleepTime", "sigMaskInstalled", "sigMaskQueued", "fdTab", "eax"})
      BY <1>4 DEF Same, Fields
    <2> QED
      BY <1>1, <2>1 DEF Same, Typed
  <1>6. Same(j, k, Fields \ {"readyQueue", "senderQueue", "next", "prev",
                             "process", "state", "ipcArgs", "eax"})
    BY <1>4 DEF Same
  <1>7. \A q \in Proc : q # s /\ q \notin out => j.state[q] = k.state[q] /\ j.ipcArgs[q] = k.ipcArgs[q]
    BY <1>5
  <1>8. Settled(j, out \cup {s})
    BY <1>1, <1>3, <1>4, <1>5, <1>6, <1>7, LeavingSettles
  <1>9. \A b \in Slot : On(j, b) = On(k, b) \ {s}
    BY <1>3 DEF Left, On
  <1> QED
    BY <1>2, <1>3, <1>8, <1>9

(* rmBlockedSender() does nothing with a process that is in no list.       *)
LEMMA RmSenderNowhere ==
    ASSUME NEW k, Lists(k), NEW r \in Proc, NEW s \in Proc, Nowhere(k, s)
    PROVE  RmBlockedSender(k, r, s) = k
  <1>1. /\ ListsApart(k.next, Heads(k)) /\ Outside(k.next, Heads(k), s) /\ r \in Slot
        /\ Heads(k)[r] = k.senderQueue[r]
    BY SlotFacts DEF Lists, Nowhere, Heads, Links
  <1>2. k.senderQueue[r] # s /\ \A x \in Slot : k.next[x] # s
    BY <1>1, OutsideIsLoose
  <1>3. Senders(k, r) \subseteq Slot
    BY ReachInSlot DEF Senders
  <1> QED
    BY <1>2, <1>3 DEF RmBlockedSender

-----------------------------------------------------------------------------
(* A new process has never been in any list.                               *)
NewPcbMade(j, k, p) ==
    /\ IsKernel(j)
    /\ Same(j, k, {"readyQueue", "process", "prev", "state", "sleepList", "kbd", "eax", "fault"})
    /\ j.lastPID = p + 1
    /\ j.pid = [k.pid EXCEPT ![p] = p]
    /\ j.targetOfRecv = [k.targetOfRecv EXCEPT ![p] = p]
    /\ j.next = [k.next EXCEPT ![p] = NULL]
    /\ j.sleepNext = [k.sleepNext EXCEPT ![p] = NULL]
    /\ j.sleepPrev = [k.sleepPrev EXCEPT ![p] = NULL]
    /\ j.waitingNext = [k.waitingNext EXCEPT ![p] = NULL]
    /\ j.senderQueue = [k.senderQueue EXCEPT ![p] = NULL]
    /\ j.sleepTime = [k.sleepTime EXCEPT ![p] = 0]
    /\ j.waitingFor = [k.waitingFor EXCEPT ![p] = 0]
    /\ j.ipcArgs = [k.ipcArgs EXCEPT ![p] = NULL]
    /\ j.sigMaskInstalled = [k.sigMaskInstalled EXCEPT ![p] = {SysStop}]
    /\ j.sigMaskOnStack = [k.sigMaskOnStack EXCEPT ![p] = {}]
    /\ j.sigMaskQueued = [k.sigMaskQueued EXCEPT ![p] = {}]
    /\ j.fdTab = [k.fdTab EXCEPT ![p] = NoDescriptors]

(* create() fills in a PCB and makes it ready.                             *)
LEMMA CreateEffect ==
    ASSUME NEW k, IsKernel(k)
    PROVE  \E j : Create(k) = Ready(j, k.lastPID) /\ NewPcbMade(j, k, k.lastPID)
  <1> DEFINE p == k.lastPID
             Set(f, v) == [f EXCEPT ![p] = v]
             v1 == Set(k.pid, p)
             v2 == Set(k.next, NULL)
             v3 == Set(k.sleepNext, NULL)
             v4 == Set(k.sleepPrev, NULL)
             v5 == Set(k.sleepTime, 0)
             v6 == Set(k.waitingFor, 0)
             v7 == Set(k.waitingNext, NULL)
             v8 == Set(k.ipcArgs, NULL)
             v9 == Set(k.targetOfRecv, p)
             v10 == Set(k.senderQueue, NULL)
             v11 == Set(k.sigMaskInstalled, {SysStop})
             v12 == Set(k.sigMaskOnStack, {})
             v13 == Set(k.sigMaskQueued, {})
             v14 == Set(k.fdTab, NoDescriptors)
             v15 == p + 1
  <1>1. PICK j :
        j = [k EXCEPT !.pid = v1, !.lastPID = v15, !.next = v2, !.sleepNext = v3, !.sleepPrev = v4,
                      !.sleepTime = v5, !.waitingFor = v6, !.waitingNext = v7, !.ipcArgs = v8,
                      !.targetOfRecv = v9, !.senderQueue = v10, !.sigMaskInstalled = v11,
                      !.sigMaskOnStack = v12, !.sigMaskQueued = v13, !.fdTab = v14]
    OBVIOUS
  <1>2. Create(k) = Ready(j, p)
    BY <1>1 DEF Create
  <1> HIDE DEF v1, v2, v3, v4, v5, v6, v7, v8, v9, v10, v11, v12, v13, v14, v15
  <1>4. IsKernel(j)
    BY <1>1 DEF IsKernel
  <1>5. Same(j, k, {"readyQueue", "process", "prev", "state", "sleepList", "kbd", "eax", "fault"})
    BY <1>1 DEF IsKernel, Same, Fields
  <1>6. /\ j.pid = v1 /\ j.lastPID = v15 /\ j.next = v2 /\ j.sleepNext = v3 /\ j.sleepPrev = v4
        /\ j.sleepTime = v5 /\ j.waitingFor = v6 /\ j.waitingNext = v7 /\ j.ipcArgs = v8
        /\ j.targetOfRecv = v9 /\ j.senderQueue = v10 /\ j.sigMaskInstalled = v11
        /\ j.sigMaskOnStack = v12 /\ j.sigMaskQueued = v13 /\ j.fdTab = v14
    BY <1>1 DEF IsKernel, Fields
  <1>7. NewPcbMade(j, k, p)
    BY <1>4, <1>5, <1>6
       DEF NewPcbMade, v1, v2, v3, v4, v5, v6, v7, v8, v9, v10, v11, v12, v13, v14, v15
  <1> QED
    BY <1>2, <1>7

(* create() adds a ready process and keeps the others where they are.      *)
LEMMA CreateSettles ==
    ASSUME NEW k, NEW out,
           IsKernel(k), Lists(k), Typed(k), Quiet(k), InOrder(k), Placed(k, out), k.lastPID \in Proc
    PROVE  /\ Settled(Create(k), out) /\ Create(k).process = k.process
           /\ \A q \in out : Create(k).state[q] = k.state[q]
  <1> DEFINE p == k.lastPID
  <1>1. PICK j : Create(k) = Ready(j, p) /\ NewPcbMade(j, k, p)
    BY CreateEffect
  <1> HIDE DEF p
  <1>2. p \in Proc /\ p \in Slot /\ p # Idle /\ p # NULL /\ Idle \in Slot /\ k.pid[p] = EMPTY /\ EMPTY \notin Slot
    BY SlotFacts, MaxPidAssumption DEF p, InOrder, EMPTY, Slot, Proc
  <1>3. /\ ~Alive(k, p)
        /\ k.next \in Links /\ Heads(k) \in Links /\ ListsApart(k.next, Heads(k))
        /\ k.senderQueue \in Links /\ Heads(k)[p] = k.senderQueue[p]
    BY <1>2 DEF Alive, Lists, ListsApart, Heads, Links
  <1>4. \A a \in Slot : On(k, a) \subseteq Proc
    BY <1>3, ChainInProc DEF On
  <1>5. Nowhere(k, p) /\ On(k, p) = {}
    <2>1. p \notin On(k, Idle)
      BY <1>3 DEF Placed, ReadyOnes
    <2>2. \A r \in Proc : p \notin On(k, r)
      BY <1>3 DEF Placed, SendingOnes
    <2>3. On(k, p) = {}
      BY <1>2, <1>3 DEF Placed, SendingOnes
    <2> QED
      BY <2>1, <2>2, <2>3, SlotFacts DEF Nowhere, Outside, On
  <1>6. j.next = k.next /\ j.senderQueue = k.senderQueue
    <2>1. k.next[p] = NULL
      BY <1>2, <1>3, <1>5, OutsideIsLoose DEF Nowhere
    <2>2. k.senderQueue[p] = NULL
      <3>1. k.senderQueue[p] # NULL => k.senderQueue[p] \in Slot
        BY <1>2, <1>3, SlotFacts DEF Links
      <3> QED
        BY <1>3, <1>5, <3>1, ReachHead DEF On, Chain
    <2> QED
      BY <1>1, <1>2, <1>3, <2>1, <2>2 DEF NewPcbMade, Links
  <1>7. /\ IsKernel(j) /\ j.lastPID = p + 1
        /\ j.readyQueue = k.readyQueue /\ j.process = k.process /\ j.prev = k.prev /\ j.state = k.state
        /\ j.sleepList = k.sleepList /\ j.kbd = k.kbd /\ j.eax = k.eax /\ j.fault = k.fault
    BY <1>1 DEF NewPcbMade, Same
  <1>8. Heads(j) = Heads(k)
    BY <1>6, <1>7 DEF Heads
  <1>9. /\ \A a : On(j, a) = On(k, a)
        /\ \A q : Nowhere(j, q) <=> Nowhere(k, q)
    BY <1>6, <1>8 DEF On, Nowhere
  <1>10. /\ j.pid \in [Slot -> Slot \cup {EMPTY, TOMBSTONE}]
         /\ j.pid[p] = p /\ \A q \in Slot : q # p => j.pid[q] = k.pid[q]
    BY <1>1, <1>2 DEF NewPcbMade, InOrder
  <1>11. /\ j.targetOfRecv \in [Slot -> Slot \cup {EMPTY, TOMBSTONE}]
         /\ j.targetOfRecv[p] = p /\ \A q \in Slot : q # p => j.targetOfRecv[q] = k.targetOfRecv[q]
    BY <1>1, <1>2 DEF NewPcbMade, Typed
  <1>12. /\ j.ipcArgs \in [Slot -> Buffers \cup {NULL}]
         /\ \A q \in Slot : q # p => j.ipcArgs[q] = k.ipcArgs[q]
    BY <1>1, <1>2 DEF NewPcbMade, Typed
  <1>13. /\ Alive(j, p)
         /\ \A q \in Slot : q # p => (Alive(j, q) <=> Alive(k, q))
    BY <1>10 DEF Alive
  <1>14. Lists(j)
    BY <1>6, <1>7, <1>8 DEF Lists
  <1>15. Quiet(j)
    <2>1. j.waitingNext = [x \in Slot |-> NULL]
      BY <1>1, <1>2 DEF NewPcbMade, Quiet
    <2>2. j.sigMaskOnStack = [x \in Slot |-> {}]
      BY <1>1, <1>2 DEF NewPcbMade, Quiet
    <2> QED
      BY <1>7, <2>1, <2>2 DEF Quiet
  <1>16. Typed(j)
    <2>1. j.sleepNext \in Links /\ j.sleepPrev \in Links
      <3>1. /\ j.sleepNext = [k.sleepNext EXCEPT ![p] = NULL] /\ k.sleepNext \in Links
            /\ j.sleepPrev = [k.sleepPrev EXCEPT ![p] = NULL] /\ k.sleepPrev \in Links
        BY <1>1 DEF NewPcbMade, Typed
      <3> QED
        BY <3>1 DEF Links
    <2>2. j.waitingFor \in [Slot -> Slot] /\ j.sleepTime \in [Slot -> Int]
      <3>1. j.waitingFor = [k.waitingFor EXCEPT ![p] = 0] /\ k.waitingFor \in [Slot -> Slot]
        BY <1>1 DEF NewPcbMade, Typed
      <3>2. 0 \in Slot
        BY <1>2 DEF Idle
      <3>3. j.waitingFor \in [Slot -> Slot]
        BY <3>1, <3>2
      <3>4. j.sleepTime = [k.sleepTime EXCEPT ![p] = 0] /\ k.sleepTime \in [Slot -> Int]
        BY <1>1 DEF NewPcbMade, Typed
      <3>5. j.sleepTime \in [Slot -> Int]
        BY <1>2, <3>4
      <3> QED
        BY <3>3, <3>5
    <2>3. /\ j.sigMaskInstalled \in [Slot -> SUBSET Signals]
          /\ j.sigMaskQueued \in [Slot -> SUBSET Signals]
      <3>1. /\ j.sigMaskInstalled = [k.sigMaskInstalled EXCEPT ![p] = {SysStop}]
            /\ k.sigMaskInstalled \in [Slot -> SUBSET Signals]
            /\ j.sigMaskQueued = [k.sigMaskQueued EXCEPT ![p] = {}]
            /\ k.sigMaskQueued \in [Slot -> SUBSET Signals]
        BY <1>1 DEF NewPcbMade, Typed
      <3>2. PICK sets : sets = SUBSET Signals
        OBVIOUS
      <3>3. {SysStop} \in sets /\ {} \in sets
        BY <3>2 DEF SysStop, Signals
      <3>4. j.sigMaskInstalled \in [Slot -> sets] /\ j.sigMaskQueued \in [Slot -> sets]
        BY <3>1, <3>2, <3>3
      <3> QED
        BY <3>2, <3>4
    <2>4. j.fdTab \in [Slot -> [DOMAIN NoDescriptors -> 0..(DTAB_SIZE - 1) \cup {NULL}]]
      <3>1. NoDescriptors \in [DOMAIN NoDescriptors -> 0..(DTAB_SIZE - 1) \cup {NULL}]
        BY DEF NoDescriptors
      <3>2. /\ j.fdTab = [k.fdTab EXCEPT ![p] = NoDescriptors]
            /\ k.fdTab \in [Slot -> [DOMAIN NoDescriptors -> 0..(DTAB_SIZE - 1) \cup {NULL}]]
        BY <1>1 DEF NewPcbMade, Typed
      <3> QED
        BY <3>1, <3>2
    <2> QED
      BY <1>7, <1>11, <1>12, <2>1, <2>2, <2>3, <2>4 DEF Typed
  <1>17. Pids(j)
    <2>1. j.lastPID \in 2..(MaxPid + 1)
      BY <1>2, <1>7, MaxPidAssumption DEF Proc
    <2>2. \A x \in Slot : IF x < j.lastPID THEN j.pid[x] \in {x, TOMBSTONE} ELSE j.pid[x] = EMPTY
      BY <1>2, <1>7, <1>10, MaxPidAssumption DEF InOrder, Slot, Proc, p
    <2>3. \A x \in Proc : ~Alive(j, x) => j.targetOfRecv[x] \in {x, EMPTY}
      BY <1>11, <1>13, SlotFacts DEF InOrder
    <2>4. j.pid[Idle] = Idle /\ j.targetOfRecv[Idle] = Idle
      BY <1>2, <1>10, <1>11 DEF InOrder
    <2> QED
      BY <1>10, <2>1, <2>2, <2>3, <2>4 DEF Pids, InOrder
  <1>18. p \notin out
    BY <1>3 DEF Placed, OutOnes
  <1>19. ReadyOnes(j)
    BY <1>4, <1>5, <1>7, <1>9, <1>11, <1>13, SlotFacts DEF Placed, ReadyOnes, Nowhere, Outside, On
  <1>20. SendingOnes(j)
    <2> SUFFICES ASSUME NEW r \in Proc, NEW s \in On(j, r)
                 PROVE  /\ Alive(j, r) /\ Alive(j, s)
                        /\ j.state[s] = "BLOCKED" /\ j.ipcArgs[s] # NULL /\ j.targetOfRecv[s] = s
                        /\ j.targetOfRecv[r] \notin {s, ReceiveAny}
      BY DEF SendingOnes
    <2>1. s \in On(k, r) /\ s # p /\ s \in Slot /\ r \in Slot /\ r # p
      BY <1>4, <1>5, <1>9, SlotFacts DEF Nowhere, Outside, On
    <2>2. /\ Alive(k, r) /\ Alive(k, s)
          /\ k.state[s] = "BLOCKED" /\ k.ipcArgs[s] # NULL /\ k.targetOfRecv[s] = s
          /\ k.targetOfRecv[r] \notin {s, ReceiveAny}
      BY <2>1 DEF Placed, SendingOnes
    <2> QED
      BY <1>7, <1>11, <1>12, <1>13, <2>1, <2>2
  <1>21. ReceivingOnes(j, out \cup {p})
    <2> SUFFICES ASSUME NEW q \in Proc, Alive(j, q), j.targetOfRecv[q] # q
                 PROVE  /\ Nowhere(j, q) /\ q \notin out \cup {p}
                        /\ j.state[q] = "BLOCKED" /\ j.ipcArgs[q] # NULL
                        /\ \/ j.targetOfRecv[q] = ReceiveAny
                           \/ j.targetOfRecv[q] \in Proc /\ Alive(j, j.targetOfRecv[q])
      BY DEF ReceivingOnes
    <2>1. q # p /\ q \in Slot
      BY <1>11, SlotFacts
    <2>2. Alive(k, q) /\ k.targetOfRecv[q] = j.targetOfRecv[q]
      BY <1>11, <1>13, <2>1
    <2>3. /\ Nowhere(k, q) /\ q \notin out
          /\ k.state[q] = "BLOCKED" /\ k.ipcArgs[q] # NULL
          /\ \/ k.targetOfRecv[q] = ReceiveAny
             \/ k.targetOfRecv[q] \in Proc /\ Alive(k, k.targetOfRecv[q])
      BY <2>2 DEF Placed, ReceivingOnes
    <2> QED
      BY <1>7, <1>9, <1>12, <1>13, <2>1, <2>2, <2>3, SlotFacts
  <1>22. OutOnes(j, out \cup {p})
    BY <1>2, <1>5, <1>9, <1>11, <1>13, SlotFacts DEF Placed, OutOnes
  <1>23. Everybody(j, out \cup {p})
    BY <1>9, <1>11, <1>13, SlotFacts DEF Placed, Everybody
  <1>24. Settled(j, out \cup {p})
    BY <1>7, <1>14, <1>15, <1>16, <1>17, <1>19, <1>20, <1>21, <1>22, <1>23 DEF Settled, Placed
  <1>25. Settled(Ready(j, p), (out \cup {p}) \ {p})
    BY <1>24, ReadySettles
  <1>26. (out \cup {p}) \ {p} = out
    BY <1>18
  <1>27. Ready(j, p).process = j.process /\ \A q \in out : Ready(j, p).state[q] = j.state[q]
    <2>1. /\ Same(Ready(j, p), j, Fields \ {"readyQueue", "next", "prev", "state"})
          /\ Ready(j, p).state = [j.state EXCEPT ![p] = "READY"]
      BY <1>2, <1>7, ReadyEffect
    <2>2. \A q \in out : q \in Slot /\ q # p
      BY <1>18, SlotFacts DEF Placed, OutOnes
    <2>3. Ready(j, p).process = j.process
      BY <2>1 DEF Same, Fields
    <2> QED
      BY <1>16, <2>1, <2>2, <2>3 DEF Typed
  <1> QED
    BY <1>1, <1>7, <1>25, <1>26, <1>27

-----------------------------------------------------------------------------
(* The table without the process that stopped.                             *)
Buried(k, p) == [k EXCEPT !.pid[p] = TOMBSTONE]

(* removeProcess(): nobody is blocked on a process that is taken out.      *)
LEMMA BuriedSettles ==
    ASSUME NEW k, NEW out, Settled(k, out), NEW p \in out, On(k, p) = {},
           \A q \in Proc : Alive(k, q) /\ q # p => k.targetOfRecv[q] # p
    PROVE  /\ Settled(Buried(k, p), out \ {p})
           /\ IsKernel(Buried(k, p)) /\ Same(Buried(k, p), k, Fields \ {"pid"})
           /\ Buried(k, p).pid = [k.pid EXCEPT ![p] = TOMBSTONE]
  <1>1. /\ IsKernel(k) /\ Lists(k) /\ Typed(k) /\ Quiet(k) /\ Pids(k)
        /\ p \in Proc /\ p \in Slot /\ p # Idle /\ Nowhere(k, p) /\ k.targetOfRecv[p] = p
        /\ k.pid[p] = p /\ TOMBSTONE # p /\ TOMBSTONE # EMPTY
    BY SlotFacts, MaxPidAssumption DEF Settled, Placed, OutOnes, Alive, Proc, TOMBSTONE, EMPTY
  <1>2. PICK j : j = Buried(k, p)
    OBVIOUS
  <1>3. IsKernel(j) /\ j.pid = [k.pid EXCEPT ![p] = TOMBSTONE]
    <2>1. IsKernel(j)
      BY <1>1, <1>2 DEF Buried, IsKernel
    <2>2. j.pid = [k.pid EXCEPT ![p] = TOMBSTONE]
      BY <1>1, <1>2 DEF Buried, IsKernel, Fields
    <2> QED
      BY <2>1, <2>2
  <1>4. Same(j, k, Fields \ {"pid"})
    BY <1>1, <1>2 DEF Buried, IsKernel, Same
  <1>5. /\ j.next = k.next /\ j.readyQueue = k.readyQueue /\ j.senderQueue = k.senderQueue
        /\ j.lastPID = k.lastPID /\ j.prev = k.prev /\ j.targetOfRecv = k.targetOfRecv
        /\ j.sleepList = k.sleepList /\ j.waitingNext = k.waitingNext
        /\ j.sigMaskOnStack = k.sigMaskOnStack /\ j.kbd = k.kbd /\ j.fault = k.fault
        /\ j.process = k.process /\ j.state = k.state /\ j.ipcArgs = k.ipcArgs
        /\ j.waitingFor = k.waitingFor /\ j.sleepNext = k.sleepNext
        /\ j.sleepPrev = k.sleepPrev /\ j.sleepTime = k.sleepTime
        /\ j.sigMaskInstalled = k.sigMaskInstalled /\ j.sigMaskQueued = k.sigMaskQueued
        /\ j.fdTab = k.fdTab /\ j.eax = k.eax
    BY <1>4 DEF Same, Fields
  <1> HIDE DEF Fields
  <1>6. Heads(j) = Heads(k)
    BY <1>5 DEF Heads
  <1>7. /\ \A a : On(j, a) = On(k, a)
        /\ \A q : Nowhere(j, q) <=> Nowhere(k, q)
    BY <1>5, <1>6 DEF On, Nowhere
  <1>8. /\ j.pid \in [Slot -> Slot \cup {EMPTY, TOMBSTONE}]
        /\ j.pid[p] = TOMBSTONE
        /\ \A q \in Slot : q # p => j.pid[q] = k.pid[q]
    BY <1>1, <1>3 DEF Pids, InOrder
  <1>9. ~Alive(j, p) /\ \A q \in Slot : q # p => (Alive(j, q) <=> Alive(k, q))
    BY <1>1, <1>8 DEF Alive
  <1>10. Lists(j) /\ Quiet(j) /\ Typed(j)
    <2>1. Lists(j) /\ Quiet(j)
      BY <1>1, <1>5, <1>6 DEF Lists, Quiet
    <2>2. Typed(j)
      BY <1>1, <1>5 DEF Typed
    <2> QED
      BY <2>1, <2>2
  <1>11. Pids(j)
    <2>1. j.lastPID \in 2..(MaxPid + 1) /\ j.pid[Idle] = Idle /\ j.targetOfRecv[Idle] = Idle
      BY <1>1, <1>5, <1>8, SlotFacts DEF Pids, InOrder
    <2>2. \A x \in Slot : IF x < j.lastPID THEN j.pid[x] \in {x, TOMBSTONE} ELSE j.pid[x] = EMPTY
      <3> SUFFICES ASSUME NEW x \in Slot
                   PROVE  IF x < j.lastPID THEN j.pid[x] \in {x, TOMBSTONE} ELSE j.pid[x] = EMPTY
        OBVIOUS
      <3>1. IF x < k.lastPID THEN k.pid[x] \in {x, TOMBSTONE} ELSE k.pid[x] = EMPTY
        BY <1>1 DEF Pids, InOrder
      <3>2. p # EMPTY
        BY <1>1, MaxPidAssumption DEF Proc, EMPTY
      <3>3. CASE x = p
        BY <1>1, <1>5, <1>8, <3>1, <3>2, <3>3
      <3>4. CASE x # p
        BY <1>5, <1>8, <3>1, <3>4
      <3> QED
        BY <3>3, <3>4
    <2>3. \A x \in Proc : ~Alive(j, x) => j.targetOfRecv[x] \in {x, EMPTY}
      BY <1>1, <1>5, <1>9, SlotFacts DEF Pids, InOrder
    <2> QED
      BY <1>8, <2>1, <2>2, <2>3 DEF Pids, InOrder
  <1>12. \A a \in Slot : On(k, a) \subseteq Slot /\ p \notin On(k, a)
    BY <1>1, KernelFacts, SlotFacts DEF Nowhere, Outside, On
  <1>13. ReadyOnes(j)
    BY <1>5, <1>7, <1>9, <1>12, SlotFacts DEF Settled, Placed, ReadyOnes
  <1>14. SendingOnes(j)
    <2> SUFFICES ASSUME NEW r \in Proc, NEW s \in On(j, r)
                 PROVE  /\ Alive(j, r) /\ Alive(j, s)
                        /\ j.state[s] = "BLOCKED" /\ j.ipcArgs[s] # NULL /\ j.targetOfRecv[s] = s
                        /\ j.targetOfRecv[r] \notin {s, ReceiveAny}
      BY DEF SendingOnes
    <2>1. s \in On(k, r) /\ s # p /\ s \in Slot /\ r \in Slot /\ r # p
      BY <1>7, <1>12, SlotFacts
    <2>2. /\ Alive(k, r) /\ Alive(k, s)
          /\ k.state[s] = "BLOCKED" /\ k.ipcArgs[s] # NULL /\ k.targetOfRecv[s] = s
          /\ k.targetOfRecv[r] \notin {s, ReceiveAny}
      BY <2>1 DEF Settled, Placed, SendingOnes
    <2> QED
      BY <1>5, <1>9, <2>1, <2>2
  <1>15. ReceivingOnes(j, out \ {p})
    <2> SUFFICES ASSUME NEW q \in Proc, Alive(j, q), j.targetOfRecv[q] # q
                 PROVE  /\ Nowhere(j, q) /\ q \notin out \ {p}
                        /\ j.state[q] = "BLOCKED" /\ j.ipcArgs[q] # NULL
                        /\ \/ j.targetOfRecv[q] = ReceiveAny
                           \/ j.targetOfRecv[q] \in Proc /\ Alive(j, j.targetOfRecv[q])
      BY DEF ReceivingOnes
    <2>1. q # p /\ q \in Slot /\ Alive(k, q) /\ k.targetOfRecv[q] # q /\ k.targetOfRecv[q] # p
      BY <1>5, <1>9, SlotFacts
    <2>2. /\ Nowhere(k, q) /\ q \notin out
          /\ k.state[q] = "BLOCKED" /\ k.ipcArgs[q] # NULL
          /\ \/ k.targetOfRecv[q] = ReceiveAny
             \/ k.targetOfRecv[q] \in Proc /\ Alive(k, k.targetOfRecv[q])
      BY <2>1 DEF Settled, Placed, ReceivingOnes
    <2> QED
      BY <1>5, <1>7, <1>9, <2>1, <2>2, SlotFacts
  <1>16. OutOnes(j, out \ {p})
    BY <1>1, <1>5, <1>7, <1>9, SlotFacts DEF Settled, Placed, OutOnes
  <1>17. Everybody(j, out \ {p})
    <2> SUFFICES ASSUME NEW q \in Proc, Alive(j, q)
                 PROVE  q \in out \ {p} \/ j.targetOfRecv[q] # q \/ \E a \in Slot : q \in On(j, a)
      BY DEF Everybody
    <2>1. q # p /\ Alive(k, q)
      BY <1>9, SlotFacts
    <2>2. q \in out \/ k.targetOfRecv[q] # q \/ \E a \in Slot : q \in On(k, a)
      BY <2>1 DEF Settled, Placed, Everybody
    <2> QED
      BY <1>5, <1>7, <2>1, <2>2
  <1> QED
    BY <1>2, <1>3, <1>4, <1>10, <1>11, <1>13, <1>14, <1>15, <1>16, <1>17 DEF Settled, Placed

-----------------------------------------------------------------------------
(* What a function leaves alone.  Those that wait for characters and those *)
(* that sleep are in no list of `next', so that whoever does not write     *)
(* their states, the keyboard or the sleep list keeps them.                *)
LEMMA AsideIs ==
    ASSUME NEW k, NEW out, NEW aside, Sound(k, out, aside)
    PROVE  /\ aside.reading = Reading(k) /\ aside.asleep = Sleepers(k)
           /\ Away(aside) = Reading(k) \cup Sleepers(k)
           /\ Sleepers(k) \subseteq Proc /\ k.sleepNext \in Links
           /\ IsKernel(k) /\ Lists(k) /\ Typed(k) /\ Quiet(k) /\ Pids(k)
           /\ Placed(k, out \cup Away(aside))
  <1>1. aside.reading = Reading(k) /\ aside.asleep = Sleepers(k)
    BY DEF Sound, Aside
  <1>2. k.sleepNext \in Links /\ k.sleepList \in Proc \cup {NULL}
    BY DEF Sound, Nap, ListsApart
  <1>3. Sleepers(k) \subseteq Proc
    BY <1>2, ReachInProc DEF Sleepers
  <1> QED
    BY <1>1, <1>2, <1>3 DEF Sound, Settled, Away

(* The keyboard is in order for as long as nobody touches it.              *)
LEMMA ConsoleSame ==
    ASSUME NEW k, Console(k), NEW j, j.kbd = k.kbd, Reading(j) \subseteq Reading(k),
           \A p, fd : Owns(j, p, fd) <=> Owns(k, p, fd)
    PROVE  Console(j)
  <1>1. OneOwner(j)
    BY DEF Console, OneOwner
  <1> QED
    BY <1>1 DEF Console

(* The sleep list is in order for as long as nobody touches it.            *)
LEMMA NapSame ==
    ASSUME NEW k, Nap(k), NEW j, j.sleepList = k.sleepList, j.sleepNext = k.sleepNext,
           \A x \in Sleepers(k) : j.sleepTime[x] = k.sleepTime[x] /\ j.state[x] = k.state[x]
    PROVE  Nap(j) /\ Sleepers(j) = Sleepers(k)
  <1>1. Sleepers(j) = Sleepers(k) /\ NapHeads(j) = NapHeads(k)
    BY DEF Sleepers, NapHeads
  <1>2. PICK due : IsDue(k, due)
    BY DEF Nap
  <1>3. k.sleepNext \in Links /\ k.sleepList \in Proc \cup {NULL}
    BY DEF Nap, ListsApart
  <1>4. k.sleepList # NULL => k.sleepList \in Sleepers(k)
    BY <1>3, ReachHead, SlotFacts DEF Sleepers
  <1>5. \A x \in Sleepers(k) : k.sleepNext[x] # NULL => k.sleepNext[x] \in Sleepers(k)
    BY <1>3, ReachStep DEF Sleepers
  <1>6. IsDue(j, due)
    BY <1>1, <1>2, <1>4, <1>5 DEF IsDue
  <1>7. \A x \in Sleepers(j) : j.state[x] = "SLEEPING"
    BY <1>1 DEF Nap
  <1> QED
    BY <1>1, <1>6, <1>7 DEF Nap

(* Functions that touch neither the keyboard nor the sleep list.           *)
LEMMA AsideKeeps ==
    ASSUME NEW k, NEW out, NEW aside, Sound(k, out, aside), NEW j, NEW out2,
           Settled(j, out2 \cup Away(aside)), out2 \cap Away(aside) = {},
           Same(j, k, {"process", "pid", "kbd", "fdTab", "sleepList", "sleepNext", "sleepTime"}),
           \A q \in Proc : \/ j.state[q] = k.state[q]
                           \/ q \notin Away(aside) /\ j.state[q] # "RUNNING"
    PROVE  Sound(j, out2, aside)
  <1>1. /\ j.process = k.process /\ j.pid = k.pid /\ j.kbd = k.kbd /\ j.fdTab = k.fdTab
        /\ j.sleepList = k.sleepList /\ j.sleepNext = k.sleepNext /\ j.sleepTime = k.sleepTime
    BY DEF Same
  <1>2. /\ Away(aside) = Reading(k) \cup Sleepers(k) /\ Sleepers(k) \subseteq Proc
        /\ Console(k) /\ Nap(k) /\ aside = Aside(k)
    BY AsideIs DEF Sound
  <1>3. \A q : Alive(j, q) <=> Alive(k, q)
    BY <1>1 DEF Alive
  <1>4. Reading(j) = Reading(k)
    BY <1>1, <1>2, <1>3 DEF Reading
  <1>5. \A p, fd : Owns(j, p, fd) <=> Owns(k, p, fd)
    BY <1>1, <1>3 DEF Owns
  <1>6. Console(j)
    BY <1>1, <1>2, <1>4, <1>5, ConsoleSame
  <1>7. Nap(j) /\ Sleepers(j) = Sleepers(k)
    BY <1>1, <1>2, NapSame
  <1>8. Aside(j) = aside
    BY <1>2, <1>4, <1>7 DEF Aside
  <1> QED
    BY <1>6, <1>7, <1>8 DEF Sound

(* ready() puts a process that is in no place on the ready queue.          *)
LEMMA ReadyKeeps ==
    ASSUME NEW k, NEW out, NEW aside, Sound(k, out, aside), NEW p \in out
    PROVE  Sound(Ready(k, p), out \ {p}, aside)
  <1>1. /\ IsKernel(k) /\ Typed(k) /\ p \notin Away(aside) /\ p \in Proc /\ p \in Slot
        /\ (out \cup Away(aside)) \ {p} = (out \ {p}) \cup Away(aside)
        /\ (out \ {p}) \cap Away(aside) = {}
    BY SlotFacts DEF Sound, Settled, Placed, OutOnes
  <1>2. PICK j : j = Ready(k, p)
    OBVIOUS
  <1>3. Settled(j, (out \ {p}) \cup Away(aside))
    <2>1. PICK all : all = out \cup Away(aside)
      OBVIOUS
    <2>2. Settled(k, all) /\ p \in all
      BY <2>1 DEF Sound
    <2>3. Settled(j, all \ {p})
      BY <1>2, <2>2, ReadySettles
    <2> QED
      BY <1>1, <2>1, <2>3
  <1>4. /\ Same(j, k, Fields \ {"readyQueue", "next", "prev", "state"})
        /\ j.state = [k.state EXCEPT ![p] = "READY"]
    BY <1>1, <1>2, ReadyEffect
  <1>5. Same(j, k, {"process", "pid", "kbd", "fdTab", "sleepList", "sleepNext", "sleepTime"})
    BY <1>4 DEF Same, Fields
  <1>6. \A q \in Proc : j.state[q] = k.state[q] \/ (q \notin Away(aside) /\ j.state[q] # "RUNNING")
    BY <1>1, <1>4, SlotFacts DEF Typed
  <1> QED
    BY <1>1, <1>2, <1>3, <1>5, <1>6, AsideKeeps

(* Writing results, arguments and masks moves nobody, nor does the state   *)
(* of a process that is in no place.                                       *)
LEMMA EditKeeps ==
    ASSUME NEW k, NEW out, NEW aside, Sound(k, out, aside),
           NEW j, IsKernel(j), Typed(j), j.prev \in Links,
           Same(j, k, Fields \ {"state", "ipcArgs", "eax", "prev", "sigMaskInstalled"}),
           \A q \in Proc : q \notin out => j.state[q] = k.state[q] /\ j.ipcArgs[q] = k.ipcArgs[q],
           \A q \in out : j.state[q] \in {k.state[q], "BLOCKED"}
    PROVE  Sound(j, out, aside)
  <1>1. Same(j, k, Stays)
    BY DEF Same, Fields, Stays
  <1>2. Same(j, k, {"process", "pid", "kbd", "fdTab", "sleepList", "sleepNext", "sleepTime"})
    BY DEF Same, Fields
  <1>3. Settled(j, out \cup Away(aside))
    <2>1. PICK all : all = out \cup Away(aside)
      OBVIOUS
    <2>2. Settled(k, all) /\ \A q \in Proc : q \notin all => j.state[q] = k.state[q] /\ j.ipcArgs[q] = k.ipcArgs[q]
      BY <2>1 DEF Sound
    <2> QED
      BY <1>1, <2>1, <2>2, EditSettles
  <1>4. out \cap Away(aside) = {}
    BY DEF Sound
  <1>5. \A q \in Proc : j.state[q] = k.state[q] \/ (q \notin Away(aside) /\ j.state[q] # "RUNNING")
    BY <1>4
  <1> QED
    BY <1>2, <1>3, <1>4, <1>5, AsideKeeps

(* Setting target_of_recv leaves the other fields alone.                   *)
LEMMA RetargetSame ==
    ASSUME NEW k, IsKernel(k), NEW p, NEW t
    PROVE  Same(Retarget(k, p, t), k, {"process", "pid", "kbd", "fdTab", "sleepList", "sleepNext", "sleepTime",
                                       "state", "ipcArgs"})
  BY DEF Same, Fields, IsKernel, Retarget

(* rm_BlockedRecver() ends the receiving of a process.                     *)
LEMMA RmRecverKeeps ==
    ASSUME NEW k, NEW out, NEW aside, Sound(k, out, aside), NEW r \in Proc, Alive(k, r),
           k.targetOfRecv[r] # r
    PROVE  /\ Sound(RmBlockedRecver(k, r), out \cup {r}, aside)
           /\ RmBlockedRecver(k, r).ipcArgs = k.ipcArgs
  <1>1. PICK j : j = RmBlockedRecver(k, r)
    OBVIOUS
  <1>2. PICK all : all = out \cup Away(aside)
    OBVIOUS
  <1>3. Settled(k, all) /\ IsKernel(k) /\ r \notin all
    BY <1>2 DEF Sound, Settled, Placed, ReceivingOnes
  <1>4. Settled(j, all \cup {r}) /\ j.ipcArgs = k.ipcArgs
    BY <1>1, <1>3, RmRecverSettles
  <1>5. j = Retarget(k, r, r)
    BY <1>1 DEF RmBlockedRecver, Alive, Retarget
  <1>6. Same(j, k, {"process", "pid", "kbd", "fdTab", "sleepList", "sleepNext", "sleepTime",
                    "state", "ipcArgs"})
    BY <1>3, <1>5, RetargetSame
  <1>7. Same(j, k, {"process", "pid", "kbd", "fdTab", "sleepList", "sleepNext", "sleepTime"})
        /\ j.state = k.state
    BY <1>6 DEF Same
  <1>8. all \cup {r} = (out \cup {r}) \cup Away(aside) /\ (out \cup {r}) \cap Away(aside) = {}
    BY <1>2, <1>3 DEF Sound
  <1>9. Sound(j, out \cup {r}, aside)
    <2>1. Settled(j, (out \cup {r}) \cup Away(aside))
      BY <1>4, <1>8
    <2> QED
      BY <1>7, <1>8, <2>1, AsideKeeps
  <1> QED
    BY <1>1, <1>4, <1>9

(* A process that blocks in recv() waits where its peers look for it.      *)
LEMMA ReceiveKeeps ==
    ASSUME NEW k, NEW out, NEW aside, Sound(k, out, aside), NEW p \in out,
           k.state[p] = "BLOCKED", k.ipcArgs[p] # NULL,
           NEW from \in Slot, from # p, from # ReceiveAny => Alive(k, from),
           ~IsProcSending(k, from, p)
    PROVE  Sound(Retarget(k, p, from), out \ {p}, aside)
  <1>1. PICK j : j = Retarget(k, p, from)
    OBVIOUS
  <1>2. PICK all : all = out \cup Away(aside)
    OBVIOUS
  <1>3. Settled(k, all) /\ IsKernel(k) /\ p \in all
    BY <1>2 DEF Sound, Settled
  <1>4. Settled(j, all \ {p})
    BY <1>1, <1>3, ReceiveSettles
  <1>5. Same(j, k, {"process", "pid", "kbd", "fdTab", "sleepList", "sleepNext", "sleepTime",
                    "state", "ipcArgs"})
    BY <1>1, <1>3, RetargetSame
  <1>6. Same(j, k, {"process", "pid", "kbd", "fdTab", "sleepList", "sleepNext", "sleepTime"})
        /\ j.state = k.state
    BY <1>5 DEF Same
  <1>7. all \ {p} = (out \ {p}) \cup Away(aside) /\ (out \ {p}) \cap Away(aside) = {}
    BY <1>2 DEF Sound
  <1>8. Settled(j, (out \ {p}) \cup Away(aside))
    BY <1>4, <1>7
  <1> QED
    BY <1>1, <1>6, <1>7, <1>8, AsideKeeps

(* A sender may be queued with a living process that does not receive from *)
(* it.                                                                     *)
LEMMA AddSenderKeeps ==
    ASSUME NEW k, NEW out, NEW aside, Sound(k, out, aside), NEW p \in out,
           k.state[p] = "BLOCKED", k.ipcArgs[p] # NULL,
           NEW r \in Proc, r # p, Alive(k, r), k.targetOfRecv[r] \notin {p, ReceiveAny}
    PROVE  Sound(AddBlockedSender(k, r, p), out \ {p}, aside)
  <1>1. PICK j : j = AddBlockedSender(k, r, p)
    OBVIOUS
  <1>2. PICK all : all = out \cup Away(aside)
    OBVIOUS
  <1>3. Settled(k, all) /\ IsKernel(k) /\ p \in all
    BY <1>2 DEF Sound, Settled
  <1>4. Settled(j, all \ {p})
    BY <1>1, <1>3, AddSenderSettles
  <1>5. Same(j, k, Fields \ {"senderQueue", "next"})
    BY <1>1, <1>3, AddSenderEffect DEF SenderAdded
  <1>6. Same(j, k, {"process", "pid", "kbd", "fdTab", "sleepList", "sleepNext", "sleepTime"})
        /\ j.state = k.state
    BY <1>5 DEF Same, Fields
  <1>7. all \ {p} = (out \ {p}) \cup Away(aside) /\ (out \ {p}) \cap Away(aside) = {}
    BY <1>2 DEF Sound
  <1>8. Settled(j, (out \ {p}) \cup Away(aside))
    BY <1>4, <1>7
  <1> QED
    BY <1>1, <1>6, <1>7, <1>8, AsideKeeps

(* A sender that rmBlockedSender() unlinks is in no place any more.        *)
LEMMA RmSenderKeeps ==
    ASSUME NEW k, NEW out, NEW aside, Sound(k, out, aside), NEW r \in Proc, NEW s \in On(k, r)
    PROVE  /\ Sound(RmBlockedSender(k, r, s), out \cup {s}, aside)
           /\ SenderRemoved(RmBlockedSender(k, r, s), k, r, s)
           /\ \A b \in Slot : On(RmBlockedSender(k, r, s), b) = On(k, b) \ {s}
  <1>1. PICK j : j = RmBlockedSender(k, r, s)
    OBVIOUS
  <1>2. PICK all : all = out \cup Away(aside)
    OBVIOUS
  <1>3. Settled(k, all) /\ s \notin all
    BY <1>2, SlotFacts DEF Sound, Settled, Placed, OutOnes, Nowhere, Outside, On
  <1>4. /\ Settled(j, all \cup {s}) /\ SenderRemoved(j, k, r, s)
        /\ \A b \in Slot : On(j, b) = On(k, b) \ {s}
    BY <1>1, <1>3, RmSenderSettles
  <1>5. Same(j, k, Fields \ {"senderQueue", "next"})
    BY <1>4 DEF SenderRemoved
  <1>6. Same(j, k, {"process", "pid", "kbd", "fdTab", "sleepList", "sleepNext", "sleepTime"})
        /\ j.state = k.state
    BY <1>5 DEF Same, Fields
  <1>7. all \cup {s} = (out \cup {s}) \cup Away(aside) /\ (out \cup {s}) \cap Away(aside) = {}
    BY <1>2, <1>3 DEF Sound
  <1>8. Sound(j, out \cup {s}, aside)
    <2>1. Settled(j, (out \cup {s}) \cup Away(aside))
      BY <1>4, <1>7
    <2> QED
      BY <1>6, <1>7, <2>1, AsideKeeps
  <1> QED
    BY <1>1, <1>4, <1>8

(* create() adds a ready process and keeps the others where they are.      *)
LEMMA CreateKeeps ==
    ASSUME NEW k, NEW out, NEW aside,
           IsKernel(k), Lists(k), Typed(k), Quiet(k), InOrder(k), Placed(k, out \cup Away(aside)),
           k.lastPID \in Proc, out \cap Away(aside) = {},
           Aside(k) = aside, Console(k), Nap(k)
    PROVE  /\ Sound(Create(k), out, aside) /\ Create(k).process = k.process
           /\ \A q \in out : Create(k).state[q] = k.state[q]
  <1> DEFINE p == k.lastPID
  <1>1. PICK m : m = Create(k)
    OBVIOUS
  <1>2. PICK i : m = Ready(i, p) /\ NewPcbMade(i, k, p)
    BY <1>1, CreateEffect
  <1> HIDE DEF p
  <1>3. PICK all : all = out \cup Away(aside)
    OBVIOUS
  <1>4. Settled(m, all) /\ m.process = k.process /\ \A q \in all : m.state[q] = k.state[q]
    <2>1. Placed(k, all)
      BY <1>3
    <2> QED
      BY <1>1, <2>1, CreateSettles
  <1>5. /\ p \in Proc /\ p \in Slot /\ p # NULL /\ k.pid[p] = EMPTY /\ ~Alive(k, p) /\ IsKernel(i)
        /\ k.pid \in [Slot -> Slot \cup {EMPTY, TOMBSTONE}]
    BY <1>2, SlotFacts, MaxPidAssumption DEF p, InOrder, EMPTY, Proc, Alive, NewPcbMade
  <1>6. /\ Same(m, i, Fields \ {"readyQueue", "next", "prev", "state"})
        /\ m.state = [i.state EXCEPT ![p] = "READY"]
    BY <1>2, <1>5, ReadyEffect
  <1>7. /\ m.pid = [k.pid EXCEPT ![p] = p] /\ m.kbd = k.kbd
        /\ m.fdTab = [k.fdTab EXCEPT ![p] = NoDescriptors]
        /\ m.sleepList = k.sleepList /\ m.sleepNext = [k.sleepNext EXCEPT ![p] = NULL]
        /\ m.sleepTime = [k.sleepTime EXCEPT ![p] = 0]
        /\ m.state = [k.state EXCEPT ![p] = "READY"]
    BY <1>2, <1>6 DEF Same, Fields, NewPcbMade
  <1>8. /\ Away(aside) = Reading(k) \cup Sleepers(k)
        /\ k.sleepNext \in Links /\ k.sleepList \in Proc \cup {NULL}
        /\ Sleepers(k) \subseteq Proc
    <2>1. k.sleepNext \in Links /\ k.sleepList \in Proc \cup {NULL}
      BY DEF Nap, ListsApart
    <2> QED
      BY <2>1, ReachInProc DEF Sleepers, Aside, Away
  <1>9. p \notin Away(aside)
    BY <1>5 DEF Placed, OutOnes
  <1>10. m.sleepNext = k.sleepNext
    <2>1. Outside(k.sleepNext, NapHeads(k), p)
      <3> SUFFICES ASSUME NEW a \in Slot PROVE p \notin Chain(k.sleepNext, NapHeads(k), a)
        BY DEF Outside
      <3> QED
        BY <1>8, <1>9, ReachNull DEF Chain, NapHeads, Sleepers
    <2>2. k.sleepNext[p] = NULL
      BY <1>5, <2>1, OutsideIsLoose DEF Nap
    <2> QED
      BY <1>5, <1>7, <1>8, <2>2 DEF Links
  <1>11. \A q \in Slot : q # p => /\ Alive(m, q) <=> Alive(k, q)
                                  /\ m.state[q] = k.state[q] /\ m.fdTab[q] = k.fdTab[q]
                                  /\ m.sleepTime[q] = k.sleepTime[q]
    BY <1>5, <1>7 DEF Alive, Typed
  <1>12. m.state[p] = "READY" /\ m.fdTab[p] = NoDescriptors
    BY <1>5, <1>7 DEF Typed
  <1>13. Reading(m) = Reading(k)
    <2>1. p \notin Reading(m) /\ p \notin Reading(k)
      BY <1>5, <1>12 DEF Reading
    <2> QED
      BY <1>4, <1>7, <1>11, <2>1, SlotFacts DEF Reading
  <1>14. \A q, fd : Owns(m, q, fd) <=> Owns(k, q, fd)
    <2> SUFFICES ASSUME NEW q, NEW fd PROVE Owns(m, q, fd) <=> Owns(k, q, fd)
      OBVIOUS
    <2>1. CASE q = p
      BY <1>5, <1>12, <2>1 DEF Owns, NoDescriptors
    <2>2. CASE q # p
      BY <1>11, <2>2, SlotFacts DEF Owns
    <2> QED
      BY <2>1, <2>2
  <1>15. Console(m)
    BY <1>7, <1>13, <1>14, ConsoleSame
  <1>16. Nap(m) /\ Sleepers(m) = Sleepers(k)
    <2>1. \A x \in Sleepers(k) : m.sleepTime[x] = k.sleepTime[x] /\ m.state[x] = k.state[x]
      BY <1>8, <1>9, <1>11, SlotFacts
    <2> QED
      BY <1>7, <1>10, <2>1, NapSame
  <1>17. Aside(m) = aside
    BY <1>13, <1>16 DEF Aside
  <1> QED
    BY <1>1, <1>3, <1>4, <1>15, <1>16, <1>17 DEF Sound

(* removeProcess(): nobody is blocked on a process that is taken out, and  *)
(* the keyboard stays open if it was open.                                 *)
LEMMA BuriedKeeps ==
    ASSUME NEW k, NEW out, NEW aside, Sound(k, out, aside), NEW p \in out, On(k, p) = {},
           \A q \in Proc : Alive(k, q) /\ q # p => k.targetOfRecv[q] # p,
           "STOP" \in Requests
    PROVE  Sound(Buried(k, p), out \ {p}, aside)
  <1>1. PICK j : j = Buried(k, p)
    OBVIOUS
  <1>2. PICK all : all = out \cup Away(aside)
    OBVIOUS
  <1>3. Settled(k, all) /\ p \in all /\ p \notin Away(aside)
        /\ all \ {p} = (out \ {p}) \cup Away(aside) /\ (out \ {p}) \cap Away(aside) = {}
    BY <1>2 DEF Sound
  <1>4. /\ Settled(j, all \ {p}) /\ Same(j, k, Fields \ {"pid"})
        /\ j.pid = [k.pid EXCEPT ![p] = TOMBSTONE]
    BY <1>1, <1>3, BuriedSettles
  <1>5. /\ p \in Proc /\ p \in Slot /\ k.pid \in [Slot -> Slot \cup {EMPTY, TOMBSTONE}] /\ TOMBSTONE # p
    BY <1>3, SlotFacts, MaxPidAssumption DEF Settled, Placed, OutOnes, Pids, InOrder, Proc, TOMBSTONE
  <1>6. ~Alive(j, p) /\ \A q \in Slot : q # p => (Alive(j, q) <=> Alive(k, q))
    BY <1>4, <1>5 DEF Alive
  <1>7. /\ j.process = k.process /\ j.state = k.state /\ j.kbd = k.kbd /\ j.fdTab = k.fdTab
        /\ j.sleepList = k.sleepList /\ j.sleepNext = k.sleepNext /\ j.sleepTime = k.sleepTime
    BY <1>4 DEF Same, Fields
  <1>8. /\ Away(aside) = Reading(k) \cup Sleepers(k) /\ aside = Aside(k)
        /\ Console(k) /\ Nap(k)
    BY AsideIs DEF Sound
  <1>9. Reading(j) = Reading(k)
    BY <1>3, <1>6, <1>7, <1>8, SlotFacts DEF Reading
  <1>10. \A q, fd : Owns(j, q, fd) <=> q # p /\ Owns(k, q, fd)
    BY <1>6, <1>7, SlotFacts DEF Owns
  <1>11. Console(j)
    <2>1. OneOwner(j)
      BY <1>8, <1>10 DEF Console, OneOwner
    <2>2. \A q \in Reading(j) : /\ \E fd : Owns(j, q, fd)
                                /\ j.kbd.irq /\ Len(j.kbd.chars) < j.kbd.buflen
      BY <1>3, <1>7, <1>8, <1>9, <1>10 DEF Console
    <2> QED
      BY <1>7, <1>8, <1>10, <2>1, <2>2 DEF Console
  <1>12. Nap(j) /\ Sleepers(j) = Sleepers(k)
    BY <1>7, <1>8, NapSame
  <1>13. Aside(j) = aside
    BY <1>8, <1>9, <1>12 DEF Aside
  <1>14. Settled(j, (out \ {p}) \cup Away(aside))
    BY <1>3, <1>4
  <1> QED
    BY <1>1, <1>3, <1>11, <1>12, <1>13, <1>14 DEF Sound

(* What the keyboard holds for a process that waits for characters.        *)
MayRead(k, p) ==
    /\ k.state[p] = "RUNNING" /\ k.kbd.p = p
    /\ \E fd : Owns(k, p, fd)
    /\ k.kbd.irq /\ Len(k.kbd.chars) < k.kbd.buflen

SoundAndRunning(k) ==
    /\ Sound(k, RunningIn(k), Aside(k))
    /\ k.process # Idle => k.state[k.process] = "RUNNING"

(* next(): a process that leaves the processor in the state RUNNING waits  *)
(* for characters.                                                         *)
LEMMA NextKeeps ==
    ASSUME NEW k, NEW out, NEW aside, Sound(k, out, aside), out \subseteq {k.process},
           \A p \in out : MayRead(k, p)
    PROVE  /\ SoundAndRunning(NextProcess(k))
           /\ Aside(NextProcess(k)) = [reading |-> aside.reading \cup out, asleep |-> aside.asleep]
           /\ NextProcess(k).kbd = k.kbd /\ NextProcess(k).eax = k.eax
  <1>1. PICK j : j = NextProcess(k)
    OBVIOUS
  <1>2. PICK all : all = out \cup Away(aside)
    OBVIOUS
  <1>3. Settled(k, all) /\ Placed(k, all) /\ Typed(k) /\ IsKernel(k) /\ Lists(k)
    BY <1>2 DEF Sound, Settled
  <1>4. /\ Settled(j, all \cup RunningIn(j)) /\ all \cap RunningIn(j) = {}
        /\ \A q \in RunningIn(j) : j.state[q] = "RUNNING"
        /\ \A q \in Slot \ RunningIn(j) : j.state[q] = k.state[q]
    BY <1>1, <1>3, NextSettles
  <1>5. Same(j, k, Fields \ {"readyQueue", "next", "prev", "state", "process"})
    BY <1>1, <1>3, NextEffect
  <1>6. /\ j.pid = k.pid /\ j.kbd = k.kbd /\ j.fdTab = k.fdTab /\ j.eax = k.eax
        /\ j.sleepList = k.sleepList /\ j.sleepNext = k.sleepNext /\ j.sleepTime = k.sleepTime
    BY <1>5 DEF Same, Fields
  <1>7. /\ aside.reading = Reading(k) /\ aside.asleep = Sleepers(k)
        /\ Away(aside) = Reading(k) \cup Sleepers(k) /\ Sleepers(k) \subseteq Proc
        /\ Console(k) /\ Nap(k)
    BY AsideIs DEF Sound
  <1>8. \A q : Alive(j, q) <=> Alive(k, q)
    BY <1>6 DEF Alive
  <1>9. \A q \in all : q \in Proc /\ q \in Slot /\ Alive(k, q) /\ q # j.process /\ j.state[q] = k.state[q]
    BY <1>3, <1>4, SlotFacts DEF Placed, OutOnes, RunningIn
  <1>10. \A q \in Proc : Alive(k, q) /\ q \notin all => k.state[q] # "RUNNING"
    <2> SUFFICES ASSUME NEW q \in Proc, Alive(k, q), q \notin all PROVE k.state[q] # "RUNNING"
      OBVIOUS
    <2>1. k.targetOfRecv[q] # q \/ q \in On(k, Idle) \/ \E r \in Proc : q \in On(k, r)
      BY <1>3, SlotFacts DEF Placed, Everybody
    <2>2. CASE k.targetOfRecv[q] # q
      BY <1>3, <2>2 DEF Placed, ReceivingOnes
    <2>3. CASE q \in On(k, Idle)
      BY <1>3, <2>3 DEF Placed, ReadyOnes
    <2>4. CASE \E r \in Proc : q \in On(k, r)
      BY <1>3, <2>4 DEF Placed, SendingOnes
    <2> QED
      BY <2>1, <2>2, <2>3, <2>4
  <1>11. \A q \in Sleepers(k) : k.state[q] = "SLEEPING"
    BY <1>7 DEF Nap
  <1>12. Reading(j) = Reading(k) \cup out
    <2>1. ASSUME NEW q \in Reading(j) PROVE q \in Reading(k) \cup out
      <3>1. q \in Proc /\ q \in Slot /\ Alive(k, q) /\ j.state[q] = "RUNNING" /\ j.process # q /\ k.kbd.p = q
        BY <1>6, <1>8, SlotFacts DEF Reading
      <3>2. k.state[q] = "RUNNING"
        BY <1>4, <3>1 DEF RunningIn
      <3>3. q \in all /\ q \notin Sleepers(k)
        BY <1>10, <1>11, <3>1, <3>2
      <3> QED
        BY <1>2, <1>7, <3>3
    <2>2. ASSUME NEW q \in Reading(k) PROVE q \in Reading(j)
      <3>1. q \in all /\ k.state[q] = "RUNNING" /\ k.kbd.p = q
        BY <1>2, <1>7 DEF Reading
      <3> QED
        BY <1>6, <1>8, <1>9, <3>1 DEF Reading
    <2>3. ASSUME NEW q \in out PROVE q \in Reading(j)
      <3>1. q \in all /\ k.state[q] = "RUNNING" /\ k.kbd.p = q
        BY <1>2 DEF MayRead
      <3> QED
        BY <1>6, <1>8, <1>9, <3>1 DEF Reading
    <2> QED
      BY <2>1, <2>2, <2>3
  <1>13. \A q, fd : Owns(j, q, fd) <=> Owns(k, q, fd)
    BY <1>6, <1>8 DEF Owns
  <1>14. Console(j)
    <2>1. OneOwner(j)
      BY <1>7, <1>13 DEF Console, OneOwner
    <2>2. \A q \in Reading(j) : /\ \E fd : Owns(j, q, fd)
                                /\ j.kbd.irq /\ Len(j.kbd.chars) < j.kbd.buflen
      BY <1>6, <1>7, <1>12, <1>13 DEF Console, MayRead
    <2> QED
      BY <1>6, <1>7, <1>13, <2>1, <2>2 DEF Console
  <1>15. Nap(j) /\ Sleepers(j) = Sleepers(k)
    <2>1. \A x \in Sleepers(k) : j.sleepTime[x] = k.sleepTime[x] /\ j.state[x] = k.state[x]
      BY <1>2, <1>6, <1>7, <1>9
    <2> QED
      BY <1>6, <1>7, <2>1, NapSame
  <1>16. Aside(j) = [reading |-> aside.reading \cup out, asleep |-> aside.asleep]
    BY <1>7, <1>12, <1>15 DEF Aside
  <1>17. Away(Aside(j)) = all
    BY <1>2, <1>16 DEF Away
  <1>18. Sound(j, RunningIn(j), Aside(j))
    <2>1. RunningIn(j) \cup all = all \cup RunningIn(j) /\ RunningIn(j) \cap all = {}
      BY <1>4
    <2>2. Settled(j, RunningIn(j) \cup Away(Aside(j))) /\ RunningIn(j) \cap Away(Aside(j)) = {}
      BY <1>4, <1>17, <2>1
    <2> QED
      BY <1>14, <1>15, <2>2 DEF Sound
  <1>19. j.process # Idle => j.state[j.process] = "RUNNING"
    BY <1>4 DEF RunningIn
  <1> QED
    BY <1>1, <1>6, <1>16, <1>18, <1>19 DEF SoundAndRunning

-----------------------------------------------------------------------------
(* Storing the result of a call, or blocking a process, moves nobody.      *)
WithResult(k, p, result) == [k EXCEPT !.eax[p] = result]
Blocked(k, p) == [k EXCEPT !.state[p] = "BLOCKED"]

(* The result of a call is no part of the invariant.                       *)
LEMMA ResultKeeps ==
    ASSUME NEW k, NEW out, NEW aside, Sound(k, out, aside), NEW p \in Slot, NEW result \in Int
    PROVE  /\ Sound(WithResult(k, p, result), out, aside)
           /\ Same(WithResult(k, p, result), k, Fields \ {"eax"})
  <1>1. IsKernel(k) /\ Lists(k) /\ Typed(k)
    BY DEF Sound, Settled
  <1>2. PICK j : j = WithResult(k, p, result)
    OBVIOUS
  <1>3. IsKernel(j)
    BY <1>1, <1>2 DEF WithResult, IsKernel
  <1>4. Same(j, k, Fields \ {"eax"})
    BY <1>1, <1>2 DEF WithResult, IsKernel, Same
  <1>5. j.eax = [k.eax EXCEPT ![p] = result]
    BY <1>1, <1>2 DEF WithResult, IsKernel, Fields
  <1>6. /\ Same(j, k, {"process", "state", "targetOfRecv", "ipcArgs", "waitingFor", "sleepNext",
                       "sleepPrev", "sleepTime", "sigMaskInstalled", "sigMaskQueued", "fdTab"})
        /\ Same(j, k, Fields \ {"state", "ipcArgs", "eax", "prev", "sigMaskInstalled"})
        /\ j.prev = k.prev /\ j.state = k.state /\ j.ipcArgs = k.ipcArgs
    BY <1>4 DEF Same, Fields
  <1>7. Typed(j)
    BY <1>1, <1>5, <1>6 DEF Same, Typed
  <1>8. Sound(j, out, aside)
    BY <1>1, <1>3, <1>6, <1>7, EditKeeps DEF Lists
  <1> QED
    BY <1>2, <1>4, <1>8

(* Marking a process that is in no place as blocked is sound.              *)
LEMMA BlockedKeeps ==
    ASSUME NEW k, NEW out, NEW aside, Sound(k, out, aside), NEW p \in out
    PROVE  /\ Sound(Blocked(k, p), out, aside)
           /\ Same(Blocked(k, p), k, Fields \ {"state"})
           /\ Blocked(k, p).state[p] = "BLOCKED"
  <1>1. IsKernel(k) /\ Lists(k) /\ Typed(k) /\ p \in Slot
    BY SlotFacts DEF Sound, Settled, Placed, OutOnes
  <1>2. PICK j : j = Blocked(k, p)
    OBVIOUS
  <1>3. IsKernel(j)
    BY <1>1, <1>2 DEF Blocked, IsKernel
  <1>4. Same(j, k, Fields \ {"state"})
    BY <1>1, <1>2 DEF Blocked, IsKernel, Same
  <1>5. j.state = [k.state EXCEPT ![p] = "BLOCKED"]
    BY <1>1, <1>2 DEF Blocked, IsKernel, Fields
  <1>6. /\ Same(j, k, {"process", "targetOfRecv", "ipcArgs", "waitingFor", "sleepNext", "eax",
                       "sleepPrev", "sleepTime", "sigMaskInstalled", "sigMaskQueued", "fdTab"})
        /\ Same(j, k, Fields \ {"state", "ipcArgs", "eax", "prev", "sigMaskInstalled"})
        /\ j.prev = k.prev /\ j.ipcArgs = k.ipcArgs
    BY <1>4 DEF Same, Fields
  <1>7. j.state \in [Slot -> ProcState] /\ j.state[p] = "BLOCKED"
        /\ \A q \in Slot : q # p => j.state[q] = k.state[q]
    BY <1>1, <1>5 DEF Typed, ProcState
  <1>8. Typed(j)
    BY <1>1, <1>6, <1>7 DEF Same, Typed
  <1>9. \A q \in Proc : q \notin out => j.state[q] = k.state[q] /\ j.ipcArgs[q] = k.ipcArgs[q]
    BY <1>6, <1>7, SlotFacts
  <1>10. \A q \in out : j.state[q] \in {k.state[q], "BLOCKED"}
    <2>1. out \subseteq Slot
      BY SlotFacts DEF Sound, Settled, Placed, OutOnes
    <2> QED
      BY <1>7, <2>1
  <1>11. j.prev \in Links
    BY <1>1, <1>6 DEF Lists
  <1>12. Sound(j, out, aside)
    BY <1>3, <1>6, <1>8, <1>9, <1>10, <1>11, EditKeeps
  <1> QED
    BY <1>2, <1>4, <1>7, <1>12

-----------------------------------------------------------------------------
(* runSend() of two processes that have left the message queues.           *)
LEMMA Delivered ==
    ASSUME NEW k, NEW r, NEW s, r # s,
           NEW aside, Sound(RmBlockedRecver(RmBlockedSender(k, r, s), r), {r, s}, aside),
           k.ipcArgs[r] \in Buffers, k.ipcArgs[s] # NULL
    PROVE  Sound(RunSend(k, r, s), {}, aside)
  <1>1. PICK k1 : k1 = RmBlockedRecver(RmBlockedSender(k, r, s), r)
    OBVIOUS
  <1> DEFINE len == TransferBuffer(k.ipcArgs[r])
             args == [k1.ipcArgs EXCEPT ![r] = NULL, ![s] = NULL]
             results == [k1.eax EXCEPT ![r] = len, ![s] = len]
             forward == [k1.next EXCEPT ![r] = NULL, ![s] = NULL]
             back == [k1.prev EXCEPT ![r] = NULL, ![s] = NULL]
  <1>2. PICK k2 : k2 = [k1 EXCEPT !.fault = k1.fault, !.ipcArgs = args, !.eax = results,
                                  !.next = forward, !.prev = back]
    OBVIOUS
  <1>0. k.ipcArgs[r] # NULL /\ k.ipcArgs[s] # NULL /\ len \in Int
    <2>1. PICK n : n = k.ipcArgs[r]
      OBVIOUS
    <2>2. n \in Int /\ n # NULL
      BY <2>1, WorkloadAssumption
    <2>3. TransferBuffer(n) \in Int
      BY <2>2 DEF TransferBuffer, BufferAddress
    <2> QED
      BY <2>1, <2>2, <2>3
  <1>3. RunSend(k, r, s) = Ready(Ready(k2, s), r)
    BY <1>0, <1>1, <1>2 DEF RunSend
  <1> HIDE DEF len
  <1>4. Sound(k1, {r, s}, aside)
    BY <1>1
  <1>5. /\ IsKernel(k1) /\ Lists(k1) /\ Typed(k1)
        /\ r \in Proc /\ s \in Proc /\ r \in Slot /\ s \in Slot
        /\ Nowhere(k1, r) /\ Nowhere(k1, s)
    BY <1>4, SlotFacts DEF Sound, Settled, Placed, OutOnes
  <1>6. forward = k1.next
    <2>1. k1.next[r] = NULL /\ k1.next[s] = NULL /\ k1.next \in Links
      BY <1>5, OutsideIsLoose DEF Lists, ListsApart, Nowhere
    <2> QED
      BY <1>5, <2>1 DEF Links
  <1>7. /\ args \in [Slot -> Buffers \cup {NULL}] /\ results \in [Slot -> Int] /\ back \in Links
        /\ \A q \in Slot : q \notin {r, s} => args[q] = k1.ipcArgs[q]
    <2>1. args \in [Slot -> Buffers \cup {NULL}] /\ \A q \in Slot : q \notin {r, s} => args[q] = k1.ipcArgs[q]
      BY <1>5 DEF Typed
    <2>2. results \in [Slot -> Int]
      BY <1>0, <1>5 DEF Typed
    <2>3. back \in Links
      BY <1>5 DEF Lists, Links
    <2> QED
      BY <2>1, <2>2, <2>3
  <1> HIDE DEF args, results, back, forward
  <1>8. IsKernel(k2)
    BY <1>2, <1>5 DEF IsKernel
  <1>9. Same(k2, k1, Fields \ {"ipcArgs", "eax", "prev"})
    BY <1>2, <1>5, <1>6 DEF IsKernel, Same
  <1>10. k2.ipcArgs = args /\ k2.eax = results /\ k2.prev = back
    BY <1>2, <1>5 DEF IsKernel, Fields
  <1>11. /\ Same(k2, k1, {"process", "state", "targetOfRecv", "waitingFor", "sleepNext",
                       "sleepPrev", "sleepTime", "sigMaskInstalled", "sigMaskQueued", "fdTab"})
         /\ Same(k2, k1, Fields \ {"state", "ipcArgs", "eax", "prev", "sigMaskInstalled"})
         /\ k2.state = k1.state
    BY <1>9 DEF Same, Fields
  <1>12. Typed(k2)
    BY <1>5, <1>7, <1>10, <1>11 DEF Same, Typed
  <1>13. \A q \in Proc : q \notin {r, s} => k2.state[q] = k1.state[q] /\ k2.ipcArgs[q] = k1.ipcArgs[q]
    BY <1>7, <1>10, <1>11, SlotFacts
  <1>14. Sound(k2, {r, s}, aside)
    <2>1. PICK out : out = {r, s}
      OBVIOUS
    <2>0. k2.prev \in Links /\ Same(k2, k1, Fields \ {"state", "ipcArgs", "eax", "prev", "sigMaskInstalled"})
      BY <1>7, <1>10, <1>11
    <2>2. Sound(k1, out, aside) /\ \A q \in Proc : q \notin out => k2.state[q] = k1.state[q] /\ k2.ipcArgs[q] = k1.ipcArgs[q]
      BY <1>4, <1>13, <2>1
    <2>3. \A q \in out : k2.state[q] \in {k1.state[q], "BLOCKED"}
      BY <1>11
    <2>4. Sound(k2, out, aside)
      BY <1>8, <1>12, <2>0, <2>2, <2>3, EditKeeps
    <2> QED
      BY <2>1, <2>4
  <1>15. Sound(Ready(k2, s), {r, s} \ {s}, aside)
    BY <1>14, ReadyKeeps
  <1>16. Sound(Ready(Ready(k2, s), r), ({r, s} \ {s}) \ {r}, aside)
    BY <1>15, ReadyKeeps
  <1>17. ({r, s} \ {s}) \ {r} = {}
    OBVIOUS
  <1> QED
    BY <1>3, <1>16, <1>17

-----------------------------------------------------------------------------
(* send() and recv() of a process in no list leave everybody in a place.   *)
LEMMA PcbFound ==
    ASSUME NEW k, NEW id \in Int \ {TOMBSTONE}
    PROVE  GetPcb(k, id) = IF id \in Slot /\ Alive(k, id) THEN id ELSE NULL
  BY DEF GetPcb, Alive

(* A call that is refused makes its caller ready again.                    *)
LEMMA RefuseKeeps ==
    ASSUME NEW k, NEW p, NEW aside, Sound(k, {p}, aside), NEW result \in Int
    PROVE  Sound(Refuse(k, p, result), {}, aside)
  <1>1. p \in Slot /\ {p} \ {p} = {}
    BY SlotFacts DEF Sound, Settled, Placed, OutOnes
  <1>2. Sound(Ready(k, p), {}, aside)
    BY <1>1, ReadyKeeps
  <1>3. Refuse(k, p, result) = WithResult(Ready(k, p), p, result)
    BY DEF Refuse, WithResult
  <1> QED
    BY <1>1, <1>2, <1>3, ResultKeeps

(* rmBlockedRecver() does nothing with a process that does not receive.    *)
LEMMA OwnTargetKeeps ==
    ASSUME NEW k, NEW out, NEW aside, Sound(k, out, aside), NEW p \in out
    PROVE  Sound(RmBlockedRecver(k, p), out, aside)
  <1>1. /\ IsKernel(k) /\ Lists(k) /\ Typed(k)
        /\ p \in Proc /\ p \in Slot /\ Alive(k, p) /\ k.targetOfRecv[p] = p
    BY SlotFacts DEF Sound, Settled, Placed, OutOnes
  <1>2. PICK j : j = RmBlockedRecver(k, p)
    OBVIOUS
  <1>3. j = [k EXCEPT !.targetOfRecv[p] = p]
    BY <1>1, <1>2 DEF RmBlockedRecver, Alive
  <1>4. IsKernel(j)
    BY <1>1, <1>3 DEF IsKernel
  <1>5. Same(j, k, Fields \ {"targetOfRecv"})
    BY <1>1, <1>3 DEF IsKernel, Same
  <1>6. j.targetOfRecv = k.targetOfRecv
    <2>1. j.targetOfRecv = [k.targetOfRecv EXCEPT ![p] = p]
      BY <1>1, <1>3 DEF IsKernel, Fields
    <2>2. k.targetOfRecv \in [Slot -> Slot \cup {EMPTY, TOMBSTONE}]
      BY <1>1 DEF Typed
    <2>3. k.targetOfRecv = [k.targetOfRecv EXCEPT ![p] = p]
      BY <1>1, <2>2
    <2> QED
      BY <2>1, <2>3
  <1>7. Same(j, k, Fields)
    BY <1>5, <1>6 DEF Same
  <1>8. /\ Same(j, k, {"process", "targetOfRecv", "state", "ipcArgs", "waitingFor", "sleepNext", "eax",
                       "sleepPrev", "sleepTime", "sigMaskInstalled", "sigMaskQueued", "fdTab"})
        /\ Same(j, k, Fields \ {"state", "ipcArgs", "eax", "prev", "sigMaskInstalled"})
        /\ j.prev = k.prev /\ j.ipcArgs = k.ipcArgs /\ j.state = k.state
    BY <1>7 DEF Same, Fields
  <1>9. Typed(j)
    BY <1>1, <1>8 DEF Same, Typed
  <1>10. Sound(j, out, aside)
    BY <1>1, <1>4, <1>8, <1>9, EditKeeps DEF Lists
  <1> QED
    BY <1>2, <1>10

(* send(), in all its outcomes, puts the caller in one place.              *)
LEMMA SendKeeps ==
    ASSUME NEW k, NEW p, NEW aside, Sound(k, {p}, aside), k.ipcArgs[p] # NULL,
           NEW dest \in Int \ {Idle, TOMBSTONE}, NEW buffer \in Buffers
    PROVE  Sound(Send(k, p, dest, buffer), {}, aside)
  <1> DEFINE r == GetPcb(k, dest)
  <1>1. /\ p \in Proc /\ p \in Slot /\ p # NULL /\ Alive(k, p) /\ Nowhere(k, p)
        /\ k.targetOfRecv[p] = p /\ k.pid[p] = p /\ Lists(k) /\ IsKernel(k)
    BY SlotFacts DEF Sound, Settled, Placed, OutOnes, Alive
  <1>2. r = IF dest \in Slot /\ Alive(k, dest) THEN dest ELSE NULL
    BY PcbFound
  <1>3. CASE dest = k.pid[p]
    <2>1. Send(k, p, dest, buffer) = Refuse(k, p, -2)
      BY <1>3 DEF Send
    <2> QED
      BY <2>1, RefuseKeeps
  <1>4. CASE dest # k.pid[p] /\ ~IsValidBuffer(buffer)
    <2>1. Send(k, p, dest, buffer) = Refuse(k, p, -3)
      BY <1>4 DEF Send
    <2> QED
      BY <2>1, RefuseKeeps
  <1>5. CASE dest # k.pid[p] /\ IsValidBuffer(buffer) /\ r = NULL
    <2>1. Send(k, p, dest, buffer) = Refuse(k, p, -1)
      BY <1>5 DEF Send
    <2> QED
      BY <2>1, RefuseKeeps
  <1>6. CASE dest # k.pid[p] /\ IsValidBuffer(buffer) /\ r # NULL
    <2>1. r = dest /\ r \in Proc /\ r \in Slot /\ r # p /\ Alive(k, r)
      BY <1>1, <1>2, <1>6, SlotFacts
    <2> HIDE DEF r
    <2>2. Send(k, p, dest, buffer)
            = IF IsProcReceiving(k, r, p)
              THEN RunSend(k, r, p)
              ELSE WithResult(AddBlockedSender(Blocked(k, p), r, p), p, 0)
      BY <1>6 DEF Send, WithResult, Blocked, r
    <2>3. CASE IsProcReceiving(k, r, p)
      <3>1. k.targetOfRecv[r] \in {p, ReceiveAny} /\ k.targetOfRecv[r] # r
        BY <1>1, <2>1, <2>3, SlotFacts DEF IsProcReceiving, ReceiveAny, Idle
      <3>2. k.ipcArgs[r] \in Buffers
        BY <2>1, <3>1 DEF Sound, Settled, Placed, ReceivingOnes, Typed
      <3>3. RmBlockedSender(k, r, p) = k
        BY <1>1, <2>1, RmSenderNowhere
      <3>4. Sound(RmBlockedRecver(k, r), {p} \cup {r}, aside)
        BY <2>1, <3>1, RmRecverKeeps
      <3>5. {p} \cup {r} = {r, p}
        OBVIOUS
      <3>6. Sound(RmBlockedRecver(RmBlockedSender(k, r, p), r), {r, p}, aside)
        BY <3>3, <3>4, <3>5
      <3>7. Sound(RunSend(k, r, p), {}, aside)
        BY <2>1, <3>2, <3>6, Delivered
      <3> QED
        BY <2>2, <2>3, <3>7
    <2>4. CASE ~IsProcReceiving(k, r, p)
      <3>1. PICK b : b = Blocked(k, p)
        OBVIOUS
      <3>2. Sound(b, {p}, aside) /\ Same(b, k, Fields \ {"state"}) /\ b.state[p] = "BLOCKED"
        BY <3>1, BlockedKeeps
      <3>3. b.targetOfRecv = k.targetOfRecv /\ b.pid = k.pid /\ b.ipcArgs = k.ipcArgs
        BY <3>2 DEF Same, Fields
      <3>4. Alive(b, r) /\ b.ipcArgs[p] # NULL /\ b.targetOfRecv[r] \notin {p, ReceiveAny}
        BY <1>1, <2>1, <2>4, <3>3 DEF Alive, IsProcReceiving
      <3>5. Sound(AddBlockedSender(b, r, p), {p} \ {p}, aside)
        BY <2>1, <3>2, <3>4, AddSenderKeeps
      <3>6. Sound(AddBlockedSender(b, r, p), {}, aside)
        <4>1. {p} \ {p} = {}
          OBVIOUS
        <4> QED
          BY <3>5, <4>1
      <3>7. Sound(WithResult(AddBlockedSender(b, r, p), p, 0), {}, aside)
        <4>1. 0 \in Int
          OBVIOUS
        <4> QED
          BY <1>1, <3>6, <4>1, ResultKeeps
      <3> QED
        BY <2>2, <2>4, <3>1, <3>7
    <2> QED
      BY <2>3, <2>4
  <1> QED
    BY <1>3, <1>4, <1>5, <1>6

(* recv(), in all its outcomes, puts the caller in one place.              *)
LEMMA RecvKeeps ==
    ASSUME NEW k, NEW p, NEW aside, Sound(k, {p}, aside), k.ipcArgs[p] # NULL,
           NEW from \in Int \ {TOMBSTONE}, NEW buffer \in Buffers
    PROVE  Sound(Recv(k, p, from, buffer), {}, aside)
  <1> DEFINE s == GetPcb(k, from)
  <1>1. /\ p \in Proc /\ p \in Slot /\ p # NULL /\ Alive(k, p) /\ Nowhere(k, p)
        /\ k.targetOfRecv[p] = p /\ k.pid[p] = p /\ Lists(k) /\ IsKernel(k)
        /\ ReceiveAny \in Slot
    BY SlotFacts DEF Sound, Settled, Placed, OutOnes, Alive, ReceiveAny, Idle
  <1>2. s = IF from \in Slot /\ Alive(k, from) THEN from ELSE NULL
    BY PcbFound
  <1>3. CASE from = k.pid[p]
    <2>1. Recv(k, p, from, buffer) = Refuse(k, p, -2)
      BY <1>3 DEF Recv
    <2> QED
      BY <2>1, RefuseKeeps
  <1>4. CASE from # k.pid[p] /\ ~IsValidBuffer(buffer)
    <2>1. Recv(k, p, from, buffer) = Refuse(k, p, -3)
      BY <1>4 DEF Recv
    <2> QED
      BY <2>1, RefuseKeeps
  <1>5. CASE from # k.pid[p] /\ IsValidBuffer(buffer) /\ from # ReceiveAny /\ s = NULL
    <2>1. Recv(k, p, from, buffer) = Refuse(k, p, -1)
      BY <1>5 DEF Recv
    <2> QED
      BY <2>1, RefuseKeeps
  <1>6. CASE from # k.pid[p] /\ IsValidBuffer(buffer) /\ (from = ReceiveAny \/ s # NULL)
    <2>1. from \in Slot /\ from # p /\ (from # ReceiveAny => s = from /\ Alive(k, from))
      BY <1>1, <1>2, <1>6
    <2> DEFINE x == IF from = ReceiveAny THEN k.senderQueue[p] ELSE s
    <2> HIDE DEF s
    <2>2. Recv(k, p, from, buffer)
            = IF IsProcSending(k, from, p)
              THEN RunSend(k, p, x)
              ELSE WithResult(Retarget(Blocked(k, p), p, from), p, 0)
      <3>1. WithResult(Retarget(Blocked(k, p), p, from), p, 0)
              = [k EXCEPT !.state[p] = "BLOCKED", !.targetOfRecv[p] = from, !.eax[p] = 0]
        BY <1>1 DEF WithResult, Retarget, Blocked, IsKernel, Fields
      <3> QED
        BY <1>6, <3>1 DEF Recv, s
    <2>3. CASE IsProcSending(k, from, p)
      <3>1. x \in On(k, p)
        <4>1. On(k, p) = Senders(k, p)
          BY <1>1, KernelFacts DEF On, Chain, Senders
        <4>2. CASE from = ReceiveAny
          <5>1. k.senderQueue[p] # NULL /\ k.senderQueue \in Links
            BY <2>3, <4>2 DEF IsProcSending, Sound, Settled, Lists
          <5>2. k.senderQueue[p] \in Slot
            BY <1>1, <5>1, SlotFacts DEF Links
          <5> QED
            BY <4>1, <4>2, <5>2, ReachHead DEF Senders
        <4>3. CASE from # ReceiveAny
          <5>1. PICK y \in Senders(k, p) : k.pid[y] = from
            BY <2>3, <4>3 DEF IsProcSending
          <5>2. Alive(k, y)
            BY <1>1, <4>1, <5>1 DEF Sound, Settled, Placed, SendingOnes
          <5> QED
            BY <2>1, <4>1, <4>3, <5>1, <5>2 DEF Alive
        <4> QED
          BY <4>2, <4>3
      <3> HIDE DEF x
      <3>2. p # x /\ k.ipcArgs[x] # NULL /\ k.ipcArgs[p] \in Buffers
        BY <1>1, <3>1 DEF Nowhere, Outside, On, Sound, Settled, Placed, SendingOnes, Typed
      <3>3. PICK k1 : k1 = RmBlockedSender(k, p, x)
        OBVIOUS
      <3>4. Sound(k1, {p} \cup {x}, aside)
        BY <1>1, <3>1, <3>3, RmSenderKeeps
      <3>5. {p} \cup {x} = {p, x} /\ p \in {p, x}
        OBVIOUS
      <3>6. Sound(RmBlockedRecver(k1, p), {p, x}, aside)
        BY <3>4, <3>5, OwnTargetKeeps
      <3>7. Sound(RunSend(k, p, x), {}, aside)
        BY <3>2, <3>3, <3>6, Delivered
      <3> QED
        BY <2>2, <2>3, <3>7
    <2>4. CASE ~IsProcSending(k, from, p)
      <3>1. PICK b : b = Blocked(k, p)
        OBVIOUS
      <3>2. Sound(b, {p}, aside) /\ Same(b, k, Fields \ {"state"}) /\ b.state[p] = "BLOCKED"
        BY <3>1, BlockedKeeps
      <3>3. /\ b.targetOfRecv = k.targetOfRecv /\ b.pid = k.pid /\ b.ipcArgs = k.ipcArgs
            /\ b.senderQueue = k.senderQueue /\ b.next = k.next
        BY <3>2 DEF Same, Fields
      <3>4. b.ipcArgs[p] # NULL /\ ~IsProcSending(b, from, p) /\ (from # ReceiveAny => Alive(b, from))
        BY <1>1, <2>1, <2>4, <3>3 DEF Alive, IsProcSending, Senders
      <3>5. Sound(Retarget(b, p, from), {p} \ {p}, aside)
        BY <2>1, <3>2, <3>4, ReceiveKeeps
      <3>6. Sound(Retarget(b, p, from), {}, aside)
        <4>1. {p} \ {p} = {}
          OBVIOUS
        <4> QED
          BY <3>5, <4>1
      <3>7. Sound(WithResult(Retarget(b, p, from), p, 0), {}, aside)
        <4>1. 0 \in Int
          OBVIOUS
        <4> QED
          BY <1>1, <3>6, <4>1, ResultKeeps
      <3> QED
        BY <2>2, <2>4, <3>1, <3>7
    <2> QED
      BY <2>3, <2>4
  <1> QED
    BY <1>3, <1>4, <1>5, <1>6

-----------------------------------------------------------------------------
(* The loops of the clean-up.  Nobody waits, so that of cleanUpWaiters()   *)
(* ends at once.                                                           *)
LEMMA NoWaiters ==
    ASSUME NEW k, NEW p, k.waitingNext[p] = NULL
    PROVE  CleanUpWaiters(k, p) = k
  <1> DEFINE Turn(t) == IF t.c = NULL THEN t
                        ELSE [k |-> ReadyWaiter(t.k, t.c), c |-> t.k.waitingNext[t.c]]
             start == [k |-> k, c |-> k.waitingNext[p]]
             IsLoop(f) == f = [n \in Turns |-> IF n = 0 THEN start ELSE Turn(f[n - 1])]
             turn == CHOOSE f : IsLoop(f)
             last == MaxPid + 1
             stay == [n \in Turns |-> start]
  <1>1. CleanUpWaiters(k, p) = turn[last].k
    BY Zenon DEF CleanUpWaiters
  <1>2. last \in Nat /\ last > 0 /\ Turns = 0..last
    BY MaxPidAssumption DEF Turns
  <1>3. Turn(start) = start /\ start.k = k
    OBVIOUS
  <1> HIDE DEF Turn, start, last
  <1>4. IsLoop(stay)
    BY <1>2, <1>3
  <1>5. IsLoop(turn)
    BY <1>4
  <1> HIDE DEF turn
  <1>6. turn[0] = start /\ \A n \in 1..last : turn[n] = Turn(turn[n - 1])
    BY <1>2, <1>5
  <1> DEFINE S == {n \in Nat : turn[n] = start}
  <1>7. 1 \in S /\ \A i \in 1..(last - 1) : i \in S => i + 1 \in S
    BY <1>2, <1>3, <1>6
  <1>8. turn[last] = start
    <2> HIDE DEF S
    <2>1. 1..last \subseteq S
      BY <1>2, <1>7, UpTo
    <2>2. last \in S
      BY <1>2, <2>1
    <2> QED
      BY <2>2 DEF S
  <1> QED
    BY <1>1, <1>3, <1>8

-----------------------------------------------------------------------------
(* A process that leaves the message queues fails and becomes ready; the   *)
(* process that dies, p, is not touched.                                   *)
Untouched(j, k, p) == j.pid = k.pid /\ j.state[p] = k.state[p]

(* A process that a clean-up wakes up becomes ready, and the list of the   *)
(* dying process p does not change.                                        *)
LEMMA WokenKeeps ==
    ASSUME NEW k, NEW out, NEW p \in out, NEW q, q \notin out, NEW aside, Sound(k, out \cup {q}, aside), NEW result \in Int
    PROVE  /\ Sound(Ready(WithResult(k, q, result), q), out, aside)
           /\ On(Ready(WithResult(k, q, result), q), p) = On(k, p)
           /\ Untouched(Ready(WithResult(k, q, result), q), k, p)
           /\ Ready(WithResult(k, q, result), q).targetOfRecv = k.targetOfRecv
           /\ Ready(WithResult(k, q, result), q).senderQueue = k.senderQueue
  <1>1. /\ q \in Proc /\ q \in Slot /\ Nowhere(k, q) /\ p \in Proc /\ p \in Slot /\ p # Idle /\ p # q
        /\ q \in out \cup {q}
    BY SlotFacts DEF Sound, Settled, Placed, OutOnes
  <1>2. PICK b : b = WithResult(k, q, result)
    OBVIOUS
  <1>3. Sound(b, out \cup {q}, aside) /\ Same(b, k, Fields \ {"eax"})
    BY <1>1, <1>2, ResultKeeps
  <1>4. PICK j : j = Ready(b, q)
    OBVIOUS
  <1>5. Sound(j, out, aside)
    <2>1. Sound(j, (out \cup {q}) \ {q}, aside)
      BY <1>1, <1>3, <1>4, ReadyKeeps
    <2>2. (out \cup {q}) \ {q} = out
      OBVIOUS
    <2> QED
      BY <2>1, <2>2
  <1>6. IsKernel(b) /\ Lists(b) /\ Typed(b) /\ Nowhere(b, q)
    BY <1>1, <1>3 DEF Sound, Settled, Placed, OutOnes
  <1>7. /\ Same(j, b, Fields \ {"readyQueue", "next", "prev", "state"})
        /\ j.state = [b.state EXCEPT ![q] = "READY"]
    BY <1>1, <1>4, <1>6, ReadyEffect
  <1>8. /\ j.pid = b.pid /\ j.targetOfRecv = b.targetOfRecv /\ j.senderQueue = b.senderQueue
        /\ b.pid = k.pid /\ b.targetOfRecv = k.targetOfRecv /\ b.senderQueue = k.senderQueue
        /\ b.state = k.state /\ b.next = k.next /\ b.readyQueue = k.readyQueue
    BY <1>3, <1>7 DEF Same, Fields
  <1>9. j.state[p] = k.state[p]
    BY <1>1, <1>6, <1>7, <1>8 DEF Typed
  <1>10. On(j, p) = On(k, p)
    <2>1. Joined(j.next, Heads(j), b.next, Heads(b), Idle, q)
      BY <1>1, <1>4, <1>6, ReadyLists
    <2>2. On(j, p) = On(b, p)
      BY <1>1, <2>1 DEF Joined, On
    <2>3. Heads(b) = Heads(k)
      BY <1>8 DEF Heads
    <2> QED
      BY <1>8, <2>2, <2>3 DEF On
  <1> QED
    BY <1>2, <1>4, <1>5, <1>8, <1>9, <1>10 DEF Untouched

(* One turn of cleanUpSenders(): the head of the list of p becomes ready.  *)
LEMMA FailSenderKeeps ==
    ASSUME NEW k, NEW out, NEW aside, Sound(k, out, aside), NEW p \in out, NEW s \in On(k, p), k.senderQueue[p] = s
    PROVE  /\ Sound(FailSender(k, p, s), out, aside)
           /\ On(FailSender(k, p, s), p) = On(k, p) \ {s}
           /\ Untouched(FailSender(k, p, s), k, p)
           /\ FailSender(k, p, s).senderQueue[p] = k.next[s]
  <1>1. p \in Proc /\ p \in Slot /\ s # p /\ s \notin out /\ k.senderQueue \in Links
    BY SlotFacts DEF Sound, Settled, Placed, OutOnes, Nowhere, Outside, On, Lists
  <1>2. PICK b : b = RmBlockedSender(k, p, s)
    OBVIOUS
  <1>3. Sound(b, out \cup {s}, aside) /\ SenderRemoved(b, k, p, s) /\ On(b, p) = On(k, p) \ {s}
    BY <1>1, <1>2, RmSenderKeeps
  <1>4. /\ b.senderQueue = [k.senderQueue EXCEPT ![p] = k.next[s]]
        /\ Same(b, k, Fields \ {"senderQueue", "next"})
    BY <1>3 DEF SenderRemoved
  <1>5. b.senderQueue[p] = k.next[s]
    BY <1>1, <1>4 DEF Links
  <1>6. b.pid = k.pid /\ b.state = k.state
    BY <1>4 DEF Same, Fields
  <1>7. PICK j : j = Ready(WithResult(b, s, -1), s)
    OBVIOUS
  <1>8. Sound(j, out, aside) /\ On(j, p) = On(b, p) /\ Untouched(j, b, p) /\ j.senderQueue = b.senderQueue
    <2>1. -1 \in Int
      OBVIOUS
    <2> QED
      BY <1>1, <1>3, <1>7, <2>1, WokenKeeps
  <1>9. FailSender(k, p, s) = j
    BY <1>2, <1>7 DEF FailSender, WithResult
  <1> QED
    BY <1>3, <1>5, <1>6, <1>8, <1>9 DEF Untouched

(* One turn of cleanUpRecvers(): a process that receives becomes ready.    *)
LEMMA FailRecverKeeps ==
    ASSUME NEW k, NEW out, NEW aside, Sound(k, out, aside), NEW p \in out,
           NEW r \in Proc, Alive(k, r), k.targetOfRecv[r] # r
    PROVE  /\ Sound(FailRecver(k, r), out, aside)
           /\ On(FailRecver(k, r), p) = On(k, p)
           /\ Untouched(FailRecver(k, r), k, p)
           /\ FailRecver(k, r).targetOfRecv = [k.targetOfRecv EXCEPT ![r] = r]
  <1>1. /\ r \notin out /\ r \in Slot /\ r # NULL /\ IsKernel(k) /\ p \in Proc /\ p \in Slot /\ k.pid[r] = r
    BY SlotFacts DEF Sound, Settled, Placed, ReceivingOnes, OutOnes, Alive
  <1>2. PICK b : b = RmBlockedRecver(k, r)
    OBVIOUS
  <1>3. b = Retarget(k, r, r)
    BY <1>1, <1>2 DEF RmBlockedRecver, Retarget
  <1>4. Retargeted(b, k, r, r)
    <2>1. PICK all : all = out \cup Away(aside)
      OBVIOUS
    <2>2. Settled(k, all)
      BY <2>1 DEF Sound
    <2>3. Alive(k, r)
      BY <1>1 DEF Alive
    <2> QED
      BY <1>1, <1>3, <2>2, <2>3, TargetChange
  <1>5. On(b, p) = On(k, p) /\ b.state = k.state
    BY <1>4 DEF Retargeted
  <1>6. b.pid = k.pid /\ b.targetOfRecv = [k.targetOfRecv EXCEPT ![r] = r]
    BY <1>1, <1>3 DEF Retarget, IsKernel, Fields
  <1>7. Sound(b, out \cup {r}, aside)
    BY <1>2, RmRecverKeeps
  <1>8. PICK j : j = Ready(WithResult(b, r, -1), r)
    OBVIOUS
  <1>9. Sound(j, out, aside) /\ On(j, p) = On(b, p) /\ Untouched(j, b, p) /\ j.targetOfRecv = b.targetOfRecv
    <2>1. PICK res \in Int : res = -1
      OBVIOUS
    <2>2. /\ Sound(Ready(WithResult(b, r, res), r), out, aside)
          /\ On(Ready(WithResult(b, r, res), r), p) = On(b, p)
          /\ Untouched(Ready(WithResult(b, r, res), r), b, p)
          /\ Ready(WithResult(b, r, res), r).targetOfRecv = b.targetOfRecv
      BY <1>1, <1>7, WokenKeeps
    <2> QED
      BY <1>8, <2>1, <2>2
  <1>10. FailRecver(k, r) = j
    <2>1. r \in Int \ {TOMBSTONE}
      BY MaxPidAssumption DEF Proc, TOMBSTONE
    <2>2. GetPcb(k, k.pid[r]) = r
      BY <1>1, <2>1, PcbFound
    <2> QED
      BY <1>1, <1>2, <1>8, <2>2 DEF FailRecver, WithResult
  <1> QED
    BY <1>5, <1>6, <1>9, <1>10 DEF Untouched

(* cleanUpSenders() empties the sender queue of the process that dies.     *)
LEMMA SendersFail ==
    ASSUME NEW k, NEW out, NEW aside, Sound(k, out, aside), NEW p \in out
    PROVE  /\ Sound(CleanUpSenders(k, p), out, aside)
           /\ On(CleanUpSenders(k, p), p) = {}
           /\ Untouched(CleanUpSenders(k, p), k, p)
  <1> DEFINE Turn(t) == IF t.c = NULL THEN t
                        ELSE [k |-> FailSender(t.k, p, t.c), c |-> t.k.next[t.c]]
             start == [k |-> k, c |-> k.senderQueue[p]]
             last == MaxPid + 1
             LoopTo(f, m) == f = [n \in 0..m |-> IF n = 0 THEN start ELSE Turn(f[n - 1])]
             turn == CHOOSE f : LoopTo(f, last)
  <1>1. CleanUpSenders(k, p) = turn[last].k
    BY Zenon DEF CleanUpSenders, Turns
  <1>2. last \in Nat /\ last > 0 /\ last \in 1..last
    BY MaxPidAssumption
  <1>3. \E f : LoopTo(f, last)
    <2> HIDE DEF Turn, start, last
    <2> DEFINE S == {m \in Nat : \E f : LoopTo(f, m)}
    <2>1. \A m \in Nat : m = 0 => m \in S
      <3>1. LoopTo([n \in 0..0 |-> start], 0)
        OBVIOUS
      <3> QED
        BY <3>1
    <2>2. \A m \in Nat : m \in S => m + 1 \in S
      <3> SUFFICES ASSUME NEW m \in Nat, NEW f, LoopTo(f, m) PROVE \E g : LoopTo(g, m + 1)
        OBVIOUS
      <3> DEFINE g == [n \in 0..(m + 1) |-> IF n = m + 1 THEN Turn(f[m]) ELSE f[n]]
      <3>1. \A n \in 0..(m + 1) : g[n] = IF n = 0 THEN start ELSE Turn(g[n - 1])
        <4>1. \A n \in 0..m : f[n] = IF n = 0 THEN start ELSE Turn(f[n - 1])
          OBVIOUS
        <4> QED
          BY <4>1
      <3>2. LoopTo(g, m + 1)
        BY <3>1
      <3> QED
        BY <3>2
    <2> HIDE DEF S
    <2>3. 1 \in S /\ \A i \in 1..(last - 1) : i \in S => i + 1 \in S
      BY <1>2, <2>1, <2>2
    <2>4. 1..last \subseteq S
      BY <1>2, <2>3, UpTo
    <2> QED
      BY <1>2, <2>4 DEF S
  <1>4. LoopTo(turn, last)
    BY <1>3
  <1> HIDE DEF turn
  <1>5. turn[0] = start /\ \A n \in 1..last : turn[n] = Turn(turn[n - 1])
    <2> HIDE DEF Turn, start, last
    <2> QED
      BY <1>2, <1>4
  <1> DEFINE Unserved(n) == On(turn[n].k, p)
             Fine(n) == /\ Sound(turn[n].k, out, aside) /\ Untouched(turn[n].k, k, p)
                        /\ turn[n].c = turn[n].k.senderQueue[p]
                        /\ turn[n].c # NULL => Cardinality(Unserved(n)) + n <= MaxPid
  <1>6. \A j : Sound(j, out, aside) =>
            /\ On(j, p) \subseteq Proc /\ On(j, p) \in SUBSET (1..MaxPid)
            /\ j.senderQueue[p] = NULL => On(j, p) = {}
            /\ j.senderQueue[p] # NULL => j.senderQueue[p] \in On(j, p)
    <2> SUFFICES ASSUME NEW j, Sound(j, out, aside)
                 PROVE  /\ On(j, p) \subseteq Proc /\ On(j, p) \in SUBSET (1..MaxPid)
                        /\ j.senderQueue[p] = NULL => On(j, p) = {}
                        /\ j.senderQueue[p] # NULL => j.senderQueue[p] \in On(j, p)
      OBVIOUS
    <2>1. p \in Proc /\ p \in Slot /\ j.senderQueue \in Links
      BY SlotFacts DEF Sound, Settled, Placed, OutOnes, Lists
    <2>2. On(j, p) = Reach(j.next, j.senderQueue[p]) /\ On(j, p) \subseteq Proc
      <3>1. Lists(j)
        BY DEF Sound, Settled
      <3> QED
        BY <2>1, <3>1, KernelFacts DEF On, Chain
    <2>3. j.senderQueue[p] # NULL => j.senderQueue[p] \in Slot
      BY <2>1, SlotFacts DEF Links
    <2> QED
      BY <2>2, <2>3, ReachHead, ReachNull DEF Proc
  <1>7. \A S \in SUBSET (1..MaxPid) : IsFiniteSet(S) /\ Cardinality(S) \in Nat /\ Cardinality(S) <= MaxPid
    <2>1. MaxPid \in Nat /\ IsFiniteSet(1..MaxPid) /\ Cardinality(1..MaxPid) = MaxPid
      <3>1. MaxPid \in Nat /\ 1 \in Int /\ MaxPid \in Int
        BY MaxPidAssumption
      <3>2. IsFiniteSet(1..MaxPid) /\ Cardinality(1..MaxPid) = IF 1 > MaxPid THEN 0 ELSE MaxPid - 1 + 1
        BY <3>1, FS_Interval, Zenon
      <3> QED
        BY <3>1, <3>2, MaxPidAssumption
    <2> QED
      BY <2>1, FS_Subset, FS_CardinalityType
  <1>8. Fine(0)
    <2>1. turn[0].k = k /\ turn[0].c = k.senderQueue[p]
      BY <1>5
    <2>2. Cardinality(On(k, p)) + 0 <= MaxPid
      BY <1>6, <1>7
    <2> QED
      BY <2>1, <2>2 DEF Untouched
  <1>9. \A n \in 0..(last - 1) : Fine(n) => Fine(n + 1)
    <2> SUFFICES ASSUME NEW n \in 0..(last - 1), Fine(n) PROVE Fine(n + 1)
      OBVIOUS
    <2>1. turn[n + 1] = Turn(turn[n])
      <3> HIDE DEF Turn, last
      <3>1. n + 1 \in 1..last /\ (n + 1) - 1 = n
        BY <1>2
      <3> QED
        BY <1>5, <3>1
    <2> DEFINE j == turn[n].k
               s == turn[n].c
    <2>2. CASE s = NULL
      <3>1. turn[n + 1] = turn[n]
        BY <2>1, <2>2
      <3>2. turn[n + 1].c = NULL
        BY <2>2, <3>1
      <3>3. Sound(turn[n + 1].k, out, aside) /\ Untouched(turn[n + 1].k, k, p)
            /\ turn[n + 1].c = turn[n + 1].k.senderQueue[p]
        BY <3>1
      <3> QED
        BY <3>2, <3>3
    <2>3. CASE s # NULL
      <3>1. s \in On(j, p) /\ j.senderQueue[p] = s /\ On(j, p) \in SUBSET (1..MaxPid)
        BY <1>6, <2>3
      <3>2. turn[n + 1].k = FailSender(j, p, s) /\ turn[n + 1].c = j.next[s]
        BY <2>1, <2>3
      <3>3. /\ Sound(FailSender(j, p, s), out, aside)
            /\ On(FailSender(j, p, s), p) = On(j, p) \ {s}
            /\ Untouched(FailSender(j, p, s), j, p)
            /\ FailSender(j, p, s).senderQueue[p] = j.next[s]
        BY <3>1, FailSenderKeeps
      <3>4. Cardinality(On(j, p) \ {s}) = Cardinality(On(j, p)) - 1
        BY <1>7, <3>1, FS_RemoveElement
      <3>5. Cardinality(On(j, p)) \in Nat /\ Cardinality(On(j, p)) + n <= MaxPid
        BY <1>7, <2>3, <3>1
      <3>6. Cardinality(Unserved(n + 1)) + (n + 1) <= MaxPid
        BY <3>2, <3>3, <3>4, <3>5, MaxPidAssumption
      <3> QED
        BY <3>2, <3>3, <3>6 DEF Untouched
    <2> QED
      BY <2>2, <2>3
  <1>10. Fine(last)
    <2> HIDE DEF Fine, last
    <2> DEFINE S == {n \in Nat : Fine(n)}
    <2>1. 1 \in S
      <3>1. Fine(0 + 1)
        BY <1>2, <1>8, <1>9
      <3> QED
        BY <3>1
    <2>2. \A i \in 1..(last - 1) : i \in S => i + 1 \in S
      BY <1>2, <1>9
    <2> HIDE DEF S
    <2>3. 1..last \subseteq S
      BY <1>2, <2>1, <2>2, UpTo
    <2> QED
      BY <1>2, <2>3 DEF S
  <1>11. turn[last].c = NULL
    <2>1. On(turn[last].k, p) \in SUBSET (1..MaxPid)
      BY <1>6, <1>10
    <2>2. Cardinality(Unserved(last)) \in Nat
      BY <1>7, <2>1
    <2>3. ~(Cardinality(Unserved(last)) + last <= MaxPid)
      BY <2>2, MaxPidAssumption
    <2> QED
      BY <1>10, <2>3
  <1>12. On(turn[last].k, p) = {}
    BY <1>6, <1>10, <1>11
  <1> QED
    BY <1>1, <1>10, <1>12

(* cleanUpRecvers() finds everybody who receives from the process that     *)
(* dies.                                                                   *)
LEMMA RecversFail ==
    ASSUME NEW k, NEW out, NEW aside, Sound(k, out, aside), NEW p \in out
    PROVE  /\ Sound(CleanUpRecvers(k, p), out, aside)
           /\ On(CleanUpRecvers(k, p), p) = On(k, p)
           /\ Untouched(CleanUpRecvers(k, p), k, p)
           /\ \A q \in Proc : Alive(k, q) /\ q # p => CleanUpRecvers(k, p).targetOfRecv[q] # p
  <1> DEFINE recvers == {x \in Slot : k.targetOfRecv[x] = k.pid[p] /\ k.pid[x] # k.pid[p]}
             Turn(x, j) == IF x \in recvers THEN FailRecver(j, x) ELSE j
             LoopTo(f, m) == f = [x \in -1..m |-> IF x = -1 THEN k ELSE Turn(x, f[x - 1])]
             upTo == CHOOSE f : LoopTo(f, MaxPid)
  <1>1. CleanUpRecvers(k, p) = upTo[MaxPid]
    BY Zenon DEF CleanUpRecvers
  <1>2. MaxPid \in Nat /\ MaxPid > 0 /\ MaxPid \in 1..MaxPid /\ Slot = 0..MaxPid
    BY MaxPidAssumption DEF Slot
  <1>3. \E f : LoopTo(f, MaxPid)
    <2> HIDE DEF Turn
    <2> DEFINE S == {m \in Nat : \E f : LoopTo(f, m)}
    <2>1. \A m \in Nat : m = 0 => m \in S
      <3> DEFINE f0 == [x \in -1..0 |-> IF x = -1 THEN k ELSE Turn(0, k)]
      <3>1. \A x \in -1..0 : f0[x] = IF x = -1 THEN k ELSE Turn(x, f0[x - 1])
        OBVIOUS
      <3>2. LoopTo(f0, 0)
        BY <3>1
      <3> QED
        BY <3>2
    <2>2. \A m \in Nat : m \in S => m + 1 \in S
      <3> SUFFICES ASSUME NEW m \in Nat, NEW f, LoopTo(f, m) PROVE \E g : LoopTo(g, m + 1)
        OBVIOUS
      <3> DEFINE g == [x \in -1..(m + 1) |-> IF x = m + 1 THEN Turn(x, f[m]) ELSE f[x]]
      <3>1. \A x \in -1..(m + 1) : g[x] = IF x = -1 THEN k ELSE Turn(x, g[x - 1])
        <4>1. \A x \in -1..m : f[x] = IF x = -1 THEN k ELSE Turn(x, f[x - 1])
          OBVIOUS
        <4> QED
          BY <4>1
      <3>2. LoopTo(g, m + 1)
        BY <3>1
      <3> QED
        BY <3>2
    <2> HIDE DEF S
    <2>3. 1 \in S /\ \A i \in 1..(MaxPid - 1) : i \in S => i + 1 \in S
      BY <1>2, <2>1, <2>2
    <2>4. 1..MaxPid \subseteq S
      BY <1>2, <2>3, UpTo
    <2> QED
      BY <1>2, <2>4 DEF S
  <1>4. LoopTo(upTo, MaxPid)
    BY <1>3
  <1> HIDE DEF upTo
  <1>5. upTo[-1] = k /\ \A x \in Slot : upTo[x] = Turn(x, upTo[x - 1])
    <2> HIDE DEF Turn
    <2>1. \A x \in -1..MaxPid : upTo[x] = IF x = -1 THEN k ELSE Turn(x, upTo[x - 1])
      BY <1>4
    <2>2. -1 \in -1..MaxPid /\ \A x \in Slot : x \in -1..MaxPid /\ x # -1
      BY <1>2
    <2> QED
      BY <2>1, <2>2
  <1>6. /\ p \in Proc /\ p \in Slot /\ Alive(k, p) /\ k.pid[p] = p /\ p # EMPTY
        /\ InOrder(k) /\ k.targetOfRecv \in [Slot -> Slot \cup {EMPTY, TOMBSTONE}]
    BY SlotFacts, MaxPidAssumption DEF Sound, Settled, Placed, OutOnes, Alive, Pids, Typed, Proc, EMPTY
  <1>7. \A x \in recvers : x \in Proc /\ Alive(k, x) /\ x # p /\ k.targetOfRecv[x] = p
    <2> SUFFICES ASSUME NEW x \in recvers PROVE x \in Proc /\ Alive(k, x) /\ x # p /\ k.targetOfRecv[x] = p
      OBVIOUS
    <2>1. x # Idle
      BY <1>6, SlotFacts DEF InOrder
    <2>2. x \in Proc /\ x # p /\ k.targetOfRecv[x] = p
      BY <1>6, <2>1, SlotFacts
    <2> QED
      BY <1>6, <2>2 DEF InOrder
  <1> DEFINE Fine(x) == /\ Sound(upTo[x], out, aside) /\ Untouched(upTo[x], k, p)
                        /\ On(upTo[x], p) = On(k, p)
                        /\ \A y \in Slot : upTo[x].targetOfRecv[y]
                                = IF y \in recvers /\ y <= x THEN y ELSE k.targetOfRecv[y]
  <1>8. \A x \in Slot : Fine(x - 1) => Fine(x)
    <2> SUFFICES ASSUME NEW x \in Slot, Fine(x - 1) PROVE Fine(x)
      OBVIOUS
    <2> DEFINE j == upTo[x - 1]
    <2>1. x \in Int
      BY <1>2
    <2>2. CASE x \in recvers
      <3>1. x \in Proc /\ Alive(j, x) /\ j.targetOfRecv[x] # x
        <4>1. x \in Proc /\ Alive(k, x) /\ x # p /\ k.targetOfRecv[x] = p
          BY <1>7, <2>2
        <4>2. j.targetOfRecv[x] = k.targetOfRecv[x]
          BY <2>1
        <4> QED
          BY <4>1, <4>2 DEF Untouched, Alive
      <3>2. upTo[x] = FailRecver(j, x)
        BY <1>5, <2>2
      <3>3. /\ Sound(FailRecver(j, x), out, aside)
            /\ On(FailRecver(j, x), p) = On(j, p)
            /\ Untouched(FailRecver(j, x), j, p)
            /\ FailRecver(j, x).targetOfRecv = [j.targetOfRecv EXCEPT ![x] = x]
        BY <3>1, FailRecverKeeps
      <3>4. \A y \in Slot : upTo[x].targetOfRecv[y] = IF y \in recvers /\ y <= x THEN y ELSE k.targetOfRecv[y]
        <4>1. j.targetOfRecv \in [Slot -> Slot \cup {EMPTY, TOMBSTONE}]
          BY DEF Sound, Settled, Typed
        <4>2. \A y \in Slot : upTo[x].targetOfRecv[y] = IF y = x THEN x ELSE j.targetOfRecv[y]
          BY <3>2, <3>3, <4>1
        <4>3. \A y \in Slot : y # x => (y <= x <=> y <= x - 1)
          BY <1>2, <2>1
        <4> QED
          BY <2>1, <2>2, <4>2, <4>3
      <3> QED
        BY <3>2, <3>3, <3>4 DEF Untouched
    <2>3. CASE x \notin recvers
      <3>1. upTo[x] = j
        BY <1>5, <2>3
      <3>2. \A y \in Slot : y \in recvers => (y <= x <=> y <= x - 1)
        BY <1>2, <2>1, <2>3
      <3> QED
        BY <3>1, <3>2
    <2> QED
      BY <2>2, <2>3
  <1>9. Fine(-1)
    <2>1. \A y \in Slot : ~(y <= -1)
      BY <1>2
    <2> QED
      BY <1>5, <2>1 DEF Untouched
  <1>10. Fine(MaxPid)
    <2> HIDE DEF Fine
    <2> DEFINE S == {n \in Nat : Fine(n)}
    <2>1. 1 \in S
      <3>1. Fine(0 - 1)
        BY <1>9
      <3>2. Fine(0)
        BY <1>2, <1>8, <3>1
      <3>3. Fine(1 - 1) /\ 1 \in Slot
        BY <1>2, <3>2
      <3> QED
        BY <1>8, <3>3
    <2>2. \A i \in 1..(MaxPid - 1) : i \in S => i + 1 \in S
      <3> SUFFICES ASSUME NEW i \in 1..(MaxPid - 1), Fine(i) PROVE Fine(i + 1)
        OBVIOUS
      <3>1. i + 1 \in Slot /\ (i + 1) - 1 = i
        BY <1>2
      <3> QED
        BY <1>8, <3>1
    <2> HIDE DEF S
    <2>3. 1..MaxPid \subseteq S
      BY <1>2, <2>1, <2>2, UpTo
    <2> QED
      BY <1>2, <2>3 DEF S
  <1>11. \A q \in Proc : Alive(k, q) /\ q # p => upTo[MaxPid].targetOfRecv[q] # p
    <2> SUFFICES ASSUME NEW q \in Proc, Alive(k, q), q # p PROVE upTo[MaxPid].targetOfRecv[q] # p
      OBVIOUS
    <2>1. q \in Slot /\ q <= MaxPid /\ k.pid[q] = q
      BY <1>2, SlotFacts DEF Alive
    <2>2. upTo[MaxPid].targetOfRecv[q] = IF q \in recvers THEN q ELSE k.targetOfRecv[q]
      BY <1>10, <2>1
    <2> QED
      BY <1>6, <2>1, <2>2
  <1> QED
    BY <1>1, <1>10, <1>11

-----------------------------------------------------------------------------
(* cleanup(), as a whole, leaves no trace of the running process.          *)
LEMMA CleanupKeeps ==
    ASSUME NEW k, NEW p, NEW aside, Sound(k, {p}, aside), k.state[p] = "RUNNING",
           "STOP" \in Requests
    PROVE  Sound(Cleanup(k, p), {}, aside)
  <1>1. p \in Proc /\ p \in Slot /\ k.waitingNext[p] = NULL /\ k.pid[p] = p
    BY SlotFacts DEF Sound, Settled, Placed, OutOnes, Quiet, Alive
  <1>2. CleanUpWaiters(k, p) = k
    BY <1>1, NoWaiters
  <1>3. PICK k1 : k1 = CleanUpSenders(k, p)
    OBVIOUS
  <1>4. p \in {p}
    OBVIOUS
  <1>5. Sound(k1, {p}, aside) /\ On(k1, p) = {} /\ Untouched(k1, k, p)
    BY <1>3, <1>4, SendersFail
  <1>6. PICK k2 : k2 = CleanUpRecvers(k1, p)
    OBVIOUS
  <1>7. /\ Sound(k2, {p}, aside) /\ On(k2, p) = On(k1, p) /\ Untouched(k2, k1, p)
        /\ \A q \in Proc : Alive(k1, q) /\ q # p => k2.targetOfRecv[q] # p
    BY <1>4, <1>5, <1>6, RecversFail
  <1>8. k2.state[p] = "RUNNING" /\ \A q : Alive(k2, q) <=> Alive(k1, q)
    BY <1>5, <1>7 DEF Untouched, Alive
  <1>9. Cleanup(k, p) = Buried(k2, p)
    BY <1>2, <1>3, <1>6, <1>8 DEF Cleanup, ReadyRemoval, Buried
  <1>10. Sound(Buried(k2, p), {}, aside)
    <2>1. Sound(Buried(k2, p), {p} \ {p}, aside)
      BY <1>4, <1>5, <1>7, <1>8, BuriedKeeps
    <2>2. {p} \ {p} = {}
      OBVIOUS
    <2> QED
      BY <2>1, <2>2
  <1> QED
    BY <1>9, <1>10

-----------------------------------------------------------------------------
(* The device calls and the keyboard interrupt write the fields of the     *)
(* keyboard, results and descriptors, and make a process ready, which they *)
(* may do twice.                                                           *)
DeviceFields == {"kbd", "eax", "fdTab"}

Edits(j, k) == IsKernel(j) /\ Same(j, k, Fields \ DeviceFields)

OnceReady(j, k, p) ==
    /\ IsKernel(j) /\ Same(j, Ready(k, p), Fields \ (DeviceFields \cup {"prev"}))
    /\ j.prev \in Links

(* A process that was made ready is the last of the ready queue.           *)
LEMMA ReadyIsLast ==
    ASSUME NEW k, IsKernel(k), Lists(k), NEW p \in Proc, Nowhere(k, p), NEW r, r = Ready(k, p)
    PROVE  /\ r.readyQueue # NULL /\ r.next \in Links /\ r.next[p] = NULL
           /\ TailOf(r.next, r.readyQueue) = p
  <1>1. Lists(r) /\ Joined(r.next, Heads(r), k.next, Heads(k), Idle, p)
    BY ReadyLists
  <1>2. /\ r.next \in Links /\ r.readyQueue \in Proc \cup {NULL} /\ p \in Slot
        /\ On(r, Idle) = Reach(r.next, r.readyQueue)
    BY <1>1, KernelFacts, SlotFacts DEF Lists, On, Chain
  <1>3. p \in Reach(r.next, r.readyQueue)
    <2>1. p \in Chain(r.next, Heads(r), Idle)
      BY <1>1, SlotFacts DEF Joined
    <2> QED
      BY <1>2, <2>1 DEF On
  <1>4. r.readyQueue # NULL /\ r.readyQueue \in Slot
    BY <1>2, <1>3, ReachNull, SlotFacts
  <1>5. r.next[p] = NULL
    <2>1. k.next \in Links
      BY KernelFacts
    <2>2. r.next = [k.next EXCEPT ![p] = NULL] \/ r.next = [k.next EXCEPT ![TailOf(k.next, k.readyQueue)] = p, ![p] = NULL]
      BY ReadyEffect
    <2> QED
      BY <1>2, <2>1, <2>2 DEF Links
  <1>6. \A t \in Reach(r.next, r.readyQueue) : r.next[t] = NULL => t = p
    BY <1>2, <1>3, <1>4, <1>5, OneEnd
  <1> QED
    BY <1>2, <1>3, <1>4, <1>5, <1>6 DEF TailOf

(* ready() of the first process of an empty queue.                         *)
LEMMA ReadyFirst ==
    ASSUME NEW k, IsKernel(k), k.readyQueue = NULL, NEW p \in Proc
    PROVE  /\ Ready(k, p).readyQueue = p
           /\ Ready(k, p).prev = [k.prev EXCEPT ![p] = NULL]
           /\ Ready(k, p).next = [k.next EXCEPT ![p] = NULL]
  BY ReadyEffect

(* What ready() makes of the queue depends on the queue alone.             *)
LEMMA ReadyAlike ==
    ASSUME NEW k, IsKernel(k), NEW i, IsKernel(i), NEW p \in Proc,
           i.readyQueue = k.readyQueue, i.next = k.next, i.prev = k.prev, i.state = k.state
    PROVE  /\ Ready(i, p).readyQueue = Ready(k, p).readyQueue /\ Ready(i, p).next = Ready(k, p).next
           /\ Ready(i, p).prev = Ready(k, p).prev /\ Ready(i, p).state = Ready(k, p).state
  <1>1. PICK r : r = Ready(k, p)
    OBVIOUS
  <1>2. PICK j : j = Ready(i, p)
    OBVIOUS
  <1>3. PICK h : h = k.readyQueue
    OBVIOUS
  <1>4. j.state = r.state
    <2>1. r.state = [k.state EXCEPT ![p] = "READY"]
      BY <1>1, ReadyEffect
    <2>2. j.state = [i.state EXCEPT ![p] = "READY"]
      BY <1>2, ReadyEffect
    <2> QED
      BY <2>1, <2>2
  <1>5. CASE h = NULL
    <2>0. k.readyQueue = NULL /\ i.readyQueue = NULL
      BY <1>3, <1>5
    <2>1. r.readyQueue = p /\ r.prev = [k.prev EXCEPT ![p] = NULL] /\ r.next = [k.next EXCEPT ![p] = NULL]
      BY <1>1, <2>0, ReadyFirst
    <2>2. j.readyQueue = p /\ j.prev = [i.prev EXCEPT ![p] = NULL] /\ j.next = [i.next EXCEPT ![p] = NULL]
      BY <1>2, <2>0, ReadyFirst
    <2> QED
      BY <1>1, <1>2, <1>4, <2>1, <2>2
  <1>6. CASE h # NULL
    <2> DEFINE tail == TailOf(k.next, k.readyQueue)
    <2>1. /\ r.readyQueue = k.readyQueue /\ r.prev = [k.prev EXCEPT ![p] = tail]
          /\ r.next = [k.next EXCEPT ![tail] = p, ![p] = NULL]
      BY <1>1, <1>3, <1>6, ReadyEffect
    <2>2. TailOf(i.next, i.readyQueue) = tail
      OBVIOUS
    <2>3. /\ j.readyQueue = i.readyQueue /\ j.prev = [i.prev EXCEPT ![p] = TailOf(i.next, i.readyQueue)]
          /\ j.next = [i.next EXCEPT ![TailOf(i.next, i.readyQueue)] = p, ![p] = NULL]
      BY <1>2, <1>3, <1>6, ReadyEffect
    <2> HIDE DEF tail
    <2> QED
      BY <1>1, <1>2, <1>4, <2>1, <2>2, <2>3
  <1> QED
    BY <1>5, <1>6

(* Writing the fields of the devices before ready() or after it comes to   *)
(* the same.                                                               *)
LEMMA ReadyOfEdit ==
    ASSUME NEW k, IsKernel(k), Lists(k), NEW p \in Proc, Nowhere(k, p), NEW i, Edits(i, k)
    PROVE  OnceReady(Ready(i, p), k, p) /\ Same(Ready(i, p), i, DeviceFields)
  <1>1. PICK r : r = Ready(k, p)
    OBVIOUS
  <1>2. PICK j : j = Ready(i, p)
    OBVIOUS
  <1>3. /\ i.readyQueue = k.readyQueue /\ i.next = k.next /\ i.prev = k.prev /\ i.state = k.state
        /\ Same(i, k, Fields \ (DeviceFields \cup {"readyQueue", "next", "prev", "state"}))
    BY DEF Edits, Same, Fields, DeviceFields
  <1>4. /\ IsKernel(j) /\ Same(j, i, Fields \ {"readyQueue", "next", "prev", "state"})
        /\ Same(r, k, Fields \ {"readyQueue", "next", "prev", "state"})
    BY <1>1, <1>2, ReadyEffect DEF Edits
  <1>5. /\ j.readyQueue = r.readyQueue /\ j.next = r.next /\ j.prev = r.prev /\ j.state = r.state
    BY <1>1, <1>2, <1>3, ReadyAlike DEF Edits
  <1>6. r.prev \in Links
    BY <1>1, ReadyLists DEF Lists
  <1>7. Same(j, r, Fields \ (DeviceFields \cup {"prev"}))
    BY <1>3, <1>4, <1>5 DEF Same, Fields, DeviceFields
  <1>8. Same(j, i, DeviceFields)
    BY <1>4 DEF Same, Fields, DeviceFields
  <1> QED
    BY <1>1, <1>2, <1>4, <1>5, <1>6, <1>7, <1>8 DEF OnceReady

(* ready() of a process that is the last of the queue already.             *)
LEMMA ReadyAgain ==
    ASSUME NEW k, IsKernel(k), Lists(k), Typed(k), NEW p \in Proc, Nowhere(k, p), NEW i, OnceReady(i, k, p)
    PROVE  OnceReady(Ready(i, p), k, p) /\ Same(Ready(i, p), i, DeviceFields)
  <1>1. PICK r : r = Ready(k, p)
    OBVIOUS
  <1>2. PICK j : j = Ready(i, p)
    OBVIOUS
  <1>3. /\ r.readyQueue # NULL /\ r.next \in Links /\ r.next[p] = NULL
        /\ TailOf(r.next, r.readyQueue) = p /\ r.state = [k.state EXCEPT ![p] = "READY"] /\ p \in Slot
    <2>1. /\ r.readyQueue # NULL /\ r.next \in Links /\ r.next[p] = NULL
          /\ TailOf(r.next, r.readyQueue) = p
      BY <1>1, ReadyIsLast
    <2>2. r.state = [k.state EXCEPT ![p] = "READY"]
      BY <1>1, ReadyEffect
    <2> QED
      BY <2>1, <2>2, SlotFacts
  <1>4. /\ i.readyQueue = r.readyQueue /\ i.next = r.next /\ i.state = r.state /\ i.prev \in Links
        /\ Same(i, r, Fields \ (DeviceFields \cup {"readyQueue", "next", "prev", "state"}))
    BY <1>1 DEF OnceReady, Same, Fields, DeviceFields
  <1>5. /\ IsKernel(j) /\ Same(j, i, Fields \ {"readyQueue", "next", "prev", "state"})
        /\ j.state = [i.state EXCEPT ![p] = "READY"] /\ j.readyQueue = i.readyQueue
        /\ j.prev = [i.prev EXCEPT ![p] = p] /\ j.next = [i.next EXCEPT ![p] = p, ![p] = NULL]
    <2>1. IsKernel(i) /\ i.readyQueue # NULL
      BY <1>3, <1>4 DEF OnceReady
    <2>2. PICK tail : tail = TailOf(i.next, i.readyQueue)
      OBVIOUS
    <2>3. tail = p
      BY <1>3, <1>4, <2>2
    <2>4. /\ IsKernel(j) /\ Same(j, i, Fields \ {"readyQueue", "next", "prev", "state"})
          /\ j.state = [i.state EXCEPT ![p] = "READY"] /\ j.readyQueue = i.readyQueue
          /\ j.prev = [i.prev EXCEPT ![p] = tail] /\ j.next = [i.next EXCEPT ![tail] = p, ![p] = NULL]
      BY <1>2, <2>1, <2>2, ReadyEffect
    <2> QED
      BY <2>3, <2>4
  <1>6. j.next = r.next
    BY <1>3, <1>4, <1>5 DEF Links
  <1>7. j.prev \in Links
    BY <1>4, <1>5 DEF Links
  <1>8. j.state = r.state
    <2>1. k.state \in [Slot -> ProcState]
      BY DEF Typed
    <2> QED
      BY <1>3, <1>4, <1>5, <2>1
  <1>9. Same(j, r, Fields \ (DeviceFields \cup {"prev"}))
    BY <1>4, <1>5, <1>6, <1>8 DEF Same, Fields, DeviceFields
  <1>10. Same(j, i, DeviceFields)
    BY <1>5 DEF Same, Fields, DeviceFields
  <1> QED
    BY <1>1, <1>2, <1>5, <1>7, <1>9, <1>10 DEF OnceReady

(* Writing the fields of the devices afterwards.                           *)
LEMMA EditOfReady ==
    ASSUME NEW k, NEW p, NEW i, OnceReady(i, k, p), NEW j, Edits(j, i)
    PROVE  OnceReady(j, k, p)
  <1>1. j.prev = i.prev
    BY DEF Edits, Same, Fields, DeviceFields
  <1>2. Same(j, Ready(k, p), Fields \ (DeviceFields \cup {"prev"}))
    BY DEF OnceReady, Edits, Same
  <1> QED
    BY <1>1, <1>2 DEF OnceReady, Edits

(* A process that was in no place, or that waited for characters, is on    *)
(* the ready queue.                                                        *)
LEMMA OnceReadyKeeps ==
    ASSUME NEW k, NEW out, NEW aside, Sound(k, out, aside), NEW p \in out \cup aside.reading,
           NEW j, OnceReady(j, k, p), j.eax \in [Slot -> Int], Console(j),
           j.fdTab \in [Slot -> [DOMAIN NoDescriptors -> 0..(DTAB_SIZE - 1) \cup {NULL}]],
           j.kbd.p = k.kbd.p \/ (Reading(k) = {} /\ j.kbd.p \in {p, NULL})
    PROVE  Sound(j, out \ {p}, [reading |-> aside.reading \ {p}, asleep |-> aside.asleep])
  <1>1. PICK all : all = out \cup Away(aside)
    OBVIOUS
  <1>2. /\ aside.reading = Reading(k) /\ aside.asleep = Sleepers(k)
        /\ Away(aside) = Reading(k) \cup Sleepers(k) /\ Sleepers(k) \subseteq Proc
        /\ IsKernel(k) /\ Lists(k) /\ Typed(k) /\ Settled(k, all) /\ Placed(k, all)
        /\ out \cap Away(aside) = {} /\ Nap(k)
    BY <1>1, AsideIs DEF Sound
  <1>3. p \in all /\ p \in Proc /\ p \in Slot /\ p # NULL
    BY <1>1, <1>2, SlotFacts DEF Placed, OutOnes
  <1>4. p \notin Sleepers(k)
    <2>1. \A x \in Sleepers(k) : k.state[x] = "SLEEPING"
      BY <1>2 DEF Nap
    <2> QED
      BY <1>2, <2>1 DEF Reading
  <1>5. PICK r : r = Ready(k, p)
    OBVIOUS
  <1>6. Settled(r, all \ {p})
    BY <1>2, <1>3, <1>5, ReadySettles
  <1>7. /\ Same(r, k, Fields \ {"readyQueue", "next", "prev", "state"})
        /\ r.state = [k.state EXCEPT ![p] = "READY"]
    BY <1>2, <1>3, <1>5, ReadyEffect
  <1>8. /\ IsKernel(j) /\ j.prev \in Links /\ Same(j, r, Fields \ (DeviceFields \cup {"prev"}))
    BY <1>5 DEF OnceReady
  <1>9. Same(j, r, Stays) /\ j.state = r.state /\ j.ipcArgs = r.ipcArgs
    BY <1>8 DEF Same, Fields, Stays, DeviceFields
  <1>10. Typed(j)
    <2>1. Same(j, r, {"process", "state", "targetOfRecv", "ipcArgs", "waitingFor", "sleepNext",
                      "sleepPrev", "sleepTime", "sigMaskInstalled", "sigMaskQueued"})
      BY <1>8 DEF Same, Fields, DeviceFields
    <2>2. Typed(r)
      BY <1>6 DEF Settled
    <2> QED
      BY <2>1, <2>2 DEF Same, Typed
  <1>11. Settled(j, all \ {p})
    BY <1>6, <1>8, <1>9, <1>10, EditSettles
  <1>12. /\ j.pid = k.pid /\ j.process = k.process /\ j.sleepList = k.sleepList
         /\ j.sleepNext = k.sleepNext /\ j.sleepTime = k.sleepTime
    BY <1>7, <1>8 DEF Same, Fields, DeviceFields
  <1>13. j.state[p] = "READY" /\ \A q \in Slot : q # p => j.state[q] = k.state[q]
    BY <1>2, <1>3, <1>7, <1>9 DEF Typed
  <1>14. Nap(j) /\ Sleepers(j) = Sleepers(k)
    <2>1. \A x \in Sleepers(k) : j.sleepTime[x] = k.sleepTime[x] /\ j.state[x] = k.state[x]
      BY <1>2, <1>4, <1>12, <1>13, SlotFacts
    <2> QED
      BY <1>2, <1>12, <2>1, NapSame
  <1>15. Reading(j) = Reading(k) \ {p}
    <2>1. \A q : Alive(j, q) <=> Alive(k, q)
      BY <1>12 DEF Alive
    <2>2. p \notin Reading(j)
      BY <1>13 DEF Reading
    <2>3. CASE j.kbd.p = k.kbd.p
      BY <1>12, <1>13, <2>1, <2>2, <2>3, SlotFacts DEF Reading
    <2>4. CASE Reading(k) = {} /\ j.kbd.p \in {p, NULL}
      BY <2>2, <2>4, SlotFacts DEF Reading
    <2> QED
      BY <2>3, <2>4
  <1>16. Aside(j) = [reading |-> aside.reading \ {p}, asleep |-> aside.asleep]
    BY <1>2, <1>14, <1>15 DEF Aside
  <1>17. (out \ {p}) \cup Away(Aside(j)) = all \ {p} /\ (out \ {p}) \cap Away(Aside(j)) = {}
    BY <1>1, <1>2, <1>4, <1>16 DEF Away
  <1> QED
    BY <1>11, <1>14, <1>16, <1>17 DEF Sound

(* Writing the fields of the devices moves nobody.                         *)
LEMMA EditsKeep ==
    ASSUME NEW k, NEW out, NEW aside, Sound(k, out, aside),
           NEW j, Edits(j, k), j.eax \in [Slot -> Int], j.fdTab = k.fdTab, Console(j),
           j.kbd.p = k.kbd.p \/ (Reading(k) = {} /\ j.kbd.p = k.process)
    PROVE  Sound(j, out, aside)
  <1>1. PICK all : all = out \cup Away(aside)
    OBVIOUS
  <1>2. /\ aside.reading = Reading(k) /\ aside.asleep = Sleepers(k) /\ aside = Aside(k)
        /\ IsKernel(k) /\ Lists(k) /\ Typed(k) /\ Settled(k, all)
        /\ out \cap Away(aside) = {} /\ Nap(k)
    BY <1>1, AsideIs DEF Sound
  <1>3. IsKernel(j) /\ Same(j, k, Fields \ DeviceFields)
    BY DEF Edits
  <1>4. Same(j, k, Stays) /\ j.state = k.state /\ j.ipcArgs = k.ipcArgs /\ j.prev = k.prev
    BY <1>3 DEF Same, Fields, Stays, DeviceFields
  <1>5. Typed(j)
    <2>1. Same(j, k, {"process", "state", "targetOfRecv", "ipcArgs", "waitingFor", "sleepNext",
                      "sleepPrev", "sleepTime", "sigMaskInstalled", "sigMaskQueued"})
      BY <1>3 DEF Same, Fields, DeviceFields
    <2> QED
      BY <1>2, <2>1 DEF Same, Typed
  <1>6. Settled(j, all)
    <2>1. j.prev \in Links
      BY <1>2, <1>4 DEF Lists
    <2> QED
      BY <1>2, <1>3, <1>4, <1>5, <2>1, EditSettles
  <1>7. /\ j.pid = k.pid /\ j.process = k.process /\ j.sleepList = k.sleepList
        /\ j.sleepNext = k.sleepNext /\ j.sleepTime = k.sleepTime
    BY <1>3 DEF Same, Fields, DeviceFields
  <1>8. Nap(j) /\ Sleepers(j) = Sleepers(k)
    BY <1>2, <1>4, <1>7, NapSame
  <1>9. Reading(j) = Reading(k)
    BY <1>4, <1>7 DEF Reading, Alive
  <1>10. Aside(j) = aside
    BY <1>2, <1>8, <1>9 DEF Aside
  <1> QED
    BY <1>1, <1>2, <1>6, <1>8, <1>10 DEF Sound

(* The two ways in which the driver ends a read, and how it goes on with   *)
(* the read of process p before that.                                      *)
Loose(i, k, p) == Edits(i, k) \/ OnceReady(i, k, p)

Held(k, p) == IsKernel(k) /\ Lists(k) /\ Typed(k) /\ p \in Proc /\ Nowhere(k, p)

(* ready() inside the driver.                                              *)
LEMMA ReadyLoose ==
    ASSUME NEW k, NEW p, Held(k, p), NEW i, Loose(i, k, p)
    PROVE  OnceReady(Ready(i, p), k, p) /\ Same(Ready(i, p), i, DeviceFields)
  BY ReadyOfEdit, ReadyAgain DEF Held, Loose

(* kbdUnblockReadProc(): the result is the number of characters.           *)
LEMMA UnblockIs ==
    ASSUME NEW k, NEW p, Held(k, p), NEW i, Loose(i, k, p), i.kbd.p = p,
           NEW j, j = UnblockReadProc(i)
    PROVE  /\ OnceReady(j, k, p) /\ j.kbd = i.kbd /\ j.fdTab = i.fdTab
           /\ j.eax = [i.eax EXCEPT ![p] = Len(i.kbd.chars)]
  <1>1. PICK m : m = Ready(i, p)
    OBVIOUS
  <1>2. OnceReady(m, k, p) /\ Same(m, i, DeviceFields)
    BY <1>1, ReadyLoose
  <1>3. IsKernel(m) /\ m.kbd = i.kbd /\ m.fdTab = i.fdTab /\ m.eax = i.eax
    BY <1>2 DEF OnceReady, Same, DeviceFields
  <1>4. j = [m EXCEPT !.eax[p] = Len(i.kbd.chars)]
    BY <1>1 DEF UnblockReadProc
  <1>5. Edits(j, m)
    BY <1>3, <1>4 DEF Edits, IsKernel, Same, DeviceFields
  <1>6. j.kbd = m.kbd /\ j.fdTab = m.fdTab /\ j.eax = [m.eax EXCEPT ![p] = Len(i.kbd.chars)]
    BY <1>3, <1>4 DEF IsKernel, Fields
  <1> QED
    BY <1>2, <1>3, <1>5, <1>6, EditOfReady

(* The driver at the end of the input.                                     *)
Ended(device) == [device EXCEPT !.state = device.state \cup {"DISABLE"}, !.irq = FALSE]

(* kbdActivateEOF(): the result is 0 and the keyboard is off.              *)
LEMMA ActivateIs ==
    ASSUME NEW k, NEW p, Held(k, p), NEW i, Loose(i, k, p), i.kbd.p = p,
           NEW j, j = ActivateEOF(i)
    PROVE  /\ OnceReady(j, k, p) /\ j.fdTab = i.fdTab /\ j.eax = [i.eax EXCEPT ![p] = 0]
           /\ j.kbd = Ended(i.kbd)
  <1>1. PICK m : m = Ready(i, p)
    OBVIOUS
  <1>2. OnceReady(m, k, p) /\ Same(m, i, DeviceFields)
    BY <1>1, ReadyLoose
  <1>3. IsKernel(m) /\ m.kbd = i.kbd /\ m.fdTab = i.fdTab /\ m.eax = i.eax
    BY <1>2 DEF OnceReady, Same, DeviceFields
  <1>4. j = [m EXCEPT !.eax[p] = 0, !.kbd.state = @ \cup {"DISABLE"}, !.kbd.irq = FALSE]
    BY <1>1 DEF ActivateEOF
  <1>5. Edits(j, m)
    BY <1>3, <1>4 DEF Edits, IsKernel, Same, DeviceFields
  <1>6. /\ j.fdTab = m.fdTab /\ j.eax = [m.eax EXCEPT ![p] = 0]
        /\ j.kbd = Ended(m.kbd)
    BY <1>3, <1>4 DEF IsKernel, Fields, Ended
  <1> QED
    BY <1>2, <1>3, <1>5, <1>6, EditOfReady

(* A read that is being served, or has been: of the keyboard only its      *)
(* flags at the end of the input concern the other processes.              *)
Served(j, k, p) ==
    /\ Loose(j, k, p)
    /\ j.fdTab = k.fdTab /\ j.eax \in [Slot -> Int]
    /\ j.kbd \in KbdType /\ j.kbd.p = p
    /\ \/ j.kbd.state = k.kbd.state /\ j.kbd.irq = k.kbd.irq
       \/ j.kbd.state = k.kbd.state \cup {"DISABLE"} /\ ~j.kbd.irq /\ OnceReady(j, k, p)

(* Ending the read keeps it so.                                            *)
LEMMA UnblockServes ==
    ASSUME NEW k, NEW p, Held(k, p), NEW i, Served(i, k, p)
    PROVE  Served(UnblockReadProc(i), k, p) /\ OnceReady(UnblockReadProc(i), k, p)
  <1>1. PICK j : j = UnblockReadProc(i)
    OBVIOUS
  <1>2. /\ OnceReady(j, k, p) /\ j.kbd = i.kbd /\ j.fdTab = i.fdTab
        /\ j.eax = [i.eax EXCEPT ![p] = Len(i.kbd.chars)]
    BY <1>1, UnblockIs DEF Served
  <1>3. Len(i.kbd.chars) \in Int
    <2>1. i.kbd.chars \in Seq(Keys)
      BY DEF Served, KbdType
    <2> QED
      BY <2>1
  <1>4. j.eax \in [Slot -> Int]
    BY <1>2, <1>3 DEF Served
  <1> QED
    BY <1>1, <1>2, <1>4 DEF Served, Loose

(* So does the end of the input.                                           *)
LEMMA ActivateServes ==
    ASSUME NEW k, NEW p, Held(k, p), NEW i, Served(i, k, p)
    PROVE  Served(ActivateEOF(i), k, p) /\ OnceReady(ActivateEOF(i), k, p)
  <1>1. PICK j : j = ActivateEOF(i)
    OBVIOUS
  <1>2. /\ OnceReady(j, k, p) /\ j.fdTab = i.fdTab /\ j.eax = [i.eax EXCEPT ![p] = 0]
        /\ j.kbd = Ended(i.kbd)
    <2>1. Loose(i, k, p) /\ i.kbd.p = p
      BY DEF Served
    <2> QED
      BY <1>1, <2>1, ActivateIs
  <1>3. j.eax \in [Slot -> Int]
    <2>1. i.eax \in [Slot -> Int]
      BY DEF Served
    <2>2. PICK zero \in Int : zero = 0
      OBVIOUS
    <2>3. j.eax = [i.eax EXCEPT ![p] = zero]
      BY <1>2, <2>2
    <2> QED
      BY <2>1, <2>3
  <1>4. i.kbd \in KbdType
    BY DEF Served
  <1>5. j.kbd \in KbdType /\ j.kbd.p = i.kbd.p /\ j.kbd.state = i.kbd.state \cup {"DISABLE"} /\ ~j.kbd.irq
    BY <1>2, <1>4 DEF KbdType, NotOpen, Ended
  <1>6. j.kbd.state = k.kbd.state \cup {"DISABLE"}
    BY <1>5 DEF Served
  <1> QED
    BY <1>1, <1>2, <1>3, <1>5, <1>6 DEF Served, Loose

(* kbdBufferTransfer() of what was typed ahead.                            *)
LEMMA TransferServes ==
    ASSUME NEW k, NEW p, Held(k, p), NEW i, Served(i, k, p), Edits(i, k), p \in Slot
    PROVE  /\ Served(BufferTransfer(i), k, p)
           /\ BufferTransfer(i).kbd.buflen = i.kbd.buflen
           /\ Len(BufferTransfer(i).kbd.chars) <= i.kbd.buflen
  <1> DEFINE buf == i.kbd.buf
             room == IF i.kbd.buflen < Len(buf) THEN i.kbd.buflen ELSE Len(buf)
             ends == {x \in 1..room : buf[x] \in {ENTER, i.kbd.eof}}
             n == IF ends = {} THEN room ELSE CHOOSE x \in ends : \A y \in ends : x <= y
             i1 == [i EXCEPT !.kbd.chars = SubSeq(buf, 1, n)]
             i2 == IF ends # {} /\ buf[n] = ENTER THEN UnblockReadProc(i1) ELSE i1
             i3 == [i2 EXCEPT !.kbd.buf = Shift(@, n), !.eax[i.kbd.p] = n]
  <1>1. BufferTransfer(i) = IF ends # {} /\ buf[n] = i.kbd.eof THEN ActivateEOF(i2) ELSE i3
    BY DEF BufferTransfer
  <1>2. buf \in Seq(Keys) /\ i.kbd.buflen \in Nat /\ i.kbd \in KbdType /\ IsKernel(i) /\ i.kbd.p = p
    BY DEF Served, KbdType, Edits
  <1>3. room \in Nat /\ room <= Len(buf) /\ room <= i.kbd.buflen
    BY <1>2
  <1> HIDE DEF room
  <1>4. n \in 0..room
    <2>1. CASE ends = {}
      BY <1>3, <2>1
    <2>2. CASE ends # {}
      <3>1. PICK all : all = ends
        OBVIOUS
      <3>2. all \subseteq 1..room /\ all # {} /\ all \in SUBSET Nat
        BY <1>3, <2>2, <3>1
      <3>3. \E x \in all : \A y \in all : x <= y
        BY <3>2, Least
      <3>4. n \in all
        BY <2>2, <3>1, <3>3
      <3> HIDE DEF n
      <3> QED
        BY <1>3, <3>2, <3>4
    <2> QED
      BY <2>1, <2>2
  <1> HIDE DEF n
  <1>5. SubSeq(buf, 1, n) \in Seq(Keys) /\ Len(SubSeq(buf, 1, n)) = n /\ Shift(buf, n) \in Seq(Keys)
    <2>1. n \in 0..Len(buf)
      BY <1>2, <1>3, <1>4
    <2> QED
      BY <1>2, <2>1 DEF Shift
  <1>6. /\ Served(i1, k, p) /\ i1.kbd.buf = buf /\ i1.kbd.buflen = i.kbd.buflen
        /\ Len(i1.kbd.chars) = n /\ i1.eax = i.eax
    <2>1. IsKernel(i1) /\ Same(i1, i, Fields \ {"kbd"}) /\ i1.kbd = [i.kbd EXCEPT !.chars = SubSeq(buf, 1, n)]
      BY <1>2 DEF IsKernel, Same, Fields
    <2>2. /\ i1.kbd \in KbdType /\ i1.kbd.buf = buf /\ i1.kbd.buflen = i.kbd.buflen /\ i1.kbd.p = p
          /\ i1.kbd.chars = SubSeq(buf, 1, n) /\ i1.kbd.state = i.kbd.state /\ i1.kbd.irq = i.kbd.irq
      <3>1. PICK chars \in Seq(Keys) : chars = SubSeq(buf, 1, n)
        BY <1>5
      <3>2. i.kbd \in KbdType /\ i.kbd.buf = buf /\ i.kbd.p = p
        BY <1>2 DEF Served
      <3>3. i1.kbd = [i.kbd EXCEPT !.chars = chars]
        BY <2>1, <3>1
      <3>4. PICK d, new : d = i.kbd /\ new = i1.kbd
        OBVIOUS
      <3> HIDE DEF i1
      <3>5. d \in KbdType /\ new = [d EXCEPT !.chars = chars]
        BY <3>2, <3>3, <3>4
      <3>6. /\ new \in KbdType /\ new.chars = chars
            /\ new.buf = d.buf /\ new.buflen = d.buflen /\ new.p = d.p
            /\ new.state = d.state /\ new.irq = d.irq
        BY <3>1, <3>5 DEF KbdType
      <3> QED
        BY <3>1, <3>2, <3>4, <3>6
    <2>3. i1.fdTab = i.fdTab /\ i1.eax = i.eax
      BY <2>1 DEF Same, Fields
    <2>4. Edits(i1, k)
      BY <2>1 DEF Edits, Same, DeviceFields
    <2>5. (i1.kbd.state = k.kbd.state /\ i1.kbd.irq = k.kbd.irq)
          \/ (i1.kbd.state = k.kbd.state \cup {"DISABLE"} /\ ~i1.kbd.irq /\ OnceReady(i, k, p))
      BY <2>2 DEF Served
    <2>6. OnceReady(i, k, p) => OnceReady(i1, k, p)
      <3>1. Edits(i1, i)
        BY <2>1 DEF Edits, Same, DeviceFields
      <3> QED
        BY <3>1, EditOfReady
    <2> QED
      BY <1>5, <2>2, <2>3, <2>4, <2>5, <2>6 DEF Served, Loose
  <1> HIDE DEF i1
  <1>7. /\ Served(i2, k, p) /\ i2.kbd = i1.kbd
    <2>1. CASE ends # {} /\ buf[n] = ENTER
      <3>1. i2 = UnblockReadProc(i1)
        BY <2>1
      <3>2. UnblockReadProc(i1).kbd = i1.kbd
        <4>1. PICK w : w = i1
          OBVIOUS
        <4>2. Loose(w, k, p) /\ w.kbd.p = p
          BY <1>6, <4>1 DEF Served
        <4>3. PICK u : u = UnblockReadProc(w)
          OBVIOUS
        <4>4. /\ OnceReady(u, k, p) /\ u.kbd = w.kbd /\ u.fdTab = w.fdTab
              /\ u.eax = [w.eax EXCEPT ![p] = Len(w.kbd.chars)]
          BY <4>2, <4>3, UnblockIs
        <4> QED
          BY <4>1, <4>3, <4>4
      <3> QED
        BY <1>6, <3>1, <3>2, UnblockServes
    <2>2. CASE ~(ends # {} /\ buf[n] = ENTER)
      <3>1. i2 = i1
        BY <2>2
      <3> QED
        BY <1>6, <3>1
    <2> QED
      BY <2>1, <2>2
  <1> HIDE DEF i2
  <1>8. CASE ends # {} /\ buf[n] = i.kbd.eof
    <2>1. PICK j : j = ActivateEOF(i2)
      OBVIOUS
    <2>2. Served(j, k, p)
      BY <1>7, <2>1, ActivateServes
    <2>3. j.kbd = Ended(i2.kbd)
      <3>1. PICK w : w = i2
        OBVIOUS
      <3>2. Loose(w, k, p) /\ w.kbd.p = p /\ j = ActivateEOF(w)
        BY <1>7, <2>1, <3>1 DEF Served
      <3>3. /\ OnceReady(j, k, p) /\ j.fdTab = w.fdTab /\ j.eax = [w.eax EXCEPT ![p] = 0]
            /\ j.kbd = Ended(w.kbd)
        BY <3>2, ActivateIs
      <3> QED
        BY <3>1, <3>3
    <2>4. i2.kbd \in KbdType
      BY <1>7 DEF Served
    <2>5. j.kbd.buflen = i2.kbd.buflen /\ j.kbd.chars = i2.kbd.chars
      BY <2>3, <2>4 DEF KbdType, Ended
    <2> QED
      BY <1>1, <1>3, <1>4, <1>6, <1>7, <1>8, <1>2, <2>1, <2>2, <2>5
  <1>9. CASE ~(ends # {} /\ buf[n] = i.kbd.eof)
    <2>1. i3 = [i2 EXCEPT !.kbd.buf = Shift(buf, n), !.eax[p] = n]
      BY <1>2, <1>6, <1>7
    <2> HIDE DEF i3
    <2>2. IsKernel(i2) /\ i2.kbd \in KbdType /\ i2.eax \in [Slot -> Int]
      BY <1>7 DEF Served, Loose, Edits, OnceReady
    <2>3. /\ IsKernel(i3) /\ Same(i3, i2, Fields \ {"kbd", "eax"})
          /\ i3.kbd = [i2.kbd EXCEPT !.buf = Shift(buf, n)] /\ i3.eax = [i2.eax EXCEPT ![p] = n]
      BY <2>1, <2>2 DEF IsKernel, Same, Fields
    <2>4. /\ i3.kbd \in KbdType /\ i3.kbd.p = i2.kbd.p /\ i3.kbd.state = i2.kbd.state /\ i3.kbd.irq = i2.kbd.irq
          /\ i3.kbd.buflen = i2.kbd.buflen /\ i3.kbd.chars = i2.kbd.chars
      BY <1>5, <2>2, <2>3 DEF KbdType
    <2>5. i3.eax \in [Slot -> Int] /\ i3.fdTab = i2.fdTab
      <3>1. n \in Int
        BY <1>3, <1>4
      <3>2. i3.fdTab = i2.fdTab
        BY <2>3 DEF Same, Fields
      <3> QED
        BY <2>2, <2>3, <3>1, <3>2
    <2>6. Edits(i3, i2)
      BY <2>3 DEF Edits, Same, DeviceFields
    <2>7. (Edits(i2, k) => Edits(i3, k)) /\ (OnceReady(i2, k, p) => OnceReady(i3, k, p))
      BY <2>6, EditOfReady DEF Edits, Same
    <2>8. Served(i3, k, p)
      BY <1>7, <2>4, <2>5, <2>7 DEF Served, Loose
    <2> QED
      BY <1>1, <1>2, <1>3, <1>4, <1>6, <1>7, <1>9, <2>4, <2>8
  <1> QED
    BY <1>8, <1>9

(* What is the same before and after.                                      *)
LEMMA LooseSame ==
    ASSUME NEW k, NEW p, Held(k, p), NEW j, Loose(j, k, p)
    PROVE  /\ IsKernel(j) /\ j.pid = k.pid /\ j.process = k.process
           /\ OnceReady(j, k, p) => j.state[p] = "READY"
           /\ \A q : Alive(j, q) <=> Alive(k, q)
           /\ p = k.process /\ j.kbd.p = k.kbd.p => Reading(j) \subseteq Reading(k)
  <1>1. PICK r : r = Ready(k, p)
    OBVIOUS
  <1>2. /\ Same(r, k, Fields \ {"readyQueue", "next", "prev", "state"})
        /\ r.state = [k.state EXCEPT ![p] = "READY"]
    BY <1>1, ReadyEffect DEF Held
  <1>3. r.pid = k.pid /\ r.process = k.process /\ r.state[p] = "READY"
        /\ \A q \in Slot : q # p => r.state[q] = k.state[q]
    BY <1>2, SlotFacts DEF Same, Fields, Held, Typed
  <1>4. OnceReady(j, k, p) => j.pid = r.pid /\ j.process = r.process /\ j.state = r.state
    BY <1>1 DEF OnceReady, Same, Fields, DeviceFields
  <1>5. Edits(j, k) => j.pid = k.pid /\ j.process = k.process /\ j.state = k.state
    BY DEF Edits, Same, Fields, DeviceFields
  <1>6. \A q : Alive(j, q) <=> Alive(k, q)
    BY <1>3, <1>4, <1>5 DEF Loose, Alive
  <1>7. p = k.process /\ j.kbd.p = k.kbd.p => Reading(j) \subseteq Reading(k)
    BY <1>3, <1>4, <1>5, <1>6, SlotFacts DEF Loose, Reading
  <1> QED
    BY <1>3, <1>4, <1>5, <1>6, <1>7 DEF Loose, Edits, OnceReady

(* The console after a read was served.                                    *)
LEMMA ServedConsole ==
    ASSUME NEW k, NEW p, Held(k, p), Console(k), k.kbd.state # NotOpen, NEW j, Served(j, k, p),
           \A q \in Reading(j) : /\ \E fd : Owns(k, q, fd)
                                 /\ j.kbd.irq /\ Len(j.kbd.chars) < j.kbd.buflen
    PROVE  Console(j)
  <1>1. \A q, fd : Owns(j, q, fd) <=> Owns(k, q, fd)
    BY LooseSame DEF Served, Owns
  <1>2. OneOwner(j)
    BY <1>1 DEF Console, OneOwner
  <1>3. "EMPTY" \in NotOpen /\ "EMPTY" \notin k.kbd.state /\ k.kbd.irq = ("DISABLE" \notin k.kbd.state)
    BY DEF Console, NotOpen
  <1>4. j.kbd \in KbdType /\ "EMPTY" \notin j.kbd.state /\ j.kbd.state # NotOpen
    BY <1>3 DEF Served
  <1>5. j.kbd.irq = ("DISABLE" \notin j.kbd.state)
    <2>1. CASE j.kbd.state = k.kbd.state /\ j.kbd.irq = k.kbd.irq
      BY <1>3, <2>1
    <2>2. CASE j.kbd.state = k.kbd.state \cup {"DISABLE"} /\ ~j.kbd.irq
      BY <1>4, <2>2 DEF KbdType
    <2> QED
      BY <2>1, <2>2 DEF Served
  <1> QED
    BY <1>1, <1>2, <1>4, <1>5 DEF Console

(* kbdG_read(), of an open keyboard or at the end of its input.            *)
LEMMA KbdReadServes ==
    ASSUME NEW k, NEW p, Held(k, p), k.kbd \in KbdType, NEW buflen \in Nat
    PROVE  LET j == KbdRead(k, p, buflen)
           IN  /\ Served(j, k, p)
               /\ \/ OnceReady(j, k, p)
                  \/ Edits(j, k) /\ "DISABLE" \notin k.kbd.state /\ Len(j.kbd.chars) < j.kbd.buflen
  <1>1. PICK k1 : k1 = [k EXCEPT !.kbd.p = p, !.kbd.chars = <<>>, !.kbd.buflen = buflen]
    OBVIOUS
  <1>2. PICK k2 : k2 = BufferTransfer(k1)
    OBVIOUS
  <1>3. KbdRead(k, p, buflen) = IF "DISABLE" \in k.kbd.state THEN ActivateEOF(k1)
                                ELSE IF Len(k2.kbd.chars) = buflen THEN UnblockReadProc(k2) ELSE k2
    BY <1>1, <1>2 DEF KbdRead
  <1>4. IsKernel(k) /\ p \in Proc /\ p \in Slot /\ Typed(k)
    BY SlotFacts DEF Held
  <1>5. /\ IsKernel(k1) /\ Same(k1, k, Fields \ {"kbd"})
        /\ k1.kbd = [k.kbd EXCEPT !.p = p, !.chars = <<>>, !.buflen = buflen]
    BY <1>1, <1>4 DEF IsKernel, Same, Fields
  <1>6. /\ k1.kbd \in KbdType /\ k1.kbd.p = p /\ k1.kbd.buflen = buflen
        /\ k1.kbd.state = k.kbd.state /\ k1.kbd.irq = k.kbd.irq
    <2>0. <<>> \in Seq(Keys)
      OBVIOUS
    <2>1. PICK nothing \in Seq(Keys) : nothing = <<>>
      BY <2>0, Zenon
    <2>2. k1.kbd = [k.kbd EXCEPT !.p = p, !.chars = nothing, !.buflen = buflen]
      BY <1>5, <2>1
    <2> QED
      BY <1>4, <2>2 DEF KbdType
  <1>7. Edits(k1, k) /\ k1.fdTab = k.fdTab /\ k1.eax = k.eax
    BY <1>5 DEF Edits, Same, Fields, DeviceFields
  <1>8. Served(k1, k, p)
    BY <1>4, <1>6, <1>7 DEF Served, Loose, Typed
  <1>9. CASE "DISABLE" \in k.kbd.state
    BY <1>3, <1>8, <1>9, ActivateServes
  <1>10. CASE "DISABLE" \notin k.kbd.state
    <2>1. Served(k2, k, p) /\ k2.kbd.buflen = buflen /\ Len(k2.kbd.chars) <= buflen
      BY <1>2, <1>4, <1>6, <1>7, <1>8, TransferServes
    <2>2. CASE Len(k2.kbd.chars) = buflen
      BY <1>3, <1>10, <2>1, <2>2, UnblockServes
    <2>3. CASE Len(k2.kbd.chars) # buflen
      <3>1. Len(k2.kbd.chars) < buflen
        <4>1. k2.kbd.chars \in Seq(Keys)
          BY <2>1 DEF Served, KbdType
        <4>2. Len(k2.kbd.chars) \in Nat
          BY <4>1
        <4> QED
          BY <2>1, <2>3, <4>2
      <3> QED
        BY <1>3, <1>10, <2>1, <2>3, <3>1 DEF Served, Loose
    <2> QED
      BY <2>2, <2>3
  <1> QED
    BY <1>9, <1>10

(* The process that makes a device call has the keyboard to itself if it   *)
(* has a descriptor for it.                                                *)
LEMMA CallerFacts ==
    ASSUME NEW k, NEW p, NEW aside, Sound(k, {p}, aside), p = k.process
    PROVE  /\ Held(k, p) /\ p \in Proc /\ p \in Slot /\ Alive(k, p)
           /\ k.fdTab \in [Slot -> [DOMAIN NoDescriptors -> 0..(DTAB_SIZE - 1) \cup {NULL}]]
           /\ Console(k) /\ k.kbd \in KbdType /\ aside.reading = Reading(k)
           /\ aside = [reading |-> aside.reading, asleep |-> aside.asleep]
           /\ \A fd : ValidFd(k, p, fd) => /\ Owns(k, p, fd) /\ Reading(k) = {} /\ k.kbd.state # NotOpen
                                           /\ \A q, gd : Owns(k, q, gd) => q = p /\ gd = fd
           /\ k.kbd.state = NotOpen => Reading(k) = {} /\ \A q, gd : ~Owns(k, q, gd)
  <1>1. /\ Held(k, p) /\ p \in Proc /\ p \in Slot /\ Alive(k, p)
        /\ k.fdTab \in [Slot -> [DOMAIN NoDescriptors -> 0..(DTAB_SIZE - 1) \cup {NULL}]]
    BY SlotFacts DEF Sound, Settled, Placed, OutOnes, Held, Typed
  <1>2. Console(k) /\ k.kbd \in KbdType /\ aside.reading = Reading(k)
        /\ aside = [reading |-> aside.reading, asleep |-> aside.asleep]
    BY DEF Sound, Console, Aside
  <1>3. \A fd : ValidFd(k, p, fd) => Owns(k, p, fd)
    BY <1>1 DEF ValidFd, Owns
  <1>4. \A fd, q, gd : Owns(k, p, fd) /\ Owns(k, q, gd) => q = p /\ gd = fd
    BY <1>2 DEF Console, OneOwner
  <1>5. \A q \in Reading(k) : q # p /\ \E gd : Owns(k, q, gd)
    BY <1>2 DEF Console, Reading
  <1>6. k.kbd.state = NotOpen => Reading(k) = {} /\ \A q, gd : ~Owns(k, q, gd)
    BY <1>2, <1>5 DEF Console
  <1> QED
    BY <1>1, <1>2, <1>3, <1>4, <1>5, <1>6

(* A call that made its caller ready again.                                *)
LEMMA CallerReady ==
    ASSUME NEW k, NEW p, NEW aside, Sound(k, {p}, aside), p = k.process,
           NEW j, OnceReady(j, k, p), j.eax \in [Slot -> Int], Console(j),
           j.fdTab \in [Slot -> [DOMAIN NoDescriptors -> 0..(DTAB_SIZE - 1) \cup {NULL}]],
           j.kbd.p = k.kbd.p \/ (Reading(k) = {} /\ j.kbd.p \in {p, NULL})
    PROVE  Sound(j, {}, aside)
  <1>1. PICK out : out = {p}
    OBVIOUS
  <1>2. Sound(k, out, aside) /\ p \in out \cup aside.reading
    BY <1>1
  <1>3. Sound(j, out \ {p}, [reading |-> aside.reading \ {p}, asleep |-> aside.asleep])
    BY <1>2, OnceReadyKeeps
  <1>4. p \notin Reading(k) /\ out \ {p} = {}
    BY <1>1 DEF Reading
  <1>5. [reading |-> aside.reading \ {p}, asleep |-> aside.asleep] = aside
    <2>1. aside.reading \ {p} = aside.reading
      BY <1>4, CallerFacts
    <2> QED
      BY <2>1, CallerFacts
  <1> QED
    BY <1>3, <1>4, <1>5

(* di_read(): the call returns, or its caller waits for characters.        *)
LEMMA DiReadKeeps ==
    ASSUME NEW k, NEW p, NEW aside, Sound(k, {p}, aside), p = k.process, k.state[p] = "RUNNING",
           NEW fd, NEW valid \in BOOLEAN, NEW buflen \in Nat
    PROVE  \/ Sound(DiRead(k, p, fd, valid, buflen), {}, aside)
           \/ /\ Sound(DiRead(k, p, fd, valid, buflen), {p}, aside)
              /\ DiRead(k, p, fd, valid, buflen).process = p
              /\ MayRead(DiRead(k, p, fd, valid, buflen), p)
  <1>1. CASE ~valid \/ ~ValidFd(k, p, fd)
    <2>1. DiRead(k, p, fd, valid, buflen) = Refuse(k, p, -1)
      BY <1>1 DEF DiRead, Refuse
    <2> QED
      BY <2>1, RefuseKeeps
  <1>2. CASE valid /\ ValidFd(k, p, fd)
    <2>1. PICK j : j = KbdRead(k, p, buflen)
      OBVIOUS
    <2>2. DiRead(k, p, fd, valid, buflen) = j
      BY <1>2, <2>1 DEF DiRead
    <2>3. /\ Held(k, p) /\ Owns(k, p, fd) /\ Reading(k) = {} /\ k.kbd.state # NotOpen
          /\ Console(k) /\ k.kbd \in KbdType
          /\ k.fdTab \in [Slot -> [DOMAIN NoDescriptors -> 0..(DTAB_SIZE - 1) \cup {NULL}]]
      BY <1>2, CallerFacts
    <2>4. /\ Served(j, k, p)
          /\ \/ OnceReady(j, k, p)
             \/ Edits(j, k) /\ "DISABLE" \notin k.kbd.state /\ Len(j.kbd.chars) < j.kbd.buflen
      BY <2>1, <2>3, KbdReadServes
    <2>5. j.process = k.process /\ j.kbd.p = p /\ Reading(j) = {}
      BY <2>3, <2>4, LooseSame DEF Served, Reading
    <2>6. Console(j)
      BY <2>3, <2>4, <2>5, ServedConsole
    <2>7. CASE OnceReady(j, k, p)
      <3>1. Sound(j, {}, aside)
        BY <2>3, <2>4, <2>5, <2>6, <2>7, CallerReady DEF Served
      <3> QED
        BY <2>2, <3>1
    <2>8. CASE Edits(j, k) /\ ~OnceReady(j, k, p) /\ "DISABLE" \notin k.kbd.state /\ Len(j.kbd.chars) < j.kbd.buflen
      <3>1. Sound(j, {p}, aside)
        BY <2>3, <2>4, <2>5, <2>6, <2>8, EditsKeep DEF Served
      <3>2. j.state = k.state
        BY <2>8 DEF Edits, Same, Fields, DeviceFields
      <3>3. Owns(j, p, fd)
        BY <2>3, <2>4, LooseSame DEF Served, Owns
      <3>4. j.kbd.irq
        BY <2>3, <2>4, <2>8 DEF Served, Console
      <3> QED
        BY <2>2, <2>5, <2>8, <3>1, <3>2, <3>3, <3>4 DEF MayRead
    <2> QED
      BY <2>4, <2>7, <2>8
  <1> QED
    BY <1>1, <1>2

(* The descriptors of a process.                                           *)
LEMMA FdWritten ==
    ASSUME NEW t, t \in [Slot -> [DOMAIN NoDescriptors -> 0..(DTAB_SIZE - 1) \cup {NULL}]],
           NEW p \in Slot, NEW fd \in DOMAIN NoDescriptors, NEW v \in 0..(DTAB_SIZE - 1) \cup {NULL},
           NEW t2, t2 = [t EXCEPT ![p][fd] = v]
    PROVE  /\ t2 \in [Slot -> [DOMAIN NoDescriptors -> 0..(DTAB_SIZE - 1) \cup {NULL}]]
           /\ \A q \in Slot, gd \in DOMAIN NoDescriptors :
                t2[q][gd] = IF q = p /\ gd = fd THEN v ELSE t[q][gd]
  <1> DEFINE D == DOMAIN NoDescriptors
             V == 0..(DTAB_SIZE - 1) \cup {NULL}
  <1>1. t \in [Slot -> [D -> V]] /\ fd \in D /\ v \in V
    OBVIOUS
  <1> HIDE DEF D, V
  <1>2. t2 \in [Slot -> [D -> V]]
    BY <1>1
  <1>3. \A q \in Slot, gd \in D : t2[q][gd] = IF q = p /\ gd = fd THEN v ELSE t[q][gd]
    BY <1>1
  <1> QED
    BY <1>2, <1>3 DEF D, V

(* di_write() returns an error, one way or the other.                      *)
LEMMA DiWriteKeeps ==
    ASSUME NEW k, NEW p, NEW aside, Sound(k, {p}, aside), NEW fd, NEW valid \in BOOLEAN
    PROVE  Sound(DiWrite(k, p, fd, valid), {}, aside)
  <1>1. DiWrite(k, p, fd, valid) = Refuse(k, p, -1)
    BY DEF DiWrite, KbdWrite, Refuse
  <1> QED
    BY <1>1, RefuseKeeps

(* di_open(): of a keyboard that is not open, or refused.                  *)
LEMMA DiOpenKeeps ==
    ASSUME NEW k, NEW p, NEW aside, Sound(k, {p}, aside), p = k.process, NEW dev \in Nat
    PROVE  Sound(DiOpen(k, p, dev), {}, aside)
  <1> DEFINE free == {f \in DOMAIN NoDescriptors : k.fdTab[p][f] = NULL}
             fd == CHOOSE f \in free : \A g \in free : f <= g
  <1>1. CASE dev >= DTAB_SIZE \/ free = {}
    <2>1. DiOpen(k, p, dev) = Refuse(k, p, -1)
      BY <1>1 DEF DiOpen, Refuse
    <2> QED
      BY <2>1, RefuseKeeps
  <1>2. CASE ~(dev >= DTAB_SIZE \/ free = {})
    <2>1. fd \in DOMAIN NoDescriptors /\ fd \in Int /\ k.fdTab[p][fd] = NULL
      <3>1. free \in SUBSET Nat
        BY DEF NoDescriptors, FDT_SIZE
      <3>2. \E f \in free : \A g \in free : f <= g
        BY <1>2, <3>1, Least
      <3> QED
        BY <3>1, <3>2
    <2>2. dev \in 0..(DTAB_SIZE - 1) /\ dev # NULL
      <3>1. dev = 0 \/ dev = 1
        BY <1>2 DEF DTAB_SIZE
      <3> QED
        BY <3>1, NullAssumption, MaxPidAssumption DEF DTAB_SIZE, Slot
    <2>3. /\ Held(k, p) /\ p \in Proc /\ p \in Slot /\ IsKernel(k) /\ Lists(k) /\ Typed(k)
          /\ Console(k) /\ k.kbd \in KbdType /\ Nowhere(k, p)
          /\ k.fdTab \in [Slot -> [DOMAIN NoDescriptors -> 0..(DTAB_SIZE - 1) \cup {NULL}]]
          /\ k.kbd.state = NotOpen => Reading(k) = {} /\ \A q, gd : ~Owns(k, q, gd)
      BY CallerFacts DEF Held
    <2>4. PICK k1 : k1 = FillFD(k, p, fd, dev)
      OBVIOUS
    <2>5. DiOpen(k, p, dev) = IF k.kbd.state # NotOpen
                              THEN [ClearFD(Ready(k1, p), p, fd) EXCEPT !.eax[p] = -1]
                              ELSE [KbdOpen(k1, p, dev) EXCEPT !.eax[p] = fd]
      BY <1>2, <2>4 DEF DiOpen
    <2> HIDE DEF fd, free
    <2>6. /\ IsKernel(k1) /\ Same(k1, k, Fields \ {"fdTab"})
          /\ k1.fdTab = [k.fdTab EXCEPT ![p][fd] = dev]
      BY <2>3, <2>4 DEF FillFD, IsKernel, Same, Fields
    <2>7. /\ k1.fdTab \in [Slot -> [DOMAIN NoDescriptors -> 0..(DTAB_SIZE - 1) \cup {NULL}]]
          /\ \A q \in Slot, gd \in DOMAIN NoDescriptors :
               k1.fdTab[q][gd] = IF q = p /\ gd = fd THEN dev ELSE k.fdTab[q][gd]
      BY <2>1, <2>2, <2>3, <2>6, FdWritten
    <2>8. Edits(k1, k) /\ k1.kbd = k.kbd /\ k1.eax = k.eax
      BY <2>6 DEF Edits, Same, Fields, DeviceFields
    <2>9. PICK m : m = Ready(k1, p)
      OBVIOUS
    <2>10. OnceReady(m, k, p) /\ IsKernel(m) /\ m.kbd = k.kbd /\ m.eax = k.eax /\ m.fdTab = k1.fdTab
      <3>1. OnceReady(m, k, p) /\ Same(m, k1, DeviceFields)
        BY <2>3, <2>8, <2>9, ReadyOfEdit
      <3> QED
        BY <2>8, <3>1 DEF OnceReady, Same, DeviceFields
    <2>11. k.eax \in [Slot -> Int]
      BY <2>3 DEF Typed
    <2>12. CASE k.kbd.state # NotOpen
      <3>1. PICK j : j = [ClearFD(m, p, fd) EXCEPT !.eax[p] = -1]
        OBVIOUS
      <3>2. /\ IsKernel(j) /\ Same(j, m, Fields \ {"fdTab", "eax"})
            /\ j.fdTab = [m.fdTab EXCEPT ![p][fd] = NULL] /\ j.eax = [m.eax EXCEPT ![p] = -1]
        BY <2>10, <3>1 DEF ClearFD, IsKernel, Same, Fields
      <3>3. j.fdTab = k.fdTab
        <4>1. /\ j.fdTab \in [Slot -> [DOMAIN NoDescriptors -> 0..(DTAB_SIZE - 1) \cup {NULL}]]
              /\ \A q \in Slot, gd \in DOMAIN NoDescriptors :
                   j.fdTab[q][gd] = IF q = p /\ gd = fd THEN NULL ELSE k1.fdTab[q][gd]
          BY <2>1, <2>3, <2>7, <2>10, <3>2, FdWritten
        <4>2. \A q \in Slot, gd \in DOMAIN NoDescriptors : j.fdTab[q][gd] = k.fdTab[q][gd]
          BY <2>1, <2>7, <4>1
        <4> QED
          BY <2>3, <4>1, <4>2
      <3>4. Edits(j, m) /\ j.kbd = k.kbd
        BY <2>10, <3>2 DEF Edits, Same, Fields, DeviceFields
      <3>5. OnceReady(j, k, p)
        BY <2>10, <3>4, EditOfReady
      <3>6. j.eax \in [Slot -> Int]
        <4>1. PICK res \in Int : res = -1
          OBVIOUS
        <4>2. j.eax = [k.eax EXCEPT ![p] = res]
          BY <2>10, <3>2, <4>1
        <4> QED
          BY <2>11, <4>2
      <3>7. Console(j)
        <4>1. \A q, gd : Owns(j, q, gd) <=> Owns(k, q, gd)
          BY <2>3, <3>3, <3>5, LooseSame DEF Loose, Owns
        <4>2. Reading(j) \subseteq Reading(k)
          BY <2>3, <3>4, <3>5, LooseSame DEF Loose
        <4> QED
          BY <2>3, <3>4, <4>1, <4>2, ConsoleSame
      <3>8. Sound(j, {}, aside)
        BY <2>3, <3>3, <3>4, <3>5, <3>6, <3>7, CallerReady
      <3> QED
        BY <2>5, <2>9, <2>12, <3>1, <3>8
    <2>13. CASE k.kbd.state = NotOpen
      <3>1. PICK j : j = [KbdOpen(k1, p, dev) EXCEPT !.eax[p] = fd]
        OBVIOUS
      <3> DEFINE flags == IF dev = KBD1 THEN {"ECHO"} ELSE {}
      <3>2. j = [m EXCEPT !.kbd.state = flags, !.kbd.buf = <<>>, !.kbd.p = NULL, !.kbd.eof = C_D,
                          !.kbd.irq = TRUE, !.eax[p] = fd]
        BY <2>9, <3>1 DEF KbdOpen
      <3>3. flags \subseteq NotOpen /\ flags # NotOpen /\ "EMPTY" \notin flags /\ "DISABLE" \notin flags
        BY DEF NotOpen
      <3> HIDE DEF flags
      <3>4. /\ IsKernel(j) /\ Same(j, m, Fields \ {"kbd", "eax"})
            /\ j.kbd = [m.kbd EXCEPT !.state = flags, !.buf = <<>>, !.p = NULL, !.eof = C_D, !.irq = TRUE]
            /\ j.eax = [m.eax EXCEPT ![p] = fd]
        BY <2>10, <3>2 DEF IsKernel, Same, Fields
      <3>5. /\ j.kbd \in KbdType /\ j.kbd.state = flags /\ j.kbd.p = NULL /\ j.kbd.irq
        <4>0. <<>> \in Seq(Keys)
          OBVIOUS
        <4>1. PICK nothing \in Seq(Keys) : nothing = <<>>
          BY <4>0, Zenon
        <4>2. j.kbd = [k.kbd EXCEPT !.state = flags, !.buf = nothing, !.p = NULL, !.eof = C_D, !.irq = TRUE]
          BY <2>10, <3>4, <4>1
        <4> QED
          BY <2>3, <3>3, <4>2 DEF KbdType
      <3>6. Edits(j, m) /\ j.fdTab = k1.fdTab
        BY <2>10, <3>4 DEF Edits, Same, Fields, DeviceFields
      <3>7. OnceReady(j, k, p) /\ Alive(k, p)
        BY <2>10, <3>6, EditOfReady, CallerFacts
      <3>8. j.eax \in [Slot -> Int]
        <4>1. j.eax = [k.eax EXCEPT ![p] = fd] /\ fd \in Int
          BY <2>1, <2>10, <3>4
        <4> QED
          BY <2>11, <4>1
      <3>9. \A q, gd : Owns(j, q, gd) <=> q = p /\ gd = fd
        <4>1. \A q : Alive(j, q) <=> Alive(k, q)
          BY <2>3, <3>7, LooseSame DEF Loose
        <4>2. ASSUME NEW q, NEW gd, Owns(j, q, gd) PROVE q = p /\ gd = fd
          <5>1. /\ q \in Proc /\ q \in Slot /\ Alive(k, q) /\ gd \in DOMAIN NoDescriptors
                /\ k1.fdTab[q][gd] # NULL
            BY <3>6, <4>1, <4>2, SlotFacts DEF Owns
          <5>2. ~Owns(k, q, gd)
            BY <2>3, <2>13
          <5>3. k.fdTab[q][gd] = NULL
            BY <5>1, <5>2 DEF Owns
          <5> QED
            BY <2>7, <5>1, <5>3
        <4>3. Owns(j, p, fd)
          <5>1. k1.fdTab[p][fd] = dev
            BY <2>1, <2>3, <2>7
          <5> QED
            BY <2>1, <2>2, <2>3, <3>6, <3>7, <4>1, <5>1 DEF Owns
        <4> QED
          BY <4>2, <4>3
      <3>10. Console(j)
        <4>1. Reading(j) = {}
          BY <3>5, SlotFacts DEF Reading
        <4>2. OneOwner(j)
          BY <3>9 DEF OneOwner
        <4>3. \E q, gd : Owns(j, q, gd)
          BY <3>9
        <4> QED
          BY <3>3, <3>5, <4>1, <4>2, <4>3 DEF Console
      <3>11. Sound(j, {}, aside)
        <4>1. j.fdTab \in [Slot -> [DOMAIN NoDescriptors -> 0..(DTAB_SIZE - 1) \cup {NULL}]]
          BY <2>7, <3>6
        <4> QED
          BY <2>3, <2>13, <3>5, <3>7, <3>8, <3>10, <4>1, CallerReady
      <3> QED
        BY <2>5, <2>13, <3>1, <3>11
    <2> QED
      BY <2>12, <2>13
  <1> QED
    BY <1>1, <1>2

(* di_close(): the keyboard has no owner any more.                         *)
LEMMA DiCloseKeeps ==
    ASSUME NEW k, NEW p, NEW aside, Sound(k, {p}, aside), p = k.process, NEW fd
    PROVE  Sound(DiClose(k, p, fd), {}, aside)
  <1>1. CASE ~ValidFd(k, p, fd)
    <2>1. DiClose(k, p, fd) = Refuse(k, p, -1)
      BY <1>1 DEF DiClose, Refuse
    <2> QED
      BY <2>1, RefuseKeeps
  <1>2. CASE ValidFd(k, p, fd)
    <2>1. /\ Held(k, p) /\ p \in Proc /\ p \in Slot /\ IsKernel(k) /\ Lists(k) /\ Typed(k)
          /\ k.kbd \in KbdType /\ Nowhere(k, p) /\ fd \in DOMAIN NoDescriptors
          /\ k.fdTab \in [Slot -> [DOMAIN NoDescriptors -> 0..(DTAB_SIZE - 1) \cup {NULL}]]
          /\ Reading(k) = {} /\ \A q, gd : Owns(k, q, gd) => q = p /\ gd = fd
      BY <1>2, CallerFacts DEF Held, ValidFd
    <2>2. PICK m : m = Ready(k, p)
      OBVIOUS
    <2>3. OnceReady(m, k, p) /\ IsKernel(m) /\ m.kbd = k.kbd /\ m.eax = k.eax /\ m.fdTab = k.fdTab
      <3>1. Edits(k, k)
        BY <2>1 DEF Edits, Same
      <3>2. OnceReady(m, k, p) /\ Same(m, k, DeviceFields)
        BY <2>1, <2>2, <3>1, ReadyOfEdit
      <3> QED
        BY <3>2 DEF OnceReady, Same, DeviceFields
    <2>4. PICK j : j = DiClose(k, p, fd)
      OBVIOUS
    <2>5. j = [m EXCEPT !.kbd.state = NotOpen, !.kbd.irq = FALSE, !.fdTab[p][fd] = NULL, !.eax[p] = 0]
      BY <1>2, <2>2, <2>4 DEF DiClose, KbdClose, ClearFD
    <2>6. /\ IsKernel(j) /\ Same(j, m, Fields \ {"kbd", "fdTab", "eax"})
          /\ j.kbd = [m.kbd EXCEPT !.state = NotOpen, !.irq = FALSE]
          /\ j.fdTab = [m.fdTab EXCEPT ![p][fd] = NULL] /\ j.eax = [m.eax EXCEPT ![p] = 0]
      BY <2>3, <2>5 DEF IsKernel, Same, Fields
    <2>7. OnceReady(j, k, p)
      <3>1. Edits(j, m)
        BY <2>6 DEF Edits, Same, DeviceFields
      <3> QED
        BY <2>3, <3>1, EditOfReady
    <2>8. /\ j.fdTab \in [Slot -> [DOMAIN NoDescriptors -> 0..(DTAB_SIZE - 1) \cup {NULL}]]
          /\ \A q \in Slot, gd \in DOMAIN NoDescriptors :
               j.fdTab[q][gd] = IF q = p /\ gd = fd THEN NULL ELSE k.fdTab[q][gd]
      BY <2>1, <2>3, <2>6, FdWritten
    <2>9. j.eax \in [Slot -> Int]
      BY <2>1, <2>3, <2>6 DEF Typed
    <2>10. j.kbd \in KbdType /\ j.kbd.p = k.kbd.p /\ j.kbd.state = NotOpen /\ ~j.kbd.irq
      BY <2>1, <2>3, <2>6 DEF KbdType
    <2>11. \A q, gd : ~Owns(j, q, gd)
      <3> SUFFICES ASSUME NEW q, NEW gd, Owns(j, q, gd) PROVE FALSE
        OBVIOUS
      <3>1. q \in Proc /\ q \in Slot /\ Alive(k, q) /\ gd \in DOMAIN NoDescriptors /\ j.fdTab[q][gd] # NULL
        BY <2>1, <2>7, LooseSame, SlotFacts DEF Loose, Owns
      <3>2. ~(q = p /\ gd = fd) /\ k.fdTab[q][gd] # NULL
        BY <2>8, <3>1
      <3>3. Owns(k, q, gd)
        BY <3>1, <3>2 DEF Owns
      <3> QED
        BY <2>1, <3>2, <3>3
    <2>12. Console(j)
      <3>1. Reading(j) = {}
        <4>1. Reading(j) \subseteq Reading(k)
          BY <2>1, <2>7, <2>10, LooseSame DEF Loose
        <4> QED
          BY <2>1, <4>1
      <3> QED
        BY <2>10, <2>11, <3>1 DEF Console, OneOwner
    <2>13. Sound(j, {}, aside)
      BY <2>7, <2>8, <2>9, <2>10, <2>12, CallerReady
    <2> QED
      BY <2>4, <2>13
  <1> QED
    BY <1>1, <1>2

(* di_ioctl(): the echo and the character that ends the input.             *)
LEMMA DiIoctlKeeps ==
    ASSUME NEW k, NEW p, NEW aside, Sound(k, {p}, aside), p = k.process, NEW fd,
           NEW command, NEW char, command = "KBD_IOCTL_EOF" => char \in EofChars
    PROVE  Sound(DiIoctl(k, p, fd, command, char), {}, aside)
  <1>1. CASE ~ValidFd(k, p, fd)
    <2>1. DiIoctl(k, p, fd, command, char) = Refuse(k, p, -1)
      BY <1>1 DEF DiIoctl, Refuse
    <2> QED
      BY <2>1, RefuseKeeps
  <1>2. CASE ValidFd(k, p, fd)
    <2>1. /\ Held(k, p) /\ p \in Proc /\ p \in Slot /\ IsKernel(k) /\ Lists(k) /\ Typed(k)
          /\ k.kbd \in KbdType /\ Nowhere(k, p) /\ Console(k) /\ k.kbd.state # NotOpen
          /\ k.fdTab \in [Slot -> [DOMAIN NoDescriptors -> 0..(DTAB_SIZE - 1) \cup {NULL}]]
          /\ Reading(k) = {}
      BY <1>2, CallerFacts DEF Held
    <2>2. PICK m : m = Ready(k, p)
      OBVIOUS
    <2>3. OnceReady(m, k, p) /\ IsKernel(m) /\ m.kbd = k.kbd /\ m.eax = k.eax /\ m.fdTab = k.fdTab
      <3>1. Edits(k, k)
        BY <2>1 DEF Edits, Same
      <3>2. OnceReady(m, k, p) /\ Same(m, k, DeviceFields)
        BY <2>1, <2>2, <3>1, ReadyOfEdit
      <3> QED
        BY <3>2 DEF OnceReady, Same, DeviceFields
    <2>4. PICK j : j = DiIoctl(k, p, fd, command, char)
      OBVIOUS
    <2>5. PICK result \in {0, -1}, flags \in {k.kbd.state, k.kbd.state \ {"ECHO"}, k.kbd.state \cup {"ECHO"}},
               ender \in {k.kbd.eof} \cup EofChars :
            j = [m EXCEPT !.eax = [m.eax EXCEPT ![p] = result], !.kbd = [k.kbd EXCEPT !.state = flags, !.eof = ender]]
      <3>0. /\ k.kbd = [k.kbd EXCEPT !.state = k.kbd.state, !.eof = k.kbd.eof]
            /\ \A s : [k.kbd EXCEPT !.state = s] = [k.kbd EXCEPT !.state = s, !.eof = k.kbd.eof]
            /\ \A c : [k.kbd EXCEPT !.eof = c] = [k.kbd EXCEPT !.state = k.kbd.state, !.eof = c]
        BY <2>1 DEF KbdType
      <3>1. CASE command = "KBD_IOCTL_EOF"
        <4>1. j = [m EXCEPT !.eax = [m.eax EXCEPT ![p] = 0], !.kbd = [k.kbd EXCEPT !.eof = char]]
          BY <1>2, <2>2, <2>3, <2>4, <3>1 DEF DiIoctl, KbdIoctl, IsKernel, Fields
        <4> QED
          BY <3>0, <3>1, <4>1
      <3>2. CASE command = "KBD_IOCTL_OFF"
        <4>1. j = [m EXCEPT !.eax = [m.eax EXCEPT ![p] = 0], !.kbd = [k.kbd EXCEPT !.state = k.kbd.state \ {"ECHO"}]]
          BY <1>2, <2>2, <2>3, <2>4, <3>2 DEF DiIoctl, KbdIoctl, IsKernel, Fields
        <4> QED
          BY <3>0, <4>1
      <3>3. CASE command = "KBD_IOCTL_ON"
        <4>1. j = [m EXCEPT !.eax = [m.eax EXCEPT ![p] = 0], !.kbd = [k.kbd EXCEPT !.state = k.kbd.state \cup {"ECHO"}]]
          BY <1>2, <2>2, <2>3, <2>4, <3>3 DEF DiIoctl, KbdIoctl, IsKernel, Fields
        <4> QED
          BY <3>0, <4>1
      <3>4. CASE command \notin {"KBD_IOCTL_EOF", "KBD_IOCTL_OFF", "KBD_IOCTL_ON"}
        <4>1. j = [[m EXCEPT !.eax[p] = 0] EXCEPT !.eax[p] = -1]
          BY <1>2, <2>2, <2>4, <3>4 DEF DiIoctl, KbdIoctl
        <4>2. j = [m EXCEPT !.eax = [m.eax EXCEPT ![p] = -1], !.kbd = k.kbd]
          <5>1. m.eax \in [Slot -> Int]
            BY <2>1, <2>3 DEF Typed
          <5> QED
            BY <2>3, <4>1, <5>1 DEF IsKernel, Fields
        <4> QED
          BY <3>0, <4>2
      <3> QED
        BY <3>1, <3>2, <3>3, <3>4
    <2>6. /\ IsKernel(j) /\ Same(j, m, Fields \ {"kbd", "eax"})
          /\ j.kbd = [k.kbd EXCEPT !.state = flags, !.eof = ender] /\ j.eax = [m.eax EXCEPT ![p] = result]
      BY <2>3, <2>5 DEF IsKernel, Same, Fields
    <2>7. OnceReady(j, k, p) /\ j.fdTab = k.fdTab
      <3>1. Edits(j, m) /\ j.fdTab = m.fdTab
        BY <2>6 DEF Edits, Same, Fields, DeviceFields
      <3> QED
        BY <2>3, <3>1, EditOfReady
    <2>8. j.eax \in [Slot -> Int]
      BY <2>1, <2>3, <2>6 DEF Typed
    <2>9. /\ "EMPTY" \notin k.kbd.state /\ k.kbd.irq = ("DISABLE" \notin k.kbd.state) /\ "EMPTY" \in NotOpen
          /\ "ECHO" \in NotOpen
      BY <2>1 DEF Console, NotOpen
    <2>10. /\ j.kbd \in KbdType /\ j.kbd.p = k.kbd.p /\ j.kbd.state = flags /\ j.kbd.irq = k.kbd.irq
      <3>1. flags \in SUBSET NotOpen /\ ender \in EofChars \cup {C_D}
        BY <2>1, <2>9 DEF KbdType
      <3>2. j.kbd = [k.kbd EXCEPT !.state = flags, !.eof = ender]
        BY <2>6
      <3> QED
        BY <2>1, <3>1, <3>2 DEF KbdType
    <2>11. Console(j)
      <3>1. Reading(j) = {}
        <4>1. Reading(j) \subseteq Reading(k)
          BY <2>1, <2>7, <2>10, LooseSame DEF Loose
        <4> QED
          BY <2>1, <4>1
      <3>2. \A q, gd : Owns(j, q, gd) <=> Owns(k, q, gd)
        BY <2>1, <2>7, LooseSame DEF Loose, Owns
      <3>3. OneOwner(j)
        BY <2>1, <3>2 DEF Console, OneOwner
      <3>4. flags # NotOpen /\ "EMPTY" \notin flags /\ ("DISABLE" \in flags <=> "DISABLE" \in k.kbd.state)
        BY <2>9
      <3>5. "STOP" \notin Requests => \E q, gd : Owns(j, q, gd)
        BY <2>1, <3>2 DEF Console
      <3> QED
        BY <2>1, <2>9, <2>10, <3>1, <3>3, <3>4, <3>5 DEF Console
    <2>12. Sound(j, {}, aside)
      BY <2>1, <2>7, <2>8, <2>10, <2>11, CallerReady
    <2> QED
      BY <2>4, <2>12
  <1> QED
    BY <1>1, <1>2

(* kbdWriteBuffer() fills the buffer by one character at most.             *)
LEMMA KeyWritten ==
    ASSUME NEW buf \in Seq(Keys), NEW size \in Nat, NEW key \in Keys
    PROVE  /\ WriteBuffer(buf, size, key) \in Seq(Keys)
           /\ Len(buf) < size => Len(WriteBuffer(buf, size, key)) <= size
           /\ key = NOCHAR => WriteBuffer(buf, size, key) = buf
  <1>1. CASE key = BKSPC
    BY <1>1 DEF WriteBuffer, BKSPC, NOCHAR
  <1>2. CASE key \notin {BKSPC, NOCHAR} /\ Len(buf) < size
    BY <1>2 DEF WriteBuffer
  <1>3. CASE key # BKSPC /\ ~(key \notin {BKSPC, NOCHAR} /\ Len(buf) < size)
    BY <1>3 DEF WriteBuffer
  <1> QED
    BY <1>1, <1>2, <1>3

(* A key for the process that waits: its read ends, or there is room yet.  *)
LEMMA KeyServes ==
    ASSUME NEW k, NEW p, Held(k, p), k.kbd \in KbdType, k.kbd.p = p, "DISABLE" \notin k.kbd.state,
           Len(k.kbd.chars) < k.kbd.buflen, NEW key \in Keys
    PROVE  LET j == KbdISR(k, key)
           IN  /\ Served(j, k, p)
               /\ \/ /\ OnceReady(j, k, p)
                     /\ j.eax[p] = IF "DISABLE" \in j.kbd.state THEN 0 ELSE Len(j.kbd.chars)
                  \/ /\ Edits(j, k) /\ Len(j.kbd.chars) < j.kbd.buflen
                     /\ j.kbd.irq = k.kbd.irq
  <1> DEFINE chars == WriteBuffer(k.kbd.chars, k.kbd.buflen, key)
  <1>1. PICK k1 : k1 = [k EXCEPT !.kbd.chars = chars]
    OBVIOUS
  <1>2. PICK k2 : k2 = IF Len(k1.kbd.chars) = k.kbd.buflen THEN UnblockReadProc(k1) ELSE k1
    OBVIOUS
  <1>3. IsKernel(k) /\ p \in Proc /\ p \in Slot /\ p # NULL /\ k.eax \in [Slot -> Int]
    BY SlotFacts DEF Held, Typed
  <1>4. PICK j : j = KbdISR(k, key)
    OBVIOUS
  <1>5. j = IF key = k.kbd.eof /\ key # BKSPC THEN ActivateEOF(k2)
            ELSE IF key = ENTER THEN UnblockReadProc(k2) ELSE k2
    BY <1>1, <1>2, <1>3, <1>4 DEF KbdISR
  <1>6. chars \in Seq(Keys) /\ Len(chars) \in Nat /\ Len(chars) <= k.kbd.buflen
    <2>1. k.kbd.chars \in Seq(Keys) /\ k.kbd.buflen \in Nat
      BY DEF KbdType
    <2>2. chars \in Seq(Keys) /\ Len(chars) <= k.kbd.buflen
      BY <2>1, KeyWritten
    <2> QED
      BY <2>2
  <1> HIDE DEF chars
  <1>7. IsKernel(k1) /\ Same(k1, k, Fields \ {"kbd"}) /\ k1.kbd = [k.kbd EXCEPT !.chars = chars]
    BY <1>1, <1>3 DEF IsKernel, Same, Fields
  <1>8. /\ k1.kbd \in KbdType /\ k1.kbd.p = p /\ k1.kbd.chars = chars /\ k1.kbd.buflen = k.kbd.buflen
        /\ k1.kbd.state = k.kbd.state /\ k1.kbd.irq = k.kbd.irq
    BY <1>6, <1>7 DEF KbdType
  <1>9. Edits(k1, k) /\ k1.fdTab = k.fdTab /\ k1.eax = k.eax
    BY <1>7 DEF Edits, Same, Fields, DeviceFields
  <1>10. Served(k1, k, p)
    BY <1>3, <1>8, <1>9 DEF Served, Loose
  <1>11. /\ Served(k2, k, p) /\ k2.kbd = k1.kbd
         /\ \/ OnceReady(k2, k, p) /\ k2.eax[p] = Len(k2.kbd.chars)
            \/ k2 = k1 /\ Len(chars) < k.kbd.buflen
    <2>1. CASE Len(k1.kbd.chars) = k.kbd.buflen
      <3>1. k2 = UnblockReadProc(k1)
        BY <1>2, <2>1
      <3>2. /\ OnceReady(k2, k, p) /\ k2.kbd = k1.kbd
            /\ k2.eax = [k1.eax EXCEPT ![p] = Len(k1.kbd.chars)]
        BY <1>8, <1>10, <3>1, UnblockIs DEF Served
      <3>3. k2.eax[p] = Len(k1.kbd.chars)
        BY <1>3, <1>9, <3>2
      <3> QED
        BY <1>10, <3>1, <3>2, <3>3, UnblockServes
    <2>2. CASE Len(k1.kbd.chars) # k.kbd.buflen
      <3>1. k.kbd.buflen \in Nat
        BY DEF KbdType
      <3>2. Len(chars) < k.kbd.buflen
        BY <1>6, <1>8, <2>2, <3>1
      <3> QED
        BY <1>2, <1>10, <2>2, <3>2
    <2> QED
      BY <2>1, <2>2
  <1>12. k2.kbd.p = p /\ k2.eax \in [Slot -> Int] /\ Loose(k2, k, p) /\ k2.kbd \in KbdType
    BY <1>11 DEF Served
  <1>13. CASE key = k.kbd.eof /\ key # BKSPC
    <2>1. j = ActivateEOF(k2)
      BY <1>5, <1>13
    <2>2. Served(j, k, p) /\ OnceReady(j, k, p)
      BY <1>11, <2>1, ActivateServes
    <2>3. /\ j.eax = [k2.eax EXCEPT ![p] = 0]
          /\ j.kbd = Ended(k2.kbd)
      BY <1>12, <2>1, ActivateIs
    <2>4. j.eax[p] = 0 /\ "DISABLE" \in j.kbd.state
      BY <1>3, <1>12, <2>3 DEF KbdType, Ended
    <2> QED
      BY <1>4, <2>2, <2>4
  <1>14. CASE ~(key = k.kbd.eof /\ key # BKSPC) /\ key = ENTER
    <2>1. j = UnblockReadProc(k2)
      BY <1>5, <1>14
    <2>2. Served(j, k, p) /\ OnceReady(j, k, p)
      BY <1>11, <2>1, UnblockServes
    <2>3. j.eax = [k2.eax EXCEPT ![p] = Len(k2.kbd.chars)] /\ j.kbd = k2.kbd
      BY <1>12, <2>1, UnblockIs
    <2>4. j.eax[p] = Len(j.kbd.chars) /\ "DISABLE" \notin j.kbd.state
      BY <1>3, <1>8, <1>11, <1>12, <2>3
    <2> QED
      BY <1>4, <2>2, <2>4
  <1>15. CASE ~(key = k.kbd.eof /\ key # BKSPC) /\ key # ENTER
    <2>1. j = k2
      BY <1>5, <1>15
    <2>2. "DISABLE" \notin j.kbd.state
      BY <1>8, <1>11, <2>1
    <2> QED
      BY <1>4, <1>8, <1>9, <1>11, <2>1, <2>2
  <1> QED
    BY <1>13, <1>14, <1>15

(* The reads that an interrupt ended return what they should.              *)
ReadsEnded(j, k, out, aside) ==
    \E gone \in SUBSET aside.reading :
       /\ Sound(j, out, [reading |-> aside.reading \ gone, asleep |-> aside.asleep])
       /\ j.process = k.process
       /\ \A q \in gone : j.eax[q] = IF "DISABLE" \in j.kbd.state THEN 0 ELSE Len(j.kbd.chars)

(* handleKbdISR(), when a read waits or there has been none, or for a key  *)
(* that stands for no character: the process whose read ends becomes       *)
(* ready.                                                                  *)
LEMMA IsrKeeps ==
    ASSUME NEW k, NEW out, NEW aside, Sound(k, out, aside), k.kbd.irq, NEW key \in Keys,
           k.kbd.p \in Reading(k) \cup {NULL} \/ (key = NOCHAR /\ Len(k.kbd.chars) < k.kbd.buflen)
    PROVE  ReadsEnded(KbdISR(k, key), k, out, aside)
  <1>1. /\ aside.reading = Reading(k) /\ IsKernel(k) /\ Lists(k) /\ Typed(k) /\ Console(k)
        /\ aside = [reading |-> aside.reading \ {}, asleep |-> aside.asleep]
        /\ Placed(k, out \cup Away(aside)) /\ out \cap Away(aside) = {} /\ Away(aside) = Reading(k) \cup Sleepers(k)
    BY AsideIs DEF Sound, Aside
  <1>2. /\ k.kbd \in KbdType /\ k.kbd.state # NotOpen /\ "DISABLE" \notin k.kbd.state /\ k.eax \in [Slot -> Int]
        /\ k.kbd.chars \in Seq(Keys) /\ k.kbd.buflen \in Nat /\ k.kbd.buf \in Seq(Keys)
        /\ k.kbd.eof \in EofChars \cup {C_D}
    BY <1>1 DEF Console, KbdType, Typed
  <1>3. PICK j : j = KbdISR(k, key)
    OBVIOUS
  <1>4. CASE k.kbd.p \notin Reading(k)
    <2>1. PICK buf \in Seq(Keys), chars \in Seq(Keys) :
            /\ j = [k EXCEPT !.kbd = [k.kbd EXCEPT !.buf = buf, !.chars = chars]]
            /\ k.kbd.p \in Reading(k) => chars = k.kbd.chars
      <3>0. /\ \A b : [k.kbd EXCEPT !.buf = b] = [k.kbd EXCEPT !.buf = b, !.chars = k.kbd.chars]
            /\ \A c : [k.kbd EXCEPT !.chars = c] = [k.kbd EXCEPT !.buf = k.kbd.buf, !.chars = c]
        BY <1>2 DEF KbdType
      <3>1. CASE k.kbd.p = NULL
        <4>1. WriteBuffer(k.kbd.buf, KBD_BUF_SIZE, key) \in Seq(Keys)
          BY <1>2, KeyWritten, KbdBufSizeAssumption
        <4>2. j = [k EXCEPT !.kbd = [k.kbd EXCEPT !.buf = WriteBuffer(k.kbd.buf, KBD_BUF_SIZE, key)]]
          BY <1>3, <3>1 DEF KbdISR
        <4> QED
          BY <1>2, <3>0, <4>1, <4>2
      <3>2. CASE k.kbd.p # NULL
        <4>1. key = NOCHAR /\ Len(k.kbd.chars) < k.kbd.buflen /\ key # k.kbd.eof /\ key # ENTER
          BY <1>2, <1>4, <3>2, WorkloadAssumption DEF NOCHAR, C_D, ENTER
        <4>2. WriteBuffer(k.kbd.chars, k.kbd.buflen, key) = k.kbd.chars
          BY <1>2, <4>1, KeyWritten
        <4>3. PICK k1 : k1 = [k EXCEPT !.kbd = [k.kbd EXCEPT !.chars = k.kbd.chars]]
          OBVIOUS
        <4>4. k1.kbd.chars = k.kbd.chars /\ Len(k.kbd.chars) # k.kbd.buflen
          BY <1>1, <1>2, <4>1, <4>3 DEF IsKernel, Fields, KbdType
        <4>5. j = k1
          BY <1>3, <3>2, <4>1, <4>2, <4>3, <4>4 DEF KbdISR
        <4> QED
          BY <1>2, <3>0, <4>3, <4>5
      <3> QED
        BY <3>1, <3>2
    <2>2. /\ IsKernel(j) /\ Same(j, k, Fields \ {"kbd"})
          /\ j.kbd = [k.kbd EXCEPT !.buf = buf, !.chars = chars]
      BY <1>1, <2>1 DEF IsKernel, Same, Fields
    <2>3. /\ j.kbd \in KbdType /\ j.kbd.p = k.kbd.p /\ j.kbd.state = k.kbd.state /\ j.kbd.irq = k.kbd.irq
      BY <1>2, <2>2 DEF KbdType
    <2>4. Edits(j, k) /\ j.fdTab = k.fdTab /\ j.eax = k.eax /\ j.process = k.process /\ j.state = k.state /\ j.pid = k.pid
      BY <2>2 DEF Edits, Same, Fields, DeviceFields
    <2>5. Console(j)
      <3>1. \A q, fd : Owns(j, q, fd) <=> Owns(k, q, fd)
        BY <2>4 DEF Owns, Alive
      <3>2. Reading(j) = {}
        BY <1>4, <2>3, <2>4 DEF Reading, Alive
      <3>3. OneOwner(j)
        BY <1>1, <3>1 DEF Console, OneOwner
      <3> QED
        BY <1>1, <1>2, <2>3, <3>1, <3>2, <3>3 DEF Console
    <2>6. Sound(j, out, aside)
      BY <1>2, <2>3, <2>4, <2>5, EditsKeep
    <2>7. {} \in SUBSET aside.reading /\ j.process = k.process
      BY <2>4
    <2>8. ReadsEnded(j, k, out, aside)
      <3>1. Sound(j, out, [reading |-> aside.reading \ {}, asleep |-> aside.asleep])
        BY <1>1, <2>6
      <3> QED
        BY <2>7, <3>1 DEF ReadsEnded
    <2> QED
      BY <1>3, <2>8
  <1>5. CASE k.kbd.p \in Reading(k)
    <2>1. PICK p : p = k.kbd.p
      OBVIOUS
    <2>2. /\ p \in Proc /\ p \in Slot /\ Held(k, p) /\ p \in aside.reading /\ p \notin out
          /\ k.state[p] = "RUNNING" /\ k.process # p
          /\ \E fd : Owns(k, p, fd) /\ k.kbd.irq /\ Len(k.kbd.chars) < k.kbd.buflen
      BY <1>1, <1>5, <2>1, SlotFacts DEF Placed, OutOnes, Reading, Held, Console
    <2>3. /\ Served(j, k, p)
          /\ \/ /\ OnceReady(j, k, p)
                /\ j.eax[p] = IF "DISABLE" \in j.kbd.state THEN 0 ELSE Len(j.kbd.chars)
             \/ /\ Edits(j, k) /\ Len(j.kbd.chars) < j.kbd.buflen
                /\ j.kbd.irq = k.kbd.irq
      BY <1>2, <1>3, <2>1, <2>2, KeyServes
    <2>4. j.process = k.process /\ j.kbd.p = p
      BY <2>2, <2>3, LooseSame DEF Served
    <2>5. CASE OnceReady(j, k, p) /\ j.eax[p] = IF "DISABLE" \in j.kbd.state THEN 0 ELSE Len(j.kbd.chars)
      <3>1. Reading(j) = {}
        <4>1. j.state[p] = "READY"
          BY <2>2, <2>3, <2>5, LooseSame DEF Loose
        <4> QED
          BY <2>4, <4>1 DEF Reading
      <3>2. Console(j)
        BY <1>1, <1>2, <2>2, <2>3, <3>1, ServedConsole
      <3>3. p \in out \cup aside.reading /\ out \ {p} = out /\ j.kbd.p = k.kbd.p
        BY <2>1, <2>2, <2>4
      <3>4. j.eax \in [Slot -> Int]
            /\ j.fdTab \in [Slot -> [DOMAIN NoDescriptors -> 0..(DTAB_SIZE - 1) \cup {NULL}]]
        BY <1>1, <2>3 DEF Served, Typed
      <3>5. Sound(j, out \ {p}, [reading |-> aside.reading \ {p}, asleep |-> aside.asleep])
        BY <2>5, <3>2, <3>3, <3>4, OnceReadyKeeps
      <3>6. {p} \in SUBSET aside.reading
        BY <2>2
      <3>7. \A q \in {p} : j.eax[q] = IF "DISABLE" \in j.kbd.state THEN 0 ELSE Len(j.kbd.chars)
        BY <2>5
      <3>8. Sound(j, out, [reading |-> aside.reading \ {p}, asleep |-> aside.asleep])
        BY <3>3, <3>5
      <3>9. ReadsEnded(j, k, out, aside)
        BY <2>4, <3>6, <3>7, <3>8 DEF ReadsEnded
      <3> QED
        BY <1>3, <3>9
    <2>6. CASE Edits(j, k) /\ Len(j.kbd.chars) < j.kbd.buflen /\ j.kbd.irq = k.kbd.irq
      <3>1. \A q \in Reading(j) : q = p
        BY <2>4 DEF Reading
      <3>2. Console(j)
        <4>1. \A q \in Reading(j) : /\ \E fd : Owns(k, q, fd)
                                    /\ j.kbd.irq /\ Len(j.kbd.chars) < j.kbd.buflen
          BY <2>2, <2>6, <3>1
        <4> QED
          BY <1>1, <1>2, <2>2, <2>3, <4>1, ServedConsole
      <3>3. Sound(j, out, aside)
        BY <2>1, <2>3, <2>4, <2>6, <3>2, EditsKeep DEF Served
      <3>4. {} \in SUBSET aside.reading /\ j.process = k.process
        BY <2>4
      <3>5. Sound(j, out, [reading |-> aside.reading \ {}, asleep |-> aside.asleep])
        BY <1>1, <3>3
      <3>6. ReadsEnded(j, k, out, aside)
        BY <3>4, <3>5 DEF ReadsEnded
      <3> QED
        BY <1>3, <3>6
    <2> QED
      BY <2>3, <2>5, <2>6
  <1> QED
    BY <1>4, <1>5

-----------------------------------------------------------------------------
(* The walk along the sleep list is a recursive function: one step of it.  *)
WalkStep(k, f, y, time) ==
    LET rest == time - k.sleepTime[y]
    IN  CASE k.sleepTime[y] > time -> [before |-> y, left |-> time]
          [] k.sleepTime[y] <= time /\ k.sleepNext[y] = NULL -> [after |-> y, left |-> rest]
          [] OTHER -> f[k.sleepNext[y]][rest]

(* There is such a function, as the list ends: from its end backwards, it  *)
(* is defined on the members one by one.                                   *)
LEMMA WalkExists ==
    ASSUME NEW k, k.sleepTime \in [Slot -> Int], ListsApart(k.sleepNext, NapHeads(k)),
           k.sleepList \in Proc \cup {NULL}
    PROVE  \E f : f = [y \in Slot |-> [time \in Int |-> WalkStep(k, f, y, time)]]
  <1> DEFINE link == k.sleepNext
             Sat(f, S) == \A y \in S, t \in Int : f[y][t] = WalkStep(k, f, y, t)
             Ending == {y \in Slot : link[y] = NULL}
             Fit(f, S) == S \in SUBSET Slot /\ Ending \subseteq S /\ Closed(S, link) /\ Sat(f, S)
             Good == {y \in Slot : \E S, f : y \in S /\ Fit(f, S)}
  <1>1. /\ link \in Links /\ Idle \in Slot /\ NULL \notin Slot /\ NapHeads(k)[Idle] = k.sleepList
        /\ Chain(link, NapHeads(k), Idle) = Sleepers(k)
        /\ \A a \in Slot : a # Idle => Chain(link, NapHeads(k), a) = {}
    BY SlotFacts, NullAssumption, ReachNull DEF ListsApart, NapHeads, Chain, Sleepers
  <1>2. \E f : Fit(f, Ending)
    <2> DEFINE f0 == [y \in Slot |-> [t \in Int |->
                        IF k.sleepTime[y] > t THEN [before |-> y, left |-> t]
                        ELSE [after |-> y, left |-> t - k.sleepTime[y]]]]
    <2>1. \A y \in Slot, t \in Int : /\ k.sleepTime[y] > t => f0[y][t] = [before |-> y, left |-> t]
                                     /\ ~(k.sleepTime[y] > t) => f0[y][t] = [after |-> y, left |-> t - k.sleepTime[y]]
      OBVIOUS
    <2> HIDE DEF f0
    <2>2. Sat(f0, Ending)
      <3> SUFFICES ASSUME NEW y \in Ending, NEW t \in Int PROVE f0[y][t] = WalkStep(k, f0, y, t)
        OBVIOUS
      <3>1. y \in Slot /\ k.sleepNext[y] = NULL /\ k.sleepTime[y] \in Int
        OBVIOUS
      <3>2. CASE k.sleepTime[y] > t
        BY <2>1, <3>1, <3>2 DEF WalkStep
      <3>3. CASE ~(k.sleepTime[y] > t)
        BY <2>1, <3>1, <3>3 DEF WalkStep
      <3> QED
        BY <3>2, <3>3
    <2>3. Ending \in SUBSET Slot /\ Closed(Ending, link)
      BY DEF Closed
    <2> QED
      BY <2>2, <2>3
  <1>3. ASSUME NEW x \in Slot, NEW S, NEW f, Fit(f, S), link[x] \in S \cup {NULL}
        PROVE  \E T, g : x \in T /\ S \subseteq T /\ Fit(g, T)
    <2>1. CASE x \in S
      BY <1>3, <2>1
    <2>2. CASE x \notin S
      <3> DEFINE g == [y \in Slot |-> [t \in Int |-> IF y = x THEN WalkStep(k, f, x, t) ELSE f[y][t]]]
                 T == S \cup {x}
      <3>1. \A y \in Slot, t \in Int : g[y][t] = IF y = x THEN WalkStep(k, f, x, t) ELSE f[y][t]
        OBVIOUS
      <3> HIDE DEF g
      <3>2. T \in SUBSET Slot /\ Ending \subseteq T /\ Closed(T, link)
        BY <1>3 DEF Closed
      <3>3. \A y \in T : link[y] # x
        BY <1>1, <1>3, <2>2 DEF Closed
      <3>4. ASSUME NEW y \in T, NEW t \in Int PROVE g[y][t] = WalkStep(k, g, y, t)
        <4>1. y \in Slot
          BY <1>3
        <4>2. WalkStep(k, g, y, t) = WalkStep(k, f, y, t)
          <5>1. k.sleepNext[y] # NULL =>
                  g[k.sleepNext[y]][t - k.sleepTime[y]] = f[k.sleepNext[y]][t - k.sleepTime[y]]
            <6>1. /\ k.sleepNext[y] # x /\ t - k.sleepTime[y] \in Int
                  /\ k.sleepNext[y] # NULL => k.sleepNext[y] \in Slot
              BY <1>1, <3>3, <4>1, SlotFacts DEF Links
            <6> QED
              BY <3>1, <6>1
          <5>2. k.sleepTime[y] \in Int
            BY <4>1
          <5>3. CASE k.sleepTime[y] > t
            BY <5>3 DEF WalkStep
          <5>4. CASE ~(k.sleepTime[y] > t) /\ k.sleepNext[y] = NULL
            BY <5>2, <5>4 DEF WalkStep
          <5>5. CASE ~(k.sleepTime[y] > t) /\ k.sleepNext[y] # NULL
            BY <5>1, <5>5 DEF WalkStep
          <5> QED
            BY <5>3, <5>4, <5>5
        <4>3. g[y][t] = WalkStep(k, f, y, t)
          BY <1>3, <3>1, <4>1
        <4> QED
          BY <4>2, <4>3
      <3>5. Fit(g, T)
        BY <3>2, <3>4
      <3> QED
        BY <3>5
    <2> QED
      BY <2>1, <2>2
  <1> HIDE DEF Fit
  <1>4. Ending \subseteq Good
    <2> PICK f : Fit(f, Ending)
      BY <1>2
    <2> QED
      OBVIOUS
  <1>5. \A x \in Slot : link[x] \in Good => x \in Good
    BY <1>3
  <1>6. \A x \in Slot : x \notin Sleepers(k) => x \in Ending
    BY <1>1 DEF ListsApart, OnlyMembersLinked
  <1>7. \E f : Fit(f, Slot)
    <2>1. CASE k.sleepList = NULL
      <3>1. Ending = Slot
        BY <1>6, <2>1, ReachNull DEF Sleepers
      <3> QED
        BY <1>2, <3>1
    <2>2. CASE k.sleepList # NULL
      <3>1. k.sleepList \in Slot /\ k.sleepList \in Sleepers(k)
        BY <2>2, ReachHead, SlotFacts DEF Sleepers
      <3>2. PICK t \in Sleepers(k) : link[t] = NULL
        BY <1>1, <2>2, ChainEnds
      <3>3. k.sleepList \in Good
        <4> SUFFICES ASSUME k.sleepList \notin Good PROVE FALSE
          OBVIOUS
        <4> DEFINE C == Sleepers(k) \ Good
        <4>1. C \in SUBSET Slot
          BY ReachInSlot DEF Sleepers
        <4>2. Closed(C, link)
          <5> SUFFICES ASSUME NEW x \in C PROVE link[x] \in C
            BY DEF Closed
          <5>1. x \in Slot /\ x \in Sleepers(k) /\ x \notin Good
            BY <4>1
          <5>2. link[x] # NULL
            BY <1>4, <5>1
          <5>3. link[x] \in Sleepers(k)
            BY <1>1, <5>1, <5>2, ReachStep DEF Sleepers
          <5> QED
            BY <1>5, <5>1, <5>3
        <4>3. Sleepers(k) \subseteq C
          BY <3>1, <4>1, <4>2, ReachLeast DEF Sleepers
        <4>4. t \in Slot
          BY <3>2, <4>1, <4>3
        <4> QED
          BY <1>4, <3>2, <4>3, <4>4
      <3>4. PICK S, f : k.sleepList \in S /\ Fit(f, S)
        BY <3>3
      <3>5. S \in SUBSET Slot /\ Ending \subseteq S /\ Closed(S, link)
        BY <3>4 DEF Fit
      <3>6. Sleepers(k) \subseteq S
        BY <3>4, <3>5, ReachLeast DEF Sleepers
      <3>7. S = Slot
        BY <1>6, <3>5, <3>6
      <3> QED
        BY <3>4, <3>7
    <2> QED
      BY <2>1, <2>2
  <1>8. PICK f : Sat(f, Slot)
    BY <1>7 DEF Fit
  <1> DEFINE F == [y \in Slot |-> [t \in Int |-> f[y][t]]]
  <1>9. \A y \in Slot, t \in Int : F[y][t] = f[y][t]
    OBVIOUS
  <1> HIDE DEF F
  <1>10. \A y \in Slot, t \in Int : WalkStep(k, F, y, t) = WalkStep(k, f, y, t)
    <2> SUFFICES ASSUME NEW y \in Slot, NEW t \in Int PROVE WalkStep(k, F, y, t) = WalkStep(k, f, y, t)
      OBVIOUS
    <2>1. k.sleepNext[y] # NULL =>
            F[k.sleepNext[y]][t - k.sleepTime[y]] = f[k.sleepNext[y]][t - k.sleepTime[y]]
      <3>1. /\ t - k.sleepTime[y] \in Int
            /\ k.sleepNext[y] # NULL => k.sleepNext[y] \in Slot
        BY <1>1, SlotFacts DEF Links
      <3> QED
        BY <1>9, <3>1
    <2>2. k.sleepTime[y] \in Int
      OBVIOUS
    <2>3. CASE k.sleepTime[y] > t
      BY <2>3 DEF WalkStep
    <2>4. CASE ~(k.sleepTime[y] > t) /\ k.sleepNext[y] = NULL
      BY <2>2, <2>4 DEF WalkStep
    <2>5. CASE ~(k.sleepTime[y] > t) /\ k.sleepNext[y] # NULL
      BY <2>1, <2>5 DEF WalkStep
    <2> QED
      BY <2>3, <2>4, <2>5
  <1>11. F = [y \in Slot |-> [t \in Int |-> WalkStep(k, F, y, t)]]
    <2>1. F = [y \in Slot |-> [t \in Int |-> WalkStep(k, f, y, t)]]
      BY <1>8 DEF F
    <2> QED
      BY <1>10, <2>1
  <1> QED
    BY <1>11

(* The members have slept by the time the differences say, which is not    *)
(* after the given one.                                                    *)
DueBy(k, due, time) ==
    /\ due \in [Slot -> Int] /\ due[k.sleepList] = k.sleepTime[k.sleepList]
    /\ \A x \in Sleepers(k) :
         /\ k.sleepNext[x] # NULL => due[k.sleepNext[x]] = due[x] + k.sleepTime[k.sleepNext[x]]
         /\ due[x] <= time

(* The walk goes on to the end for a time that is not less than what any   *)
(* member has left, and what remains there is the difference to the last.  *)
LEMMA PlaceIsLast ==
    ASSUME NEW k, k.sleepTime \in [Slot -> Int], ListsApart(k.sleepNext, NapHeads(k)),
           k.sleepList \in Proc, NEW due, NEW time \in Int, DueBy(k, due, time)
    PROVE  Place(k, k.sleepList, time) = [after |-> TailOf(k.sleepNext, k.sleepList),
                                          left |-> time - due[TailOf(k.sleepNext, k.sleepList)]]
  <1>0. /\ due \in [Slot -> Int] /\ due[k.sleepList] = k.sleepTime[k.sleepList]
        /\ \A x \in Sleepers(k) : /\ k.sleepNext[x] # NULL =>
                                         due[k.sleepNext[x]] = due[x] + k.sleepTime[k.sleepNext[x]]
                                  /\ due[x] <= time
    BY DEF DueBy
  <1>. USE <1>0
  <1>11. PICK last : last = TailOf(k.sleepNext, k.sleepList)
    OBVIOUS
  <1> DEFINE Walks(f) == f = [y \in Slot |-> [t \in Int |-> WalkStep(k, f, y, t)]]
             from == CHOOSE f : Walks(f)
             h == k.sleepList
             At(x) == time - (due[x] - k.sleepTime[x])
  <1>1. Place(k, h, time) = from[h][time]
    BY Zenon DEF Place, WalkStep
  <1>2. Walks(from)
    <2>1. \E f : Walks(f)
      BY WalkExists
    <2> HIDE DEF Walks
    <2> QED
      BY <2>1
  <1> HIDE DEF from
  <1>3. \A y \in Slot, t \in Int : from[y][t] = WalkStep(k, from, y, t)
    BY <1>2
  <1> HIDE DEF Walks
  <1>4. /\ k.sleepNext \in Links /\ h \in Slot /\ h # NULL /\ Sleepers(k) \subseteq Slot
        /\ h \in Sleepers(k) /\ last \in Sleepers(k) /\ k.sleepNext[last] = NULL
    <2>1. NapHeads(k)[Idle] = h /\ Idle \in Slot /\ h # NULL
      BY SlotFacts DEF NapHeads
    <2>2. last \in Chain(k.sleepNext, NapHeads(k), Idle) /\ k.sleepNext[last] = NULL
      BY <1>11, <2>1, ChainEnds
    <2> QED
      BY <2>1, <2>2, SlotFacts, ReachHead, ReachInSlot DEF Sleepers, Chain, ListsApart
  <1>5. \A x \in Slot : due[x] \in Int /\ k.sleepTime[x] \in Int /\ At(x) \in Int
    OBVIOUS
  <1> DEFINE C == {x \in Sleepers(k) : from[x][At(x)] = from[h][time]}
  <1>6. h \in C
    <2>1. At(h) = time
      BY <1>4, <1>5
    <2> HIDE DEF At
    <2> QED
      BY <1>4, <2>1
  <1>7. Closed(C, k.sleepNext)
    <2> SUFFICES ASSUME NEW x \in C, k.sleepNext[x] # NULL PROVE k.sleepNext[x] \in C
      BY DEF Closed
    <2> DEFINE n == k.sleepNext[x]
    <2>1. x \in Sleepers(k) /\ x \in Slot /\ n \in Sleepers(k) /\ n \in Slot
      BY <1>4, ReachStep DEF Sleepers
    <2>2. k.sleepTime[x] <= At(x)
      BY <1>5, <2>1
    <2>3. At(x) - k.sleepTime[x] = At(n)
      <3>1. due[n] = due[x] + k.sleepTime[n]
        BY <2>1
      <3> QED
        BY <1>5, <2>1, <3>1
    <2> HIDE DEF At
    <2>4. from[x][At(x)] = from[n][At(n)]
      <3>1. PICK u \in Int : u = At(x)
        BY <1>5, <2>1
      <3>2. k.sleepTime[x] \in Int /\ ~(k.sleepTime[x] > u) /\ u - k.sleepTime[x] = At(n)
        BY <1>5, <2>1, <2>2, <2>3, <3>1
      <3>3. WalkStep(k, from, x, u) = from[n][u - k.sleepTime[x]]
        BY <3>2 DEF WalkStep
      <3> QED
        BY <1>3, <2>1, <3>1, <3>2, <3>3
    <2> QED
      BY <2>1, <2>4
  <1>8. last \in C
    <2>1. C \in SUBSET Slot
      BY <1>4
    <2> HIDE DEF C
    <2>2. Sleepers(k) \subseteq C
      BY <1>4, <1>6, <1>7, <2>1, ReachLeast DEF Sleepers
    <2> QED
      BY <1>4, <2>2
  <1>9. from[last][At(last)] = [after |-> last, left |-> time - due[last]]
    <2>1. last \in Slot /\ k.sleepTime[last] <= At(last) /\ At(last) - k.sleepTime[last] = time - due[last]
      <3>1. /\ last \in Slot /\ due[last] \in Int /\ k.sleepTime[last] \in Int /\ time \in Int
            /\ due[last] <= time
        BY <1>0, <1>4
      <3> QED
        BY <3>1
    <2>2. PICK u \in Int : u = At(last)
      BY <1>5, <2>1
    <2> HIDE DEF At
    <2>3. /\ k.sleepTime[last] \in Int /\ ~(k.sleepTime[last] > u)
          /\ k.sleepTime[last] <= u /\ u - k.sleepTime[last] = time - due[last]
      BY <1>5, <2>1, <2>2
    <2>4. WalkStep(k, from, last, u) = [after |-> last, left |-> u - k.sleepTime[last]]
      BY <1>4, <2>1, <2>2, <2>3 DEF WalkStep
    <2> QED
      BY <1>3, <2>1, <2>2, <2>3, <2>4
  <1> HIDE DEF At
  <1> QED
    BY <1>1, <1>8, <1>9, <1>11

-----------------------------------------------------------------------------
(* Processes join the sleep list at its end and leave it at its head.      *)
SleepFields == {"sleepList", "sleepNext", "sleepPrev", "sleepTime"}

SleepTypes(j) ==
    /\ j.sleepList \in Proc \cup {NULL} /\ j.sleepNext \in Links /\ j.sleepPrev \in Links
    /\ j.sleepTime \in [Slot -> Int]

(* The sleep list is one list, whose members are the sleepers.             *)
LEMMA NapFacts ==
    ASSUME NEW k, Nap(k)
    PROVE  /\ k.sleepNext \in Links /\ NapHeads(k) \in Links /\ NapHeads(k)[Idle] = k.sleepList
           /\ Chain(k.sleepNext, NapHeads(k), Idle) = Sleepers(k)
           /\ Sleepers(k) \subseteq Proc /\ (k.sleepList # NULL => k.sleepList \in Sleepers(k))
           /\ \A x \in Sleepers(k) : k.sleepNext[x] # NULL => k.sleepNext[x] \in Sleepers(k)
           /\ \A p \in Proc : p \notin Sleepers(k) => Outside(k.sleepNext, NapHeads(k), p)
  <1>1. /\ k.sleepNext \in Links /\ NapHeads(k) \in Links /\ k.sleepList \in Proc \cup {NULL}
        /\ NapHeads(k)[Idle] = k.sleepList /\ \A a \in Slot : a # Idle => NapHeads(k)[a] = NULL
    BY SlotFacts DEF Nap, ListsApart, NapHeads
  <1>2. Chain(k.sleepNext, NapHeads(k), Idle) = Sleepers(k)
        /\ \A a \in Slot : a # Idle => Chain(k.sleepNext, NapHeads(k), a) = {}
    BY <1>1, ReachNull DEF Chain, Sleepers
  <1>3. Sleepers(k) \subseteq Proc /\ (k.sleepList # NULL => k.sleepList \in Sleepers(k))
    BY <1>1, ReachInProc, ReachHead, SlotFacts DEF Sleepers
  <1>4. \A x \in Sleepers(k) : k.sleepNext[x] # NULL => k.sleepNext[x] \in Sleepers(k)
    BY <1>1, ReachStep DEF Sleepers
  <1>5. \A p \in Proc : p \notin Sleepers(k) => Outside(k.sleepNext, NapHeads(k), p)
    BY <1>2 DEF Outside
  <1> QED
    BY <1>1, <1>2, <1>3, <1>4, <1>5

(* What addToSleepList() writes when nobody sleeps for longer.             *)
Appending(j, k, p, time, due) ==
    /\ IsKernel(j) /\ Same(j, k, Fields \ (SleepFields \cup {"state"}))
    /\ j.state = [k.state EXCEPT ![p] = "SLEEPING"]
    /\ k.sleepList = NULL => /\ j.sleepList = p
                             /\ j.sleepNext = [k.sleepNext EXCEPT ![p] = NULL]
                             /\ j.sleepPrev = [k.sleepPrev EXCEPT ![p] = NULL]
                             /\ j.sleepTime = [k.sleepTime EXCEPT ![p] = time]
    /\ k.sleepList # NULL =>
         LET last == TailOf(k.sleepNext, k.sleepList)
         IN  /\ j.sleepList = k.sleepList
             /\ j.sleepNext = [k.sleepNext EXCEPT ![last] = p, ![p] = NULL]
             /\ j.sleepPrev = [k.sleepPrev EXCEPT ![p] = last]
             /\ j.sleepTime = [k.sleepTime EXCEPT ![p] = time - due[last]]

(* With sleeps of one length nobody sleeps for longer than who joins.      *)
LEMMA AddEffect ==
    ASSUME NEW k, IsKernel(k), Typed(k), Nap(k), NEW p \in Proc, NEW time \in Times, time \in Int,
           NEW due, IsDue(k, due)
    PROVE  Appending(AddToSleepList([k EXCEPT !.state[p] = "SLEEPING"], p, time), k, p, time, due)
  <1>1. PICK k1 : k1 = [k EXCEPT !.state[p] = "SLEEPING"]
    OBVIOUS
  <1>2. IsKernel(k1) /\ Same(k1, k, Fields \ {"state"}) /\ k1.state = [k.state EXCEPT ![p] = "SLEEPING"]
    <2>1. IsKernel(k1)
      BY <1>1 DEF IsKernel
    <2>2. Same(k1, k, Fields \ {"state"})
      BY <1>1 DEF IsKernel, Same
    <2>3. k1.state = [k.state EXCEPT ![p] = "SLEEPING"]
      BY <1>1 DEF IsKernel, Fields
    <2> QED
      BY <2>1, <2>2, <2>3
  <1>3. /\ k1.sleepList = k.sleepList /\ k1.sleepNext = k.sleepNext /\ k1.sleepPrev = k.sleepPrev
        /\ k1.sleepTime = k.sleepTime
    BY <1>2 DEF Same, Fields
  <1>4. PICK j : j = AddToSleepList(k1, p, time)
    OBVIOUS
  <1>5. CASE k.sleepList = NULL
    <2>1. j = [k1 EXCEPT !.sleepTime[p] = time, !.sleepNext[p] = NULL, !.sleepPrev[p] = NULL, !.sleepList = p]
      BY <1>3, <1>4, <1>5 DEF AddToSleepList
    <2>2. IsKernel(j)
      BY <1>2, <2>1 DEF IsKernel
    <2>3. Same(j, k1, Fields \ SleepFields)
      BY <1>2, <2>1 DEF IsKernel, Same, SleepFields
    <2>4. /\ j.sleepList = p
          /\ j.sleepNext = [k.sleepNext EXCEPT ![p] = NULL]
          /\ j.sleepPrev = [k.sleepPrev EXCEPT ![p] = NULL]
          /\ j.sleepTime = [k.sleepTime EXCEPT ![p] = time]
      BY <1>2, <1>3, <2>1 DEF IsKernel, Fields
    <2>5. Same(j, k, Fields \ (SleepFields \cup {"state"})) /\ j.state = k1.state
      BY <1>2, <2>3 DEF Same, Fields, SleepFields
    <2> QED
      BY <1>1, <1>2, <1>4, <1>5, <2>2, <2>4, <2>5 DEF Appending
  <1>6. CASE k.sleepList # NULL
    <2>1. PICK last : last = TailOf(k.sleepNext, k.sleepList)
      OBVIOUS
    <2>2. Place(k1, k1.sleepList, time) = [after |-> last, left |-> time - due[last]]
      <3>1. NapHeads(k1) = NapHeads(k) /\ Sleepers(k1) = Sleepers(k)
        BY <1>3 DEF NapHeads, Sleepers
      <3>2. /\ k1.sleepTime \in [Slot -> Int] /\ ListsApart(k1.sleepNext, NapHeads(k1))
            /\ k1.sleepList \in Proc
        BY <1>3, <1>6, <3>1 DEF Typed, Nap
      <3>3. due \in [Slot -> Int] /\ due[k1.sleepList] = k1.sleepTime[k1.sleepList]
        BY <1>3, <1>6 DEF IsDue
      <3>4. \A x \in Sleepers(k1) : /\ k1.sleepNext[x] # NULL =>
                                          due[k1.sleepNext[x]] = due[x] + k1.sleepTime[k1.sleepNext[x]]
                                    /\ due[x] <= time
        BY <1>3, <3>1 DEF IsDue
      <3> QED
        <4>1. last = TailOf(k1.sleepNext, k1.sleepList)
          BY <1>3, <2>1
        <4>2. DueBy(k1, due, time)
          BY <3>3, <3>4 DEF DueBy
        <4> QED
          BY <3>2, <4>1, <4>2, PlaceIsLast
    <2>3. j = [k1 EXCEPT !.sleepTime[p] = time - due[last],
                         !.sleepNext = [@ EXCEPT ![last] = p, ![p] = NULL],
                         !.sleepPrev[p] = last]
      <3>1. PICK place : place = [after |-> last, left |-> time - due[last]]
        OBVIOUS
      <3>2. "after" \in DOMAIN place /\ place.after = last /\ place.left = time - due[last]
        BY <3>1
      <3>3. Place(k1, k1.sleepList, time) = place
        BY <2>2, <3>1
      <3>4. j = [k1 EXCEPT !.sleepTime[p] = place.left,
                            !.sleepNext = [@ EXCEPT ![place.after] = p, ![p] = NULL],
                            !.sleepPrev[p] = place.after]
        BY <1>3, <1>4, <1>6, <3>2, <3>3 DEF AddToSleepList
      <3> QED
        BY <3>2, <3>4
    <2>4. IsKernel(j)
      BY <1>2, <2>3 DEF IsKernel
    <2>5. Same(j, k1, Fields \ {"sleepTime", "sleepNext", "sleepPrev"})
      BY <1>2, <2>3 DEF IsKernel, Same
    <2>6. /\ j.sleepNext = [k.sleepNext EXCEPT ![last] = p, ![p] = NULL]
          /\ j.sleepPrev = [k.sleepPrev EXCEPT ![p] = last]
          /\ j.sleepTime = [k.sleepTime EXCEPT ![p] = time - due[last]]
      BY <1>2, <1>3, <2>3 DEF IsKernel, Fields
    <2>7. Same(j, k, Fields \ (SleepFields \cup {"state"})) /\ j.state = k1.state /\ j.sleepList = k.sleepList
      BY <1>2, <1>3, <2>5 DEF Same, Fields, SleepFields
    <2> QED
      BY <1>1, <1>2, <1>4, <1>6, <2>1, <2>4, <2>6, <2>7 DEF Appending
  <1> QED
    BY <1>5, <1>6

(* The list afterwards: the process is the last that is due.               *)
LEMMA AddNaps ==
    ASSUME NEW k, Typed(k), Nap(k), NEW p \in Proc, p \notin Sleepers(k), NEW time \in Times,
           time \in Int, \A s \in Times : s = time, NEW due, IsDue(k, due), NEW j, Appending(j, k, p, time, due)
    PROVE  SleepTypes(j) /\ Nap(j) /\ Sleepers(j) = Sleepers(k) \cup {p}
  <1>1. /\ k.sleepNext \in Links /\ NapHeads(k) \in Links /\ NapHeads(k)[Idle] = k.sleepList
        /\ Chain(k.sleepNext, NapHeads(k), Idle) = Sleepers(k)
        /\ Sleepers(k) \subseteq Proc /\ (k.sleepList # NULL => k.sleepList \in Sleepers(k))
        /\ \A x \in Sleepers(k) : k.sleepNext[x] # NULL => k.sleepNext[x] \in Sleepers(k)
        /\ Outside(k.sleepNext, NapHeads(k), p)
    BY NapFacts
  <1>2. /\ ListsApart(k.sleepNext, NapHeads(k)) /\ k.sleepList \in Proc \cup {NULL}
        /\ k.sleepPrev \in Links /\ k.sleepTime \in [Slot -> Int] /\ k.state \in [Slot -> ProcState]
        /\ p \in Slot /\ Idle \in Slot /\ p # NULL /\ p # Idle
    BY SlotFacts DEF Nap, Typed
  <1>3. k.sleepNext[p] = NULL /\ \A x \in Slot : k.sleepNext[x] # p
    BY <1>1, <1>2, OutsideIsLoose
  <1>4. /\ due \in [Slot -> Int] /\ (k.sleepList # NULL => due[k.sleepList] = k.sleepTime[k.sleepList])
        /\ \A x \in Sleepers(k) : k.sleepNext[x] # NULL =>
               due[k.sleepNext[x]] = due[x] + k.sleepTime[k.sleepNext[x]]
        /\ \A x \in Sleepers(k) : due[x] <= time
    BY DEF IsDue
  <1>5. j.state = [k.state EXCEPT ![p] = "SLEEPING"]
    BY DEF Appending
  <1>6. PICK due2 : due2 = [due EXCEPT ![p] = time]
    OBVIOUS
  <1>7. due2 \in [Slot -> Int] /\ due2[p] = time /\ \A x \in Slot : x # p => due2[x] = due[x]
    BY <1>2, <1>4, <1>6
  <1>8. \A x \in Sleepers(k) : x # p /\ x \in Slot
    BY <1>1, SlotFacts
  <1>9. CASE k.sleepList = NULL
    <2>1. /\ j.sleepList = p /\ j.sleepNext = [k.sleepNext EXCEPT ![p] = NULL]
          /\ j.sleepPrev = [k.sleepPrev EXCEPT ![p] = NULL] /\ j.sleepTime = [k.sleepTime EXCEPT ![p] = time]
      BY <1>9 DEF Appending
    <2>2. j.sleepNext = k.sleepNext
      BY <1>1, <1>3, <2>1 DEF Links
    <2>3. SleepTypes(j)
      BY <1>1, <1>2, <2>1, <2>2 DEF SleepTypes, Links
    <2>4. NapHeads(j) \in Links /\ HeadSet(NapHeads(j), NapHeads(k), Idle, p)
      BY <1>9, <2>1, <1>2 DEF NapHeads, HeadSet, Links
    <2>5. Joined(k.sleepNext, NapHeads(j), k.sleepNext, NapHeads(k), Idle, p)
      BY <1>1, <1>2, <1>9, <2>4, JoinFirst
    <2>6. ListsApart(j.sleepNext, NapHeads(j)) /\ Chain(j.sleepNext, NapHeads(j), Idle) = Sleepers(k) \cup {p}
      BY <1>1, <1>2, <2>2, <2>5 DEF Joined
    <2>7. Sleepers(j) = Sleepers(k) \cup {p} /\ Sleepers(k) = {}
      <3>1. NapHeads(j)[Idle] = j.sleepList
        BY <1>2 DEF NapHeads
      <3> QED
        BY <1>9, <2>6, <3>1, ReachNull DEF Sleepers, Chain
    <2>8. IsDue(j, due2)
      <3>1. j.sleepTime[p] = time /\ j.sleepNext[p] = NULL
        BY <1>2, <1>3, <2>1, <2>2
      <3> QED
        BY <1>7, <2>1, <2>7, <3>1 DEF IsDue
    <2>9. \A x \in Sleepers(j) : j.state[x] = "SLEEPING"
      BY <1>2, <1>5, <2>7
    <2> QED
      BY <1>2, <2>1, <2>3, <2>6, <2>7, <2>8, <2>9 DEF Nap
  <1>10. CASE k.sleepList # NULL
    <2>1. PICK last : last = TailOf(k.sleepNext, k.sleepList)
      OBVIOUS
    <2>2. /\ j.sleepList = k.sleepList /\ j.sleepNext = [k.sleepNext EXCEPT ![last] = p, ![p] = NULL]
          /\ j.sleepPrev = [k.sleepPrev EXCEPT ![p] = last]
          /\ j.sleepTime = [k.sleepTime EXCEPT ![p] = time - due[last]]
      BY <1>10, <2>1 DEF Appending
    <2>3. last \in Sleepers(k) /\ last \in Slot /\ last \in Proc /\ last # p /\ k.sleepNext[last] = NULL
      BY <1>1, <1>2, <1>8, <1>10, <2>1, ChainEnds
    <2>4. SleepTypes(j) /\ Appended(j.sleepNext, k.sleepNext, last, p)
      <3>1. j.sleepNext \in Links /\ j.sleepPrev \in Links /\ Appended(j.sleepNext, k.sleepNext, last, p)
        BY <1>1, <1>2, <2>2, <2>3 DEF Links, Appended
      <3>2. j.sleepTime \in [Slot -> Int]
        BY <1>2, <1>4, <2>2, <2>3
      <3> QED
        BY <1>2, <2>2, <3>1, <3>2 DEF SleepTypes
    <2>5. NapHeads(j) = NapHeads(k)
      BY <2>2 DEF NapHeads
    <2>6. Joined(j.sleepNext, NapHeads(k), k.sleepNext, NapHeads(k), Idle, p)
      BY <1>1, <1>2, <1>10, <2>1, <2>4, JoinBehind DEF SleepTypes
    <2>7. ListsApart(j.sleepNext, NapHeads(j)) /\ Chain(j.sleepNext, NapHeads(j), Idle) = Sleepers(k) \cup {p}
      BY <1>1, <1>2, <2>5, <2>6 DEF Joined
    <2>8. Sleepers(j) = Sleepers(k) \cup {p}
      <3>1. NapHeads(j)[Idle] = j.sleepList
        BY <1>2 DEF NapHeads
      <3> QED
        BY <2>7, <3>1 DEF Sleepers, Chain
    <2>9. /\ j.sleepTime[p] = time - due[last] /\ j.sleepNext[p] = NULL /\ j.sleepNext[last] = p
          /\ \A x \in Slot : x # p => j.sleepTime[x] = k.sleepTime[x]
          /\ \A x \in Slot : x \notin {p, last} => j.sleepNext[x] = k.sleepNext[x]
      <3>1. j.sleepTime[p] = time - due[last] /\ \A x \in Slot : x # p => j.sleepTime[x] = k.sleepTime[x]
        BY <1>2, <2>2
      <3> QED
        BY <2>3, <2>4, <3>1, <1>2 DEF Appended
    <2>10. IsDue(j, due2)
      <3>1. due2[j.sleepList] = j.sleepTime[j.sleepList]
        BY <1>1, <1>4, <1>7, <1>8, <1>10, <2>2, <2>9
      <3>2. ASSUME NEW x \in Sleepers(j), j.sleepNext[x] # NULL
            PROVE  due2[j.sleepNext[x]] = due2[x] + j.sleepTime[j.sleepNext[x]]
        <4>1. CASE x = last
          <5>1. due[last] \in Int /\ due2[last] = due[last]
            BY <1>4, <1>7, <2>3
          <5> QED
            BY <1>7, <2>9, <4>1, <5>1
        <4>2. CASE x # last
          <5>1. x \in Sleepers(k) /\ x \in Slot /\ x # p
            BY <1>8, <2>8, <2>9, <3>2
          <5>2. j.sleepNext[x] = k.sleepNext[x] /\ k.sleepNext[x] # NULL
            BY <2>9, <3>2, <4>2, <5>1
          <5>3. k.sleepNext[x] \in Sleepers(k)
            BY <1>1, <5>1, <5>2
          <5>4. k.sleepNext[x] \in Slot /\ k.sleepNext[x] # p
            BY <1>8, <5>3
          <5> QED
            BY <1>4, <1>7, <2>9, <5>1, <5>2, <5>3, <5>4
        <4> QED
          BY <4>1, <4>2
      <3>3. \A x \in Sleepers(j) : due2[x] <= time
        BY <1>4, <1>7, <1>8, <2>8
      <3> QED
        BY <1>7, <3>1, <3>2, <3>3 DEF IsDue
    <2>11. \A x \in Sleepers(j) : j.state[x] = "SLEEPING"
      <3>1. \A x \in Sleepers(k) : k.state[x] = "SLEEPING"
        BY DEF Nap
      <3> QED
        BY <1>2, <1>5, <1>8, <2>8, <3>1
    <2> QED
      BY <1>2, <2>2, <2>4, <2>7, <2>8, <2>10, <2>11 DEF Nap
  <1> QED
    BY <1>9, <1>10

(* sleep(): of a process that runs, for a time that is not zero.           *)
LEMMA AddKeeps ==
    ASSUME NEW k, NEW out, NEW aside, Sound(k, out, aside), NEW p \in out, NEW time \in Times,
           time \in Int, \A s \in Times : s = time, NEW j,
           j = AddToSleepList([k EXCEPT !.state[p] = "SLEEPING"], p, time)
    PROVE  Sound(j, out \ {p}, [reading |-> aside.reading, asleep |-> aside.asleep \cup {p}])
  <1>1. PICK all : all = out \cup Away(aside)
    OBVIOUS
  <1>2. /\ aside.reading = Reading(k) /\ aside.asleep = Sleepers(k)
        /\ Away(aside) = Reading(k) \cup Sleepers(k)
        /\ IsKernel(k) /\ Lists(k) /\ Typed(k) /\ Settled(k, all) /\ Placed(k, all)
        /\ out \cap Away(aside) = {} /\ Console(k) /\ Nap(k)
    BY <1>1, AsideIs DEF Sound
  <1>3. p \in all /\ p \in Proc /\ p \in Slot /\ p \notin Sleepers(k) /\ p \notin Reading(k)
    BY <1>1, <1>2, SlotFacts DEF Placed, OutOnes
  <1>4. PICK due : IsDue(k, due)
    BY <1>2 DEF Nap
  <1>5. Appending(j, k, p, time, due)
    BY <1>2, <1>3, <1>4, AddEffect
  <1>6. SleepTypes(j) /\ Nap(j) /\ Sleepers(j) = Sleepers(k) \cup {p}
    BY <1>2, <1>3, <1>4, <1>5, AddNaps
  <1>7. /\ IsKernel(j) /\ Same(j, k, Fields \ (SleepFields \cup {"state"}))
        /\ j.state = [k.state EXCEPT ![p] = "SLEEPING"]
    BY <1>5 DEF Appending
  <1>8. /\ Same(j, k, Stays) /\ j.ipcArgs = k.ipcArgs /\ j.prev = k.prev /\ j.pid = k.pid
        /\ j.process = k.process /\ j.kbd = k.kbd /\ j.fdTab = k.fdTab
        /\ Same(j, k, {"process", "targetOfRecv", "ipcArgs", "waitingFor", "sigMaskInstalled", "sigMaskQueued",
                       "fdTab", "eax"})
    BY <1>7 DEF Same, Fields, SleepFields, Stays
  <1>9. /\ j.state \in [Slot -> ProcState] /\ j.state[p] = "SLEEPING"
        /\ \A q \in Slot : q # p => j.state[q] = k.state[q]
    <2>1. k.state \in [Slot -> ProcState]
      BY <1>2 DEF Typed
    <2>2. "SLEEPING" \in ProcState
      BY DEF ProcState
    <2> QED
      BY <1>3, <1>7, <2>1, <2>2
  <1>10. Typed(j)
    BY <1>2, <1>6, <1>8, <1>9 DEF Same, Typed, SleepTypes
  <1>11. Settled(j, all)
    <2>1. \A q \in Proc : q \notin all => j.state[q] = k.state[q] /\ j.ipcArgs[q] = k.ipcArgs[q]
      BY <1>3, <1>8, <1>9, SlotFacts
    <2>2. j.prev \in Links
      BY <1>2, <1>8 DEF Lists
    <2> QED
      BY <1>2, <1>7, <1>8, <1>10, <2>1, <2>2, EditSettles
  <1>12. \A q : Alive(j, q) <=> Alive(k, q)
    BY <1>8 DEF Alive
  <1>13. Reading(j) = Reading(k)
    BY <1>3, <1>8, <1>9, <1>12, SlotFacts DEF Reading
  <1>14. Console(j)
    BY <1>2, <1>8, <1>12, <1>13, ConsoleSame DEF Owns
  <1>15. Aside(j) = [reading |-> aside.reading, asleep |-> aside.asleep \cup {p}]
    BY <1>2, <1>6, <1>13 DEF Aside
  <1>16. (out \ {p}) \cup Away(Aside(j)) = all /\ (out \ {p}) \cap Away(Aside(j)) = {}
    BY <1>1, <1>2, <1>3, <1>15 DEF Away
  <1> QED
    BY <1>6, <1>11, <1>14, <1>15, <1>16 DEF Sound

-----------------------------------------------------------------------------
(* ready() reads and writes the ready queue and the states only.           *)
QueueFields == {"readyQueue", "next", "prev", "state"}

(* Whatever else changes, ready() does the same.                           *)
LEMMA ReadyElsewhere ==
    ASSUME NEW k, IsKernel(k), NEW i, IsKernel(i), Same(i, k, QueueFields), NEW p \in Proc
    PROVE  /\ IsKernel(Ready(i, p)) /\ Same(Ready(i, p), i, Fields \ QueueFields)
           /\ Same(Ready(i, p), Ready(k, p), QueueFields)
  <1>1. PICK r : r = Ready(k, p)
    OBVIOUS
  <1>2. PICK j : j = Ready(i, p)
    OBVIOUS
  <1>3. /\ i.readyQueue = k.readyQueue /\ i.next = k.next /\ i.prev = k.prev /\ i.state = k.state
    BY DEF Same, QueueFields
  <1>4. IsKernel(j) /\ Same(j, i, Fields \ QueueFields)
    BY <1>2, ReadyEffect DEF QueueFields
  <1>5. /\ j.readyQueue = r.readyQueue /\ j.next = r.next /\ j.prev = r.prev /\ j.state = r.state
    BY <1>1, <1>2, <1>3, ReadyAlike
  <1> QED
    BY <1>1, <1>2, <1>4, <1>5 DEF Same, QueueFields

(* One turn of the loop of tick(): the head is woken, and the next one has *)
(* the time charged that the head overslept.                               *)
HeadWoken(j, k, p) ==
    /\ IsKernel(j) /\ Same(j, Ready(k, p), Fields \ (SleepFields \cup {"eax"}))
    /\ SleepTypes(j) /\ j.eax \in [Slot -> Int]
    /\ j.sleepList = k.sleepNext[p]
    /\ j.sleepNext = [k.sleepNext EXCEPT ![p] = NULL]
    /\ \A x \in Slot : x # p => j.sleepTime[x] = IF x = k.sleepNext[p] THEN k.sleepTime[x] + k.sleepTime[p]
                                                  ELSE k.sleepTime[x]

(* wake() of the head of the list.                                         *)
LEMMA WakeIs ==
    ASSUME NEW k, IsKernel(k), Typed(k), Nap(k), NEW p, p = k.sleepList, p # NULL,
           k.sleepTime[p] <= 0
    PROVE  HeadWoken(WakeHead(k), k, p)
  <1>1. /\ k.sleepNext \in Links /\ k.sleepPrev \in Links /\ k.sleepTime \in [Slot -> Int]
        /\ k.eax \in [Slot -> Int] /\ p \in Proc /\ p \in Slot
        /\ k.sleepNext[p] # p /\ k.sleepNext[p] \in Proc \cup {NULL}
    <2>1. p \in Proc /\ p \in Slot /\ Idle \in Slot /\ NapHeads(k)[Idle] = p
      BY NapFacts, SlotFacts DEF Nap
    <2> QED
      BY <2>1 DEF Typed, Nap, ListsApart, LinkedOnce, Links
  <1>2. PICK n : n = k.sleepNext[p]
    OBVIOUS
  <1> DEFINE forward == [k.sleepNext EXCEPT ![p] = NULL]
             back == [k.sleepPrev EXCEPT ![p] = NULL]
             times == [k.sleepTime EXCEPT ![p] = 0]
             results == [k.eax EXCEPT ![p] = 0]
  <1>3. /\ forward \in Links /\ back \in Links /\ times \in [Slot -> Int] /\ results \in [Slot -> Int]
        /\ times[p] = 0 /\ \A x \in Slot : x # p => times[x] = k.sleepTime[x]
    BY <1>1 DEF Links
  <1>4. PICK k0 : k0 = [k EXCEPT !.sleepTime[p] = 0]
    OBVIOUS
  <1>5. PICK i : i = [k EXCEPT !.sleepTime = times, !.sleepList = n, !.eax = results,
                               !.sleepNext = forward, !.sleepPrev = back]
    OBVIOUS
  <1>6. Wake(k0) = Ready(i, p)
    <2>1. /\ k0.sleepList = p /\ k0.sleepNext = k.sleepNext /\ k0.sleepTime = times
          /\ k0.eax = k.eax /\ k0.sleepPrev = k.sleepPrev
      BY <1>4 DEF IsKernel, Fields
    <2>2. Wake(k0) = Ready([k0 EXCEPT !.sleepList = n, !.eax[p] = 0, !.sleepNext[p] = NULL, !.sleepPrev[p] = NULL], p)
      BY <1>2, <1>3, <2>1 DEF Wake
    <2>3. [k0 EXCEPT !.sleepList = n, !.eax[p] = 0, !.sleepNext[p] = NULL, !.sleepPrev[p] = NULL] = i
      BY <1>4, <1>5, <2>1
    <2> QED
      BY <2>2, <2>3
  <1> HIDE DEF forward, back, times, results
  <1>7. IsKernel(i)
    BY <1>5 DEF IsKernel
  <1>8. Same(i, k, Fields \ (SleepFields \cup {"eax"}))
    BY <1>5 DEF IsKernel, Same, SleepFields
  <1>9. /\ i.sleepTime = times /\ i.sleepList = n /\ i.eax = results /\ i.sleepNext = forward /\ i.sleepPrev = back
    BY <1>5 DEF IsKernel, Fields
  <1>10. PICK r : r = Ready(k, p)
    OBVIOUS
  <1>11. PICK k1 : k1 = Ready(i, p)
    OBVIOUS
  <1>12. /\ IsKernel(k1) /\ Same(k1, i, Fields \ QueueFields) /\ Same(k1, r, QueueFields)
         /\ Same(r, k, Fields \ QueueFields)
    <2>1. Same(i, k, QueueFields)
      BY <1>8 DEF Same, Fields, SleepFields, QueueFields
    <2>2. Same(r, k, Fields \ QueueFields)
      BY <1>1, <1>10, ReadyEffect DEF QueueFields
    <2> QED
      BY <1>1, <1>7, <1>10, <1>11, <2>1, <2>2, ReadyElsewhere
  <1>13. /\ k1.sleepTime = times /\ k1.sleepList = n /\ k1.eax = results
         /\ k1.sleepNext = forward /\ k1.sleepPrev = back
    BY <1>9, <1>12 DEF Same, Fields, QueueFields
  <1>14. Same(k1, r, Fields \ (SleepFields \cup {"eax"}))
    BY <1>8, <1>12 DEF Same, Fields, SleepFields, QueueFields
  <1>15. PICK j : j = WakeHead(k)
    OBVIOUS
  <1>16. j = IF n = NULL THEN k1 ELSE [k1 EXCEPT !.sleepTime[n] = @ - (-k.sleepTime[p])]
    <2>1. k.sleepList # NULL /\ ~(k.sleepTime[k.sleepList] > 0)
      BY <1>1
    <2>2. Wake([k EXCEPT !.sleepTime[k.sleepList] = 0]) = k1
      BY <1>4, <1>6, <1>11
    <2>3. PICK timeDiff : timeDiff = -k.sleepTime[k.sleepList]
      OBVIOUS
    <2>4. WakeHead(k) = IF k1.sleepList = NULL THEN k1
                        ELSE [k1 EXCEPT !.sleepTime[k1.sleepList] = @ - timeDiff]
      BY <2>1, <2>2, <2>3 DEF WakeHead
    <2> QED
      BY <1>13, <1>15, <2>3, <2>4
  <1>17. CASE n = NULL
    <2>1. j = k1
      BY <1>16, <1>17
    <2>2. \A x \in Slot : x # p => j.sleepTime[x] = IF x = n THEN k.sleepTime[x] + k.sleepTime[p] ELSE k.sleepTime[x]
      BY <1>3, <1>13, <1>17, <2>1, NullAssumption
    <2>3. SleepTypes(j) /\ j.eax \in [Slot -> Int] /\ j.sleepList = n /\ j.sleepNext = forward
      BY <1>1, <1>2, <1>3, <1>13, <2>1 DEF SleepTypes
    <2> QED
      BY <1>2, <1>10, <1>12, <1>14, <1>15, <2>1, <2>2, <2>3 DEF HeadWoken, forward
  <1>18. CASE n # NULL
    <2>1. PICK charged : charged = [times EXCEPT ![n] = @ - (-k.sleepTime[p])]
      OBVIOUS
    <2>2. j = [k1 EXCEPT !.sleepTime = charged]
      BY <1>13, <1>16, <1>18, <2>1
    <2>3. IsKernel(j)
      BY <1>12, <2>2 DEF IsKernel
    <2>4. Same(j, k1, Fields \ {"sleepTime"})
      BY <1>12, <2>2 DEF IsKernel, Same
    <2>5. j.sleepTime = charged
      BY <1>12, <2>2 DEF IsKernel, Fields
    <2>6. n \in Slot /\ n # p
      BY <1>1, <1>2, <1>18, SlotFacts
    <2>7. charged \in [Slot -> Int]
          /\ \A x \in Slot : x # p => charged[x] = IF x = n THEN k.sleepTime[x] + k.sleepTime[p] ELSE k.sleepTime[x]
      BY <1>1, <1>3, <2>1, <2>6
    <2>8. /\ j.sleepList = n /\ j.sleepNext = forward /\ j.sleepPrev = back /\ j.eax = results
          /\ Same(j, k1, Fields \ (SleepFields \cup {"eax"}))
      BY <1>13, <2>4 DEF Same, Fields, SleepFields
    <2>9. SleepTypes(j) /\ j.eax \in [Slot -> Int]
      BY <1>1, <1>2, <1>3, <2>5, <2>7, <2>8 DEF SleepTypes
    <2>10. Same(j, r, Fields \ (SleepFields \cup {"eax"}))
      BY <1>14, <2>8 DEF Same
    <2> QED
      BY <1>2, <1>10, <1>15, <2>3, <2>5, <2>7, <2>8, <2>9, <2>10 DEF HeadWoken, forward
  <1> QED
    BY <1>17, <1>18

(* The list afterwards: everybody else is due when it was.                 *)
LEMMA WakeNaps ==
    ASSUME NEW k, Typed(k), Nap(k), NEW p, p = k.sleepList, p # NULL, NEW j, HeadWoken(j, k, p),
           \A x \in Slot : x # p => j.state[x] = k.state[x]
    PROVE  Nap(j) /\ Sleepers(j) = Sleepers(k) \ {p}
  <1>1. /\ k.sleepNext \in Links /\ NapHeads(k) \in Links /\ NapHeads(k)[Idle] = k.sleepList
        /\ Chain(k.sleepNext, NapHeads(k), Idle) = Sleepers(k)
        /\ Sleepers(k) \subseteq Proc /\ k.sleepList \in Sleepers(k)
        /\ \A x \in Sleepers(k) : k.sleepNext[x] # NULL => k.sleepNext[x] \in Sleepers(k)
    BY NapFacts
  <1>2. /\ ListsApart(k.sleepNext, NapHeads(k)) /\ k.sleepTime \in [Slot -> Int]
        /\ p \in Proc /\ p \in Slot /\ Idle \in Slot
        /\ \A x \in Sleepers(k) : k.state[x] = "SLEEPING"
    BY SlotFacts DEF Nap, Typed
  <1>3. /\ SleepTypes(j) /\ j.sleepList = k.sleepNext[p] /\ j.sleepNext = [k.sleepNext EXCEPT ![p] = NULL]
        /\ \A x \in Slot : x # p => j.sleepTime[x] = IF x = k.sleepNext[p] THEN k.sleepTime[x] + k.sleepTime[p]
                                                     ELSE k.sleepTime[x]
    BY DEF HeadWoken
  <1>4. j.sleepNext \in Links /\ HeadTaken(j.sleepNext, k.sleepNext, p)
    BY <1>1, <1>2, <1>3 DEF Links, HeadTaken
  <1>5. NapHeads(j) \in Links /\ HeadSet(NapHeads(j), NapHeads(k), Idle, k.sleepNext[p])
    BY <1>2, <1>3 DEF NapHeads, HeadSet, Links, SleepTypes
  <1>6. Left(j.sleepNext, NapHeads(j), k.sleepNext, NapHeads(k), p)
    BY <1>1, <1>2, <1>4, <1>5, LeaveHead
  <1>7. ListsApart(j.sleepNext, NapHeads(j)) /\ Sleepers(j) = Sleepers(k) \ {p}
    <2>1. NapHeads(j)[Idle] = j.sleepList
      BY <1>2 DEF NapHeads
    <2> QED
      BY <1>1, <1>2, <1>6, <2>1 DEF Left, Chain, Sleepers
  <1>8. PICK due : IsDue(k, due)
    BY DEF Nap
  <1>9. /\ due \in [Slot -> Int] /\ due[p] = k.sleepTime[p]
        /\ \A x \in Sleepers(k) :
             /\ k.sleepNext[x] # NULL => due[k.sleepNext[x]] = due[x] + k.sleepTime[k.sleepNext[x]]
             /\ \A time \in Times : due[x] <= time
    BY <1>8 DEF IsDue
  <1>10. \A x, y \in Slot : k.sleepNext[x] = k.sleepNext[y] /\ k.sleepNext[x] # NULL => x = y
    BY <1>2 DEF ListsApart, LinkedOnce
  <1>11. \A x \in Slot : k.sleepNext[x] # p
    BY <1>1, <1>2 DEF ListsApart, LinkedOnce
  <1>12. IsDue(j, due)
    <2>1. j.sleepList # NULL => due[j.sleepList] = j.sleepTime[j.sleepList]
      <3> SUFFICES ASSUME j.sleepList # NULL PROVE due[j.sleepList] = j.sleepTime[j.sleepList]
        OBVIOUS
      <3>1. k.sleepNext[p] \in Slot /\ k.sleepNext[p] # p /\ k.sleepNext[p] \in Proc
        BY <1>1, <1>2, <1>3, <1>11, SlotFacts DEF Links
      <3>2. due[k.sleepNext[p]] = k.sleepTime[p] + k.sleepTime[k.sleepNext[p]]
        BY <1>1, <1>3, <1>9
      <3> QED
        BY <1>2, <1>3, <3>1, <3>2
    <2>2. ASSUME NEW x \in Sleepers(j), j.sleepNext[x] # NULL
          PROVE  due[j.sleepNext[x]] = due[x] + j.sleepTime[j.sleepNext[x]]
      <3>1. x \in Sleepers(k) /\ x \in Slot /\ x # p /\ j.sleepNext[x] = k.sleepNext[x]
        BY <1>1, <1>4, <1>7, SlotFacts DEF HeadTaken
      <3>2. k.sleepNext[x] \in Slot /\ k.sleepNext[x] # p /\ k.sleepNext[x] # k.sleepNext[p]
        BY <1>1, <1>2, <1>10, <1>11, <2>2, <3>1, SlotFacts
      <3> QED
        BY <1>3, <1>9, <2>2, <3>1, <3>2
    <2>3. \A x \in Sleepers(j) : \A time \in Times : due[x] <= time
      BY <1>7, <1>9
    <2> QED
      BY <1>9, <2>1, <2>2, <2>3 DEF IsDue
  <1>13. \A x \in Sleepers(j) : j.state[x] = "SLEEPING"
    BY <1>1, <1>2, <1>7, SlotFacts
  <1> QED
    BY <1>3, <1>7, <1>12, <1>13 DEF Nap, SleepTypes

(* A sleeper that is woken is on the ready queue.                          *)
LEMMA WakeKeeps ==
    ASSUME NEW k, NEW out, NEW aside, Sound(k, out, aside), NEW p, p = k.sleepList, p # NULL,
           NEW j, HeadWoken(j, k, p)
    PROVE  /\ Sound(j, out, [reading |-> aside.reading, asleep |-> aside.asleep \ {p}])
           /\ p \in aside.asleep /\ j.process = k.process
  <1>1. PICK all : all = out \cup Away(aside)
    OBVIOUS
  <1>2. /\ aside.reading = Reading(k) /\ aside.asleep = Sleepers(k)
        /\ Away(aside) = Reading(k) \cup Sleepers(k)
        /\ IsKernel(k) /\ Lists(k) /\ Typed(k) /\ Settled(k, all) /\ Placed(k, all)
        /\ out \cap Away(aside) = {} /\ Console(k) /\ Nap(k)
    BY <1>1, AsideIs DEF Sound
  <1>3. p \in Sleepers(k) /\ p \in all /\ p \in Proc /\ p \in Slot /\ p \notin Reading(k) /\ p \notin out
    <2>1. p \in Sleepers(k) /\ k.state[p] = "SLEEPING"
      BY <1>2, NapFacts DEF Nap
    <2> QED
      BY <1>1, <1>2, <2>1, SlotFacts DEF Placed, OutOnes, Reading
  <1>4. PICK r : r = Ready(k, p)
    OBVIOUS
  <1>5. Settled(r, all \ {p})
    BY <1>2, <1>3, <1>4, ReadySettles
  <1>6. /\ Same(r, k, Fields \ {"readyQueue", "next", "prev", "state"})
        /\ r.state = [k.state EXCEPT ![p] = "READY"]
    BY <1>2, <1>3, <1>4, ReadyEffect
  <1>7. /\ IsKernel(j) /\ Same(j, r, Fields \ (SleepFields \cup {"eax"})) /\ SleepTypes(j) /\ j.eax \in [Slot -> Int]
    BY <1>4 DEF HeadWoken
  <1>8. Same(j, r, Stays) /\ j.state = r.state /\ j.ipcArgs = r.ipcArgs /\ j.prev = r.prev
    BY <1>7 DEF Same, Fields, Stays, SleepFields
  <1>9. Typed(j)
    <2>1. Same(j, r, {"process", "state", "targetOfRecv", "ipcArgs", "waitingFor",
                      "sigMaskInstalled", "sigMaskQueued", "fdTab"})
      BY <1>7 DEF Same, Fields, SleepFields
    <2>2. Typed(r)
      BY <1>5 DEF Settled
    <2> QED
      BY <1>7, <2>1, <2>2 DEF Same, Typed, SleepTypes
  <1>10. Settled(j, all \ {p})
    <2>1. j.prev \in Links
      BY <1>5, <1>8 DEF Settled, Lists
    <2> QED
      BY <1>5, <1>7, <1>8, <1>9, <2>1, EditSettles
  <1>11. j.pid = k.pid /\ j.process = k.process /\ j.kbd = k.kbd /\ j.fdTab = k.fdTab
    BY <1>6, <1>7 DEF Same, Fields, SleepFields
  <1>12. j.state[p] = "READY" /\ \A q \in Slot : q # p => j.state[q] = k.state[q]
    BY <1>2, <1>3, <1>6, <1>8 DEF Typed
  <1>13. Nap(j) /\ Sleepers(j) = Sleepers(k) \ {p}
    BY <1>2, <1>12, WakeNaps
  <1>14. \A q : Alive(j, q) <=> Alive(k, q)
    BY <1>11 DEF Alive
  <1>15. Reading(j) = Reading(k)
    BY <1>3, <1>11, <1>12, <1>14, SlotFacts DEF Reading
  <1>16. Console(j)
    BY <1>2, <1>11, <1>14, <1>15, ConsoleSame DEF Owns
  <1>17. Aside(j) = [reading |-> aside.reading, asleep |-> aside.asleep \ {p}]
    BY <1>2, <1>13, <1>15 DEF Aside
  <1>18. out \cup Away(Aside(j)) = all \ {p} /\ out \cap Away(Aside(j)) = {}
    BY <1>1, <1>2, <1>3, <1>17 DEF Away
  <1> QED
    BY <1>2, <1>3, <1>10, <1>11, <1>13, <1>16, <1>17, <1>18 DEF Sound

-----------------------------------------------------------------------------
(* What remains when some sleepers have been woken.                        *)
SomeWoken(j, k, out, aside) ==
    /\ \E gone \in SUBSET aside.asleep :
         Sound(j, out, [reading |-> aside.reading, asleep |-> aside.asleep \ gone])
    /\ j.process = k.process

(* One turn of the loop of tick().                                         *)
LEMMA TurnKeeps ==
    ASSUME NEW k0, NEW k, NEW out, NEW aside, SomeWoken(k, k0, out, aside)
    PROVE  SomeWoken(WakeHead(k), k0, out, aside)
  <1>1. PICK gone \in SUBSET aside.asleep :
          Sound(k, out, [reading |-> aside.reading, asleep |-> aside.asleep \ gone])
    BY DEF SomeWoken
  <1>2. PICK left : left = [reading |-> aside.reading, asleep |-> aside.asleep \ gone]
    OBVIOUS
  <1>3. Sound(k, out, left) /\ IsKernel(k) /\ Typed(k) /\ Nap(k) /\ k.process = k0.process
    BY <1>1, <1>2 DEF Sound, Settled, SomeWoken
  <1>4. PICK j : j = WakeHead(k)
    OBVIOUS
  <1>5. CASE k.sleepList = NULL \/ k.sleepTime[k.sleepList] > 0
    <2>1. j = k
      BY <1>4, <1>5 DEF WakeHead
    <2> QED
      BY <1>4, <2>1
  <1>6. CASE ~(k.sleepList = NULL \/ k.sleepTime[k.sleepList] > 0)
    <2>1. PICK p : p = k.sleepList
      OBVIOUS
    <2>2. p # NULL /\ k.sleepTime[p] <= 0
      <3>1. p \in Slot /\ k.sleepTime[p] \in Int
        BY <1>3, <1>6, <2>1, SlotFacts DEF Nap, Typed
      <3> QED
        BY <1>6, <2>1, <3>1
    <2>3. HeadWoken(j, k, p)
      BY <1>3, <1>4, <2>1, <2>2, WakeIs
    <2>4. /\ Sound(j, out, [reading |-> left.reading, asleep |-> left.asleep \ {p}])
          /\ p \in left.asleep /\ j.process = k.process
      BY <1>3, <2>1, <2>2, <2>3, WakeKeeps
    <2>5. /\ [reading |-> left.reading, asleep |-> left.asleep \ {p}]
               = [reading |-> aside.reading, asleep |-> aside.asleep \ (gone \cup {p})]
          /\ gone \cup {p} \in SUBSET aside.asleep
      <3>1. left.reading = aside.reading /\ left.asleep = aside.asleep \ gone
        BY <1>2
      <3>2. left.asleep \ {p} = aside.asleep \ (gone \cup {p})
        BY <3>1
      <3> QED
        BY <2>4, <3>1, <3>2
    <2> QED
      BY <1>3, <1>4, <2>4, <2>5 DEF SomeWoken
  <1> QED
    BY <1>5, <1>6

(* The loop of tick(), however many it wakes.                              *)
LEMMA LoopKeeps ==
    ASSUME NEW k, NEW out, NEW aside, Sound(k, out, aside)
    PROVE  SomeWoken(WakeExpired(k), k, out, aside)
  <1> DEFINE last == MaxPid + 1
             LoopTo(f, m) == f = [n \in 0..m |-> IF n = 0 THEN k ELSE WakeHead(f[n - 1])]
             turn == CHOOSE f : LoopTo(f, last)
  <1>1. WakeExpired(k) = turn[last]
    BY Zenon DEF WakeExpired
  <1>2. last \in Nat /\ last > 0 /\ last \in 1..last
    BY MaxPidAssumption
  <1>3. \E f : LoopTo(f, last)
    <2> HIDE DEF last
    <2> DEFINE S == {m \in Nat : \E f : LoopTo(f, m)}
    <2>1. \A m \in Nat : m = 0 => m \in S
      <3>1. LoopTo([n \in 0..0 |-> k], 0)
        OBVIOUS
      <3> QED
        BY <3>1
    <2>2. \A m \in Nat : m \in S => m + 1 \in S
      <3> SUFFICES ASSUME NEW m \in Nat, NEW f, LoopTo(f, m) PROVE \E g : LoopTo(g, m + 1)
        OBVIOUS
      <3> DEFINE g == [n \in 0..(m + 1) |-> IF n = m + 1 THEN WakeHead(f[m]) ELSE f[n]]
      <3>1. \A n \in 0..(m + 1) : g[n] = IF n = 0 THEN k ELSE WakeHead(g[n - 1])
        <4>1. \A n \in 0..m : f[n] = IF n = 0 THEN k ELSE WakeHead(f[n - 1])
          OBVIOUS
        <4> QED
          BY <4>1
      <3>2. LoopTo(g, m + 1)
        BY <3>1
      <3> QED
        BY <3>2
    <2> HIDE DEF S
    <2>3. 1 \in S /\ \A i \in 1..(last - 1) : i \in S => i + 1 \in S
      BY <1>2, <2>1, <2>2
    <2>4. 1..last \subseteq S
      BY <1>2, <2>3, UpTo
    <2> QED
      BY <1>2, <2>4 DEF S
  <1>4. LoopTo(turn, last)
    BY <1>3
  <1> HIDE DEF turn
  <1>5. turn[0] = k /\ \A n \in 1..last : turn[n] = WakeHead(turn[n - 1])
    <2> HIDE DEF last
    <2> QED
      BY <1>2, <1>4
  <1> DEFINE Fine(n) == SomeWoken(turn[n], k, out, aside)
  <1>6. Fine(0)
    <2>1. aside = [reading |-> aside.reading, asleep |-> aside.asleep \ {}]
      BY DEF Sound, Aside
    <2> QED
      BY <1>5, <2>1 DEF SomeWoken
  <1>7. \A n \in 0..(last - 1) : Fine(n) => Fine(n + 1)
    <2> SUFFICES ASSUME NEW n \in 0..(last - 1), Fine(n) PROVE Fine(n + 1)
      OBVIOUS
    <2>1. turn[n + 1] = WakeHead(turn[n])
      <3> HIDE DEF last
      <3>1. n + 1 \in 1..last /\ (n + 1) - 1 = n
        BY <1>2
      <3> QED
        BY <1>5, <3>1
    <2> QED
      BY <2>1, TurnKeeps
  <1>8. Fine(last)
    <2> HIDE DEF Fine, last
    <2> DEFINE S == {n \in Nat : Fine(n)}
    <2>1. 1 \in S
      <3>1. Fine(0 + 1)
        BY <1>2, <1>6, <1>7
      <3> QED
        BY <3>1
    <2>2. \A i \in 1..(last - 1) : i \in S => i + 1 \in S
      BY <1>2, <1>7
    <2> HIDE DEF S
    <2>3. 1..last \subseteq S
      BY <1>2, <2>1, <2>2, UpTo
    <2> QED
      BY <1>2, <2>3 DEF S
  <1> QED
    BY <1>1, <1>8

(* tick(): the time of the head runs, and those are woken whose time is    *)
(* up.                                                                     *)
LEMMA TickKeeps ==
    ASSUME NEW k, NEW out, NEW aside, Sound(k, out, aside)
    PROVE  SomeWoken(Tick(k), k, out, aside)
  <1>1. CASE k.sleepList = NULL
    <2>1. Tick(k) = k /\ aside = [reading |-> aside.reading, asleep |-> aside.asleep \ {}]
      BY <1>1 DEF Tick, Sound, Aside
    <2> QED
      BY <2>1 DEF SomeWoken
  <1>2. CASE k.sleepList # NULL
    <2>1. PICK h : h = k.sleepList
      OBVIOUS
    <2>2. /\ IsKernel(k) /\ Lists(k) /\ Typed(k) /\ Nap(k) /\ Console(k) /\ Aside(k) = aside
          /\ h \in Proc /\ h \in Slot /\ k.sleepTime \in [Slot -> Int] /\ TIME_SLICE \in Int
      BY <1>2, <2>1, SlotFacts, TimeSliceAssumption DEF Sound, Settled, Nap, Typed
    <2>3. PICK times : times = [k.sleepTime EXCEPT ![h] = @ - TIME_SLICE]
      OBVIOUS
    <2>4. PICK j : j = [k EXCEPT !.sleepTime = times]
      OBVIOUS
    <2>5. Tick(k) = WakeExpired(j)
      BY <1>2, <2>1, <2>3, <2>4 DEF Tick
    <2>6. IsKernel(j)
      BY <2>2, <2>4 DEF IsKernel
    <2>7. Same(j, k, Fields \ {"sleepTime"})
      BY <2>2, <2>4 DEF IsKernel, Same
    <2>8. j.sleepTime = times
      BY <2>2, <2>4 DEF IsKernel, Fields
    <2>9. /\ Same(j, k, Stays) /\ j.state = k.state /\ j.ipcArgs = k.ipcArgs /\ j.prev = k.prev
          /\ j.pid = k.pid /\ j.process = k.process /\ j.kbd = k.kbd /\ j.fdTab = k.fdTab
          /\ j.sleepList = k.sleepList /\ j.sleepNext = k.sleepNext
          /\ Same(j, k, {"process", "state", "targetOfRecv", "ipcArgs", "waitingFor", "sleepNext", "sleepPrev",
                         "sigMaskInstalled", "sigMaskQueued", "fdTab", "eax"})
      BY <2>7 DEF Same, Fields, Stays
    <2>10. times \in [Slot -> Int] /\ times[h] = k.sleepTime[h] - TIME_SLICE
           /\ \A x \in Slot : x # h => times[x] = k.sleepTime[x]
      BY <2>2, <2>3
    <2>11. Typed(j)
      BY <2>2, <2>8, <2>9, <2>10 DEF Same, Typed
    <2>12. Settled(j, out \cup Away(aside))
      <3>1. PICK all : all = out \cup Away(aside)
        OBVIOUS
      <3>2. Settled(k, all) /\ j.prev \in Links
        BY <2>2, <2>9, <3>1 DEF Sound, Lists
      <3>3. Settled(j, all)
        BY <2>6, <2>9, <2>11, <3>2, EditSettles
      <3> QED
        BY <3>1, <3>3
    <2>13. Sleepers(j) = Sleepers(k) /\ NapHeads(j) = NapHeads(k)
      BY <2>9 DEF Sleepers, NapHeads
    <2>14. Nap(j)
      <3>1. PICK due : IsDue(k, due)
        BY <2>2 DEF Nap
      <3>2. PICK due2 : due2 = [x \in Slot |-> due[x] - TIME_SLICE]
        OBVIOUS
      <3>3. /\ due \in [Slot -> Int] /\ due[h] = k.sleepTime[h]
            /\ \A x \in Sleepers(k) :
                 /\ k.sleepNext[x] # NULL => due[k.sleepNext[x]] = due[x] + k.sleepTime[k.sleepNext[x]]
                 /\ \A time \in Times : due[x] <= time
        BY <1>2, <2>1, <3>1 DEF IsDue
      <3>4. due2 \in [Slot -> Int] /\ \A x \in Slot : due[x] \in Int /\ due2[x] = due[x] - TIME_SLICE
        BY <2>2, <3>2, <3>3
      <3>5. due2[j.sleepList] = j.sleepTime[j.sleepList]
        BY <2>1, <2>2, <2>8, <2>9, <2>10, <3>3, <3>4
      <3>6. \A x \in Sleepers(k) : x \in Slot
        BY <2>2, NapFacts, SlotFacts
      <3>7. ASSUME NEW x \in Sleepers(j), j.sleepNext[x] # NULL
            PROVE  due2[j.sleepNext[x]] = due2[x] + j.sleepTime[j.sleepNext[x]]
        <4>1. PICK n : n = k.sleepNext[x]
          OBVIOUS
        <4>2. x \in Sleepers(k) /\ x \in Slot /\ n # NULL /\ n \in Slot
          BY <2>2, <2>9, <2>13, <3>6, <3>7, <4>1, NapFacts
        <4>3. n # h
          <5>1. NapHeads(k)[Idle] = h /\ Idle \in Slot /\ h # NULL
            BY <1>2, <2>1, SlotFacts DEF NapHeads
          <5> QED
            BY <2>2, <4>1, <4>2, <5>1 DEF Nap, ListsApart, LinkedOnce
        <4>4. due[n] = due[x] + k.sleepTime[n] /\ times[n] = k.sleepTime[n] /\ k.sleepTime[n] \in Int
          BY <2>2, <2>10, <3>3, <4>1, <4>2, <4>3
        <4> QED
          BY <2>2, <2>8, <2>9, <3>4, <4>1, <4>2, <4>4
      <3>8. \A x \in Sleepers(j) : \A time \in Times : due2[x] <= time
        <4> SUFFICES ASSUME NEW x \in Sleepers(k), NEW time \in Times PROVE due2[x] <= time
          BY <2>13
        <4>1. time \in Int /\ due[x] <= time /\ due[x] \in Int /\ due2[x] = due[x] - TIME_SLICE
          BY <3>3, <3>4, <3>6, WorkloadAssumption DEF Times
        <4> QED
          BY <4>1, TimeSliceAssumption
      <3>9. IsDue(j, due2)
        BY <3>4, <3>5, <3>7, <3>8 DEF IsDue
      <3>10. \A x \in Sleepers(j) : j.state[x] = "SLEEPING"
        BY <2>2, <2>9, <2>13 DEF Nap
      <3> QED
        BY <2>2, <2>9, <2>13, <3>9, <3>10 DEF Nap
    <2>15. \A q : Alive(j, q) <=> Alive(k, q)
      BY <2>9 DEF Alive
    <2>16. Reading(j) = Reading(k)
      BY <2>9, <2>15 DEF Reading
    <2>17. Console(j) /\ Aside(j) = aside
      BY <2>2, <2>9, <2>13, <2>15, <2>16, ConsoleSame DEF Owns, Aside
    <2>18. Sound(j, out, aside)
      BY <2>12, <2>14, <2>17 DEF Sound
    <2>19. SomeWoken(WakeExpired(j), j, out, aside)
      BY <2>18, LoopKeeps
    <2> QED
      BY <2>5, <2>9, <2>19 DEF SomeWoken
  <1> QED
    BY <1>1, <1>2

-----------------------------------------------------------------------------
(* The state that a request leaves is the record it computes.              *)
LEMMA SameKeeps ==
    ASSUME NEW k, NEW out, NEW aside, Sound(k, out, aside), NEW j, IsKernel(j), Same(j, k, Fields)
    PROVE  Sound(j, out, aside)
  <1>1. /\ Same(j, k, Fields \ {"state", "ipcArgs", "eax", "prev", "sigMaskInstalled"})
        /\ Same(j, k, {"process", "targetOfRecv", "state", "ipcArgs", "waitingFor", "sleepNext", "eax",
                       "sleepPrev", "sleepTime", "sigMaskInstalled", "sigMaskQueued", "fdTab"})
        /\ j.prev = k.prev /\ j.state = k.state /\ j.ipcArgs = k.ipcArgs
    BY DEF Same, Fields
  <1>2. Typed(j)
    BY <1>1 DEF Same, Typed, Sound, Settled
  <1>3. /\ \A q \in Proc : q \notin out => j.state[q] = k.state[q] /\ j.ipcArgs[q] = k.ipcArgs[q]
        /\ \A q \in out : j.state[q] \in {k.state[q], "BLOCKED"}
        /\ j.prev \in Links
    BY <1>1 DEF Sound, Settled, Lists
  <1> QED
    BY <1>1, <1>2, <1>3, EditKeeps

(* The record of the variables has all the fields.                         *)
LEMMA KernelIsKernel == IsKernel(Kernel) /\ IsKernel(Kernel)'
  BY DEF IsKernel, Kernel, Fields

(* A request ends in the kernel that its functions return.                 *)
LEMMA BecomeKeeps ==
    ASSUME NEW k, SoundAndRunning(k), Become(k)
    PROVE  IInv' /\ Aside(Kernel)' = Aside(k)
  <1>1. Same(Kernel', k, Fields)
    BY DEF Become, Kernel, Same, Fields
  <1>2. process' = k.process /\ state' = k.state
    BY DEF Become
  <1>3. Sound(Kernel', RunningIn(k), Aside(k))
    BY <1>1, KernelIsKernel, SameKeeps DEF SoundAndRunning, IsKernel
  <1>4. Aside(Kernel') = Aside(k)
    BY <1>3 DEF Sound
  <1> QED
    BY <1>2, <1>3, <1>4 DEF IInv, Running, RunningIn, SoundAndRunning

-----------------------------------------------------------------------------
(* Every request of the workload, and the timer.                           *)
LEMMA NextSound ==
    ASSUME NEW k, NEW aside, Sound(k, {}, aside)
    PROVE  SoundAndRunning(NextProcess(k)) /\ Aside(NextProcess(k)) = aside
  <1>1. PICK none : none = {}
    OBVIOUS
  <1>2. /\ SoundAndRunning(NextProcess(k))
        /\ Aside(NextProcess(k)) = [reading |-> aside.reading \cup none, asleep |-> aside.asleep]
    BY <1>1, NextKeeps
  <1>3. aside = [reading |-> aside.reading, asleep |-> aside.asleep]
    BY DEF Sound, Aside
  <1> QED
    BY <1>1, <1>2, <1>3

(* During a request the running process is the one that is in no place.    *)
LEMMA TheRunningOne ==
    ASSUME IInv, process # Idle
    PROVE  /\ Sound(Kernel, {process}, Aside(Kernel)) /\ Kernel.process = process /\ Kernel.state = state
           /\ Kernel.pid = pid /\ Kernel.lastPID = lastPID /\ state[process] = "RUNNING"
           /\ process \in Proc /\ process \in Slot /\ pid[process] = process
           /\ {process} = {process} \ {Idle} /\ {process} \ {process} = {}
  <1>1. Running = {process} /\ {process} = {process} \ {Idle} /\ {process} \ {process} = {}
    BY DEF Running
  <1>2. /\ Kernel.process = process /\ Kernel.state = state
        /\ Kernel.pid = pid /\ Kernel.lastPID = lastPID
    BY DEF Kernel
  <1> QED
    BY <1>1, <1>2, SlotFacts DEF IInv, Sound, Settled, Placed, OutOnes, Alive

(* The requests and the timer interrupt keep the invariant, one by one.    *)
LEMMA CreateStep ==
    ASSUME IInv, CreateRequest
    PROVE  IInv' /\ Aside(Kernel)' = Aside(Kernel)
  <1>1. process # Idle /\ lastPID <= MaxPid
    BY DEF CreateRequest, Issues
  <1> DEFINE k == Kernel
  <1>2. /\ Sound(k, {process}, Aside(k)) /\ k.process = process /\ k.state = state /\ k.lastPID = lastPID
        /\ state[process] = "RUNNING" /\ process \in Slot /\ {process} = {process} \ {Idle}
    BY <1>1, TheRunningOne
  <1> HIDE DEF k
  <1>3. PICK made : made = Create(k)
    OBVIOUS
  <1>4. lastPID \in Proc /\ lastPID \in Int
    BY <1>1, <1>2, MaxPidAssumption DEF Sound, Settled, Pids, Proc
  <1>5. /\ IsKernel(k) /\ Lists(k) /\ Typed(k) /\ Quiet(k) /\ InOrder(k)
        /\ Placed(k, {process} \cup Away(Aside(k))) /\ k.lastPID \in Proc
        /\ {process} \cap Away(Aside(k)) = {} /\ Console(k) /\ Nap(k)
    BY <1>2, <1>4 DEF Sound, Settled, Pids
  <1>6. /\ Sound(made, {process}, Aside(k)) /\ made.process = process
        /\ made.state[process] = "RUNNING"
    <2>1. /\ Sound(made, {process}, Aside(k)) /\ made.process = process
          /\ \A q \in {process} : made.state[q] = k.state[q]
      BY <1>2, <1>3, <1>5, CreateKeeps
    <2> QED
      BY <1>2, <2>1
  <1>7. PICK j : j = WithResult(made, process, lastPID)
    OBVIOUS
  <1>8. Sound(j, {process}, Aside(k)) /\ Same(j, made, Fields \ {"eax"})
    BY <1>2, <1>4, <1>6, <1>7, ResultKeeps
  <1>9. j.process = process /\ j.state = made.state
    BY <1>6, <1>8 DEF Same, Fields
  <1>10. SoundAndRunning(j) /\ Aside(j) = Aside(k)
    <2>1. Aside(j) = Aside(k)
      BY <1>8 DEF Sound
    <2> QED
      BY <1>1, <1>2, <1>6, <1>8, <1>9, <2>1 DEF SoundAndRunning, RunningIn
  <1>11. Become(j)
    BY <1>3, <1>7 DEF CreateRequest, WithResult, k
  <1> QED
    BY <1>10, <1>11, BecomeKeeps DEF k

(* sysyield: the caller goes to the end of the ready queue.                *)
LEMMA YieldStep ==
    ASSUME IInv, YieldRequest
    PROVE  IInv' /\ Aside(Kernel)' = Aside(Kernel)
  <1>1. process # Idle /\ Become(NextProcess(Ready(Kernel, process)))
    BY DEF YieldRequest, Issues
  <1>2. Sound(Kernel, {process}, Aside(Kernel)) /\ process \in {process} /\ {process} \ {process} = {}
    BY <1>1, TheRunningOne
  <1>3. Sound(Ready(Kernel, process), {process} \ {process}, Aside(Kernel))
    BY <1>2, ReadyKeeps
  <1>4. SoundAndRunning(NextProcess(Ready(Kernel, process)))
        /\ Aside(NextProcess(Ready(Kernel, process))) = Aside(Kernel)
    BY <1>2, <1>3, NextSound
  <1> QED
    BY <1>1, <1>4, BecomeKeeps

(* sysstop: the caller is cleaned up.                                      *)
LEMMA StopStep ==
    ASSUME IInv, StopRequest
    PROVE  IInv' /\ Aside(Kernel)' = Aside(Kernel)
  <1>1. /\ process # Idle /\ Become(NextProcess(Cleanup(Kernel, process)))
        /\ "STOP" \in Requests \/ Doomed(process)
    BY DEF StopRequest
  <1>2. Sound(Kernel, {process}, Aside(Kernel)) /\ Kernel.state[process] = "RUNNING" /\ process \in Slot
    BY <1>1, TheRunningOne
  <1>3. "STOP" \in Requests
    <2>1. sigMaskOnStack[process] = {}
      BY <1>2 DEF Sound, Settled, Quiet, Kernel
    <2> QED
      BY <1>1, <2>1 DEF Doomed
  <1>4. Sound(Cleanup(Kernel, process), {}, Aside(Kernel))
    BY <1>2, <1>3, CleanupKeeps
  <1>5. SoundAndRunning(NextProcess(Cleanup(Kernel, process)))
        /\ Aside(NextProcess(Cleanup(Kernel, process))) = Aside(Kernel)
    BY <1>4, NextSound
  <1> QED
    BY <1>1, <1>5, BecomeKeeps

(* sysgetpid: only the result changes.                                     *)
LEMMA GetPidStep ==
    ASSUME IInv, GetPidRequest
    PROVE  IInv' /\ Aside(Kernel)' = Aside(Kernel)
  <1>1. process # Idle
    BY DEF GetPidRequest, Issues
  <1> DEFINE k == Kernel
  <1>2. /\ Sound(k, {process}, Aside(k)) /\ k.process = process /\ k.state = state
        /\ state[process] = "RUNNING" /\ process \in Slot /\ pid[process] = process
        /\ {process} = {process} \ {Idle}
    BY <1>1, TheRunningOne
  <1>3. PICK j : j = WithResult(k, process, process)
    OBVIOUS
  <1>4. Become(j)
    BY <1>2, <1>3 DEF GetPidRequest, WithResult
  <1> HIDE DEF k
  <1>5. process \in Int
    BY <1>2 DEF Slot
  <1>6. Sound(j, {process}, Aside(k)) /\ Same(j, k, Fields \ {"eax"})
    BY <1>2, <1>3, <1>5, ResultKeeps
  <1>7. j.process = process /\ j.state = state
    BY <1>2, <1>6 DEF Same, Fields
  <1>8. SoundAndRunning(j) /\ Aside(j) = Aside(k)
    <2>1. Aside(j) = Aside(k)
      BY <1>6 DEF Sound
    <2> QED
      BY <1>2, <1>6, <1>7, <2>1 DEF SoundAndRunning, RunningIn
  <1> QED
    BY <1>4, <1>8, BecomeKeeps DEF k

(* The argument list that dispatch() keeps for a message.                  *)
ArgsKept(k, p, buffer) == [k EXCEPT !.ipcArgs[p] = buffer]

(* Keeping the argument list of the call is sound.                         *)
LEMMA ArgsKeep ==
    ASSUME NEW k, NEW out, NEW aside, Sound(k, out, aside), NEW p \in out,
           NEW buffer \in Buffers
    PROVE  /\ Sound(ArgsKept(k, p, buffer), out, aside)
           /\ ArgsKept(k, p, buffer).ipcArgs[p] # NULL
  <1>1. IsKernel(k) /\ Lists(k) /\ Typed(k) /\ p \in Slot
    BY SlotFacts DEF Sound, Settled, Placed, OutOnes
  <1>2. PICK j : j = ArgsKept(k, p, buffer)
    OBVIOUS
  <1>3. IsKernel(j)
    BY <1>1, <1>2 DEF ArgsKept, IsKernel
  <1>4. Same(j, k, Fields \ {"ipcArgs"})
    BY <1>1, <1>2 DEF ArgsKept, IsKernel, Same
  <1>5. j.ipcArgs = [k.ipcArgs EXCEPT ![p] = buffer]
    BY <1>1, <1>2 DEF ArgsKept, IsKernel, Fields
  <1>6. /\ Same(j, k, {"process", "state", "targetOfRecv", "waitingFor", "sleepNext", "eax",
                       "sleepPrev", "sleepTime", "sigMaskInstalled", "sigMaskQueued", "fdTab"})
        /\ Same(j, k, Fields \ {"state", "ipcArgs", "eax", "prev", "sigMaskInstalled"})
        /\ j.prev = k.prev /\ j.state = k.state
    BY <1>4 DEF Same, Fields
  <1>7. /\ j.ipcArgs \in [Slot -> Buffers \cup {NULL}] /\ j.ipcArgs[p] # NULL
        /\ \A q \in Slot : q # p => j.ipcArgs[q] = k.ipcArgs[q]
    BY <1>1, <1>5, WorkloadAssumption DEF Typed
  <1>8. Typed(j)
    BY <1>1, <1>6, <1>7 DEF Same, Typed
  <1>9. \A q \in Proc : q \notin out => j.state[q] = k.state[q] /\ j.ipcArgs[q] = k.ipcArgs[q]
    BY <1>6, <1>7, SlotFacts
  <1>10. Sound(j, out, aside)
    BY <1>1, <1>3, <1>6, <1>8, <1>9, EditKeeps DEF Lists
  <1> QED
    BY <1>2, <1>7, <1>10

(* syssend.                                                                *)
LEMMA SendStep ==
    ASSUME NoSignalsNoWaits, IInv, NEW dest \in Named(SendTo), NEW buffer \in Buffers,
           SendRequest(dest, buffer)
    PROVE  IInv' /\ Aside(Kernel)' = Aside(Kernel)
  <1>0. PICK j : j = ArgsKept(Kernel, process, buffer)
    OBVIOUS
  <1>1. process # Idle /\ Become(NextProcess(Send(j, process, dest, buffer)))
    BY <1>0 DEF SendRequest, Issues, ArgsKept
  <1>2. Sound(Kernel, {process}, Aside(Kernel)) /\ process \in {process} /\ process \in Proc
    BY <1>1, TheRunningOne
  <1>3. dest \in Int \ {Idle, TOMBSTONE}
    BY <1>1, <1>2, WorkloadAssumption DEF NoSignalsNoWaits, Named
  <1>4. Sound(j, {process}, Aside(Kernel)) /\ j.ipcArgs[process] # NULL
    BY <1>0, <1>2, ArgsKeep
  <1>5. Sound(Send(j, process, dest, buffer), {}, Aside(Kernel))
    BY <1>3, <1>4, SendKeeps
  <1>6. /\ SoundAndRunning(NextProcess(Send(j, process, dest, buffer)))
        /\ Aside(NextProcess(Send(j, process, dest, buffer))) = Aside(Kernel)
    BY <1>5, NextSound
  <1> QED
    BY <1>1, <1>6, BecomeKeeps

(* sysrecv.                                                                *)
LEMMA RecvStep ==
    ASSUME NoSignalsNoWaits, IInv, NEW from \in Named(ReceiveFrom), NEW buffer \in Buffers,
           RecvRequest(from, buffer)
    PROVE  IInv' /\ Aside(Kernel)' = Aside(Kernel)
  <1>0. PICK j : j = ArgsKept(Kernel, process, buffer)
    OBVIOUS
  <1>1. process # Idle /\ Become(NextProcess(Recv(j, process, from, buffer)))
    BY <1>0 DEF RecvRequest, Issues, ArgsKept
  <1>2. Sound(Kernel, {process}, Aside(Kernel)) /\ process \in {process} /\ process \in Proc
    BY <1>1, TheRunningOne
  <1>3. from \in Int \ {TOMBSTONE}
    BY <1>1, <1>2, WorkloadAssumption DEF NoSignalsNoWaits, Named
  <1>4. Sound(j, {process}, Aside(Kernel)) /\ j.ipcArgs[process] # NULL
    BY <1>0, <1>2, ArgsKeep
  <1>5. Sound(Recv(j, process, from, buffer), {}, Aside(Kernel))
    BY <1>3, <1>4, RecvKeeps
  <1>6. /\ SoundAndRunning(NextProcess(Recv(j, process, from, buffer)))
        /\ Aside(NextProcess(Recv(j, process, from, buffer))) = Aside(Kernel)
    BY <1>5, NextSound
  <1> QED
    BY <1>1, <1>6, BecomeKeeps

(* Registering a handler changes a mask and the result.                    *)
LEMMA HandlerKeeps ==
    ASSUME NEW k, NEW out, NEW aside, Sound(k, out, aside), NEW p \in Slot, NEW sig, NEW newHandler,
           NEW oldHandler
    PROVE  /\ Sound(HandleRegister(k, p, sig, newHandler, oldHandler), out, aside)
           /\ HandleRegister(k, p, sig, newHandler, oldHandler).process = k.process
           /\ HandleRegister(k, p, sig, newHandler, oldHandler).state = k.state
  <1>1. PICK j : j = HandleRegister(k, p, sig, newHandler, oldHandler)
    OBVIOUS
  <1>2. CASE j = WithResult(k, p, -1) \/ j = WithResult(k, p, -2)
    <2>1. -1 \in Int /\ -2 \in Int
      OBVIOUS
    <2>2. Sound(j, out, aside) /\ Same(j, k, Fields \ {"eax"})
      BY <1>2, <2>1, ResultKeeps
    <2>3. j.process = k.process /\ j.state = k.state
      BY <2>2 DEF Same, Fields
    <2> QED
      BY <1>1, <2>2, <2>3
  <1>3. CASE j = [k EXCEPT !.sigMaskInstalled[p] = @ \ {sig}, !.eax[p] = 0]
    <2>1. IsKernel(k) /\ Lists(k) /\ Typed(k)
      BY DEF Sound, Settled
    <2> DEFINE mask == [k.sigMaskInstalled EXCEPT ![p] = @ \ {sig}]
               result == [k.eax EXCEPT ![p] = 0]
    <2>2. j = [k EXCEPT !.sigMaskInstalled = mask, !.eax = result]
      BY <1>3
    <2>3. mask \in [Slot -> SUBSET Signals] /\ result \in [Slot -> Int]
      <3>1. k.sigMaskInstalled \in [Slot -> SUBSET Signals]
        BY <2>1 DEF Typed
      <3>2. mask \in [Slot -> SUBSET Signals]
        BY <3>1
      <3>3. result \in [Slot -> Int]
        BY <2>1 DEF Typed
      <3> QED
        BY <3>2, <3>3
    <2> HIDE DEF mask, result
    <2>4. IsKernel(j)
      BY <2>1, <2>2 DEF IsKernel
    <2>5. Same(j, k, Fields \ {"sigMaskInstalled", "eax"})
      BY <2>1, <2>2 DEF IsKernel, Same
    <2>6. j.sigMaskInstalled = mask /\ j.eax = result
      BY <2>1, <2>2 DEF IsKernel, Fields
    <2>7. /\ Same(j, k, {"process", "state", "targetOfRecv", "ipcArgs", "waitingFor", "sleepNext",
                         "sleepPrev", "sleepTime", "sigMaskQueued", "fdTab"})
          /\ Same(j, k, Fields \ {"state", "ipcArgs", "eax", "prev", "sigMaskInstalled"})
          /\ j.prev = k.prev /\ j.state = k.state /\ j.ipcArgs = k.ipcArgs /\ j.process = k.process
      BY <2>5 DEF Same, Fields
    <2>8. Typed(j)
      BY <2>1, <2>3, <2>6, <2>7 DEF Same, Typed
    <2>9. Sound(j, out, aside)
      BY <2>1, <2>4, <2>7, <2>8, EditKeeps DEF Lists
    <2> QED
      BY <1>1, <2>7, <2>9
  <1> QED
    BY <1>1, <1>2, <1>3 DEF HandleRegister, WithResult

(* syssighandler: with no signal pending, a handler changes nobody's       *)
(* place.                                                                  *)
LEMMA SigHandleStep ==
    ASSUME IInv, NEW sig, NEW newHandler,
           NEW oldHandler,
           SigHandleRequest(sig, newHandler, oldHandler)
    PROVE  IInv' /\ Aside(Kernel)' = Aside(Kernel)
  <1>1. process # Idle /\ Become(HandleRegister(Kernel, process, sig, newHandler, oldHandler))
    BY DEF SigHandleRequest, Issues
  <1>2. /\ Sound(Kernel, {process}, Aside(Kernel)) /\ Kernel.process = process /\ Kernel.state = state
        /\ state[process] = "RUNNING" /\ process \in Slot /\ {process} = {process} \ {Idle}
    BY <1>1, TheRunningOne
  <1>3. PICK j : j = HandleRegister(Kernel, process, sig, newHandler, oldHandler)
    OBVIOUS
  <1>4. Sound(j, {process}, Aside(Kernel)) /\ j.process = process /\ j.state = state
    BY <1>2, <1>3, HandlerKeeps
  <1>5. SoundAndRunning(j) /\ Aside(j) = Aside(Kernel)
    <2>1. Aside(j) = Aside(Kernel)
      BY <1>4 DEF Sound
    <2> QED
      BY <1>2, <1>4, <2>1 DEF SoundAndRunning, RunningIn
  <1> QED
    BY <1>1, <1>3, <1>5, BecomeKeeps

-----------------------------------------------------------------------------
(* The device calls.  A call that does not wait has made its caller ready. *)
LEMMA CallStep ==
    ASSUME IInv, NEW k, Sound(k, {}, Aside(Kernel)), Become(NextProcess(k))
    PROVE  IInv' /\ Aside(Kernel)' = Aside(Kernel)
  BY NextSound, BecomeKeeps

(* sysopen.                                                                *)
LEMMA OpenStep ==
    ASSUME IInv, NEW dev \in Devices, OpenRequest(dev)
    PROVE  IInv' /\ Aside(Kernel)' = Aside(Kernel)
  <1>1. process # Idle /\ Become(NextProcess(DiOpen(Kernel, process, dev))) /\ dev \in Nat
    BY WorkloadAssumption DEF OpenRequest, Issues
  <1>2. Sound(DiOpen(Kernel, process, dev), {}, Aside(Kernel))
    BY <1>1, TheRunningOne, DiOpenKeeps
  <1> QED
    BY <1>1, <1>2, CallStep

(* sysclose.                                                               *)
LEMMA CloseStep ==
    ASSUME IInv, NEW fd, CloseRequest(fd)
    PROVE  IInv' /\ Aside(Kernel)' = Aside(Kernel)
  <1>1. process # Idle /\ Become(NextProcess(DiClose(Kernel, process, fd)))
    BY DEF CloseRequest, Issues
  <1>2. Sound(DiClose(Kernel, process, fd), {}, Aside(Kernel))
    BY <1>1, TheRunningOne, DiCloseKeeps
  <1> QED
    BY <1>1, <1>2, CallStep

(* syswrite.                                                               *)
LEMMA WriteStep ==
    ASSUME IInv, NEW fd, NEW buffer \in Buffers, WriteRequest(fd, buffer)
    PROVE  IInv' /\ Aside(Kernel)' = Aside(Kernel)
  <1>0. PICK valid : valid = IsValidBuffer(buffer)
    OBVIOUS
  <1>1. process # Idle /\ Become(NextProcess(DiWrite(Kernel, process, fd, valid))) /\ valid \in BOOLEAN
    BY <1>0 DEF WriteRequest, Issues, IsValidBuffer
  <1>2. Sound(DiWrite(Kernel, process, fd, valid), {}, Aside(Kernel))
    BY <1>1, TheRunningOne, DiWriteKeeps
  <1> QED
    BY <1>1, <1>2, CallStep

(* sysioctl.                                                               *)
LEMMA IoctlStep ==
    ASSUME IInv, NEW fd, NEW command \in Commands, IoctlRequest(fd, command)
    PROVE  IInv' /\ Aside(Kernel)' = Aside(Kernel)
  <1>1. process # Idle /\ Become(NextProcess(DiIoctl(Kernel, process, fd, command[1], command[2])))
    BY DEF IoctlRequest, Issues
  <1>2. command[1] = "KBD_IOCTL_EOF" => command[2] \in EofChars
    BY DEF Commands
  <1>3. Sound(DiIoctl(Kernel, process, fd, command[1], command[2]), {}, Aside(Kernel))
    BY <1>1, <1>2, TheRunningOne, DiIoctlKeeps
  <1> QED
    BY <1>1, <1>3, CallStep

(* sysread: the call may leave its caller waiting for characters.          *)
LEMMA ReadStep ==
    ASSUME IInv, NEW fd, NEW buffer \in Buffers, NEW n \in ReadLengths, ReadRequest(fd, buffer, n)
    PROVE  /\ IInv' /\ Aside(Kernel)'.asleep = Aside(Kernel).asleep
           /\ Aside(Kernel).reading \subseteq Aside(Kernel)'.reading
  <1>0. PICK valid : valid = IsValidBuffer(buffer)
    OBVIOUS
  <1>1. PICK k : k = DiRead(Kernel, process, fd, valid, n)
    OBVIOUS
  <1>2. process # Idle /\ Become(NextProcess(k)) /\ valid \in BOOLEAN /\ n \in Nat
    BY <1>0, <1>1, WorkloadAssumption DEF ReadRequest, Issues, IsValidBuffer
  <1>3. \/ Sound(k, {}, Aside(Kernel))
        \/ Sound(k, {process}, Aside(Kernel)) /\ k.process = process /\ MayRead(k, process)
    BY <1>1, <1>2, TheRunningOne, DiReadKeeps
  <1>4. CASE Sound(k, {}, Aside(Kernel))
    BY <1>2, <1>4, CallStep
  <1>5. CASE Sound(k, {process}, Aside(Kernel)) /\ k.process = process /\ MayRead(k, process)
    <2>1. PICK out : out = {process}
      OBVIOUS
    <2>2. /\ SoundAndRunning(NextProcess(k))
          /\ Aside(NextProcess(k)) = [reading |-> Aside(Kernel).reading \cup out,
                                      asleep |-> Aside(Kernel).asleep]
      BY <1>5, <2>1, NextKeeps
    <2>3. IInv' /\ Aside(Kernel)' = Aside(NextProcess(k))
      BY <1>2, <2>2, BecomeKeeps
    <2> QED
      BY <2>2, <2>3
  <1> QED
    BY <1>3, <1>4, <1>5

(* An interrupt makes the process it interrupted ready, unless it is the   *)
(* idle one.                                                               *)
LEMMA InterruptStep ==
    ASSUME NEW k, NEW aside, Sound(k, Running, aside), k.process = process,
           Become(NextProcess(Ready(k, process)))
    PROVE  /\ IInv' /\ Aside(Kernel)' = aside
           /\ kbd' = k.kbd /\ eax' = k.eax
  <1>1. PICK j : j = Ready(k, process)
    OBVIOUS
  <1>2. IsKernel(k) /\ process \in Slot
    BY DEF Sound, Settled, Typed
  <1>3. Sound(j, {}, aside) /\ j.kbd = k.kbd /\ j.eax = k.eax
    <2>1. CASE process = Idle
      <3>1. j = k /\ Running = {}
        BY <1>1, <2>1 DEF Ready, Running
      <3> QED
        BY <3>1
    <2>2. CASE process # Idle
      <3>1. process \in Proc /\ Running = {process} /\ process \in Running /\ Running \ {process} = {}
        BY <1>2, <2>2, SlotFacts DEF Running
      <3>2. Sound(j, Running \ {process}, aside)
        BY <1>1, <3>1, ReadyKeeps
      <3>3. Same(j, k, Fields \ {"readyQueue", "next", "prev", "state"})
        BY <1>1, <1>2, <3>1, ReadyEffect
      <3>4. j.kbd = k.kbd /\ j.eax = k.eax
        BY <3>3 DEF Same, Fields
      <3> QED
        BY <3>1, <3>2, <3>4
    <2> QED
      BY <2>1, <2>2
  <1>4. PICK n : n = NextProcess(j)
    OBVIOUS
  <1>5. SoundAndRunning(n) /\ Aside(n) = aside
    BY <1>3, <1>4, NextSound
  <1>6. Become(n)
    BY <1>1, <1>4
  <1>7. IInv' /\ Aside(Kernel)' = aside
    BY <1>5, <1>6, BecomeKeeps
  <1>8. n.kbd = j.kbd /\ n.eax = j.eax
    <2>1. Same(n, j, Fields \ {"readyQueue", "next", "prev", "state", "process"})
      BY <1>3, <1>4, NextEffect DEF Sound, Settled
    <2> QED
      BY <2>1 DEF Same, Fields
  <1>9. kbd' = n.kbd /\ eax' = n.eax
    BY <1>6 DEF Become
  <1> QED
    BY <1>3, <1>7, <1>8, <1>9

(* The readers of the runs are those of the invariant.                     *)
LEMMA ReadersAre ==
    /\ Readers = Reading(Kernel) /\ Aside(Kernel).reading = Readers
    /\ Readers' = Reading(Kernel)' /\ Aside(Kernel)'.reading = Readers'
  BY DEF Readers, Reading, Kernel, Alive, Aside

(* The keyboard interrupt: the reads it ends return what they should.      *)
LEMMA KbdStep ==
    ASSUME NoSignalsNoWaits, IInv, NEW key \in Keys, KbdInt(key)
    PROVE  /\ IInv' /\ Aside(Kernel)'.asleep = Aside(Kernel).asleep
           /\ \A q \in Aside(Kernel).reading \ Aside(Kernel)'.reading :
                eax'[q] = IF "DISABLE" \in kbd'.state THEN 0 ELSE Len(kbd'.chars)
  <1>1. kbd.irq /\ Strikes(key) /\ Become(NextProcess(Ready(KbdISR(Kernel, key), process)))
    BY DEF KbdInt
  <1>2. Kernel.kbd = kbd /\ Kernel.process = process
    BY DEF Kernel
  <1>3. \/ kbd.p \in Reading(Kernel) \cup {NULL}
        \/ key = NOCHAR /\ Len(kbd.chars) < kbd.buflen
    <2>1. Typist = "patient"
      BY DEF NoSignalsNoWaits
    <2> QED
      BY <1>1, <2>1, ReadersAre DEF Strikes
  <1>4. Sound(Kernel, Running, Aside(Kernel))
    BY DEF IInv
  <1>5. PICK k : k = KbdISR(Kernel, key)
    OBVIOUS
  <1>6. PICK gone \in SUBSET Aside(Kernel).reading :
             /\ Sound(k, Running, [reading |-> Aside(Kernel).reading \ gone, asleep |-> Aside(Kernel).asleep])
             /\ k.process = process
             /\ \A q \in gone : k.eax[q] = IF "DISABLE" \in k.kbd.state THEN 0 ELSE Len(k.kbd.chars)
    <2>1. Kernel.kbd.irq /\ key \in Keys
      BY <1>1, <1>2
    <2>2. \/ Kernel.kbd.p \in Reading(Kernel) \cup {NULL}
          \/ key = NOCHAR /\ Len(Kernel.kbd.chars) < Kernel.kbd.buflen
      BY <1>2, <1>3
    <2> HIDE DEF Kernel
    <2>3. PICK old, before : old = Kernel /\ before = Aside(Kernel)
      OBVIOUS
    <2>4. /\ Sound(old, Running, before) /\ old.kbd.irq
          /\ old.kbd.p \in Reading(old) \cup {NULL} \/ (key = NOCHAR /\ Len(old.kbd.chars) < old.kbd.buflen)
          /\ old.process = process
      BY <1>2, <1>4, <2>1, <2>2, <2>3
    <2>5. ReadsEnded(KbdISR(old, key), old, Running, before)
      BY <2>4, IsrKeeps
    <2>6. ReadsEnded(k, old, Running, before)
      BY <1>5, <2>3, <2>5
    <2> QED
      BY <2>3, <2>4, <2>6 DEF ReadsEnded
  <1>7. PICK aside : aside = [reading |-> Aside(Kernel).reading \ gone, asleep |-> Aside(Kernel).asleep]
    OBVIOUS
  <1>8. IInv' /\ Aside(Kernel)' = aside /\ kbd' = k.kbd /\ eax' = k.eax
    BY <1>1, <1>5, <1>6, <1>7, InterruptStep
  <1> QED
    BY <1>6, <1>7, <1>8

(* The timer interrupt wakes sleepers and makes the process it interrupted *)
(* ready.                                                                  *)
LEMMA TimerStep ==
    ASSUME IInv, TimerInt
    PROVE  IInv' /\ Aside(Kernel)'.reading = Aside(Kernel).reading
  <1>1. PICK k : k = Tick(Kernel)
    OBVIOUS
  <1>2. Sound(Kernel, Running, Aside(Kernel)) /\ Kernel.process = process
    BY DEF IInv, Kernel
  <1>3. SomeWoken(k, Kernel, Running, Aside(Kernel))
    BY <1>1, <1>2, TickKeeps
  <1>4. PICK gone \in SUBSET Aside(Kernel).asleep :
          Sound(k, Running, [reading |-> Aside(Kernel).reading, asleep |-> Aside(Kernel).asleep \ gone])
    BY <1>3 DEF SomeWoken
  <1>5. PICK aside : aside = [reading |-> Aside(Kernel).reading, asleep |-> Aside(Kernel).asleep \ gone]
    OBVIOUS
  <1>6. Sound(k, Running, aside) /\ k.process = process
    BY <1>2, <1>3, <1>4, <1>5 DEF SomeWoken
  <1>7. Become(NextProcess(Ready(k, process)))
    BY <1>1, <1>2 DEF TimerInt, Interrupted
  <1>8. IInv' /\ Aside(Kernel)' = aside
    BY <1>6, <1>7, InterruptStep
  <1> QED
    BY <1>5, <1>8

(* syssleep.                                                               *)
LEMMA SleepStep ==
    ASSUME NoSignalsNoWaits, IInv, NEW milliseconds \in Named(Durations), SleepRequest(milliseconds)
    PROVE  /\ IInv' /\ Aside(Kernel)'.reading = Aside(Kernel).reading
           /\ Aside(Kernel).asleep \subseteq Aside(Kernel)'.asleep
  <1>1. process # Idle /\ Become(NextProcess(Sleep(Kernel, process, milliseconds)))
    BY DEF SleepRequest, Issues
  <1>2. /\ Sound(Kernel, {process}, Aside(Kernel)) /\ process \in Proc /\ process \in Slot
        /\ process \in {process} /\ {process} \ {process} = {}
    BY <1>1, TheRunningOne
  <1>3. milliseconds \in Durations[process] /\ milliseconds \in Nat
    BY <1>1, <1>2, WorkloadAssumption DEF Named
  <1>4. PICK k : k = Sleep(Kernel, process, milliseconds)
    OBVIOUS
  <1>5. CASE milliseconds = 0
    <2>1. k = Ready(WithResult(Kernel, process, 0), process)
      BY <1>4, <1>5 DEF Sleep, WithResult
    <2>2. Sound(WithResult(Kernel, process, 0), {process}, Aside(Kernel))
      BY <1>2, ResultKeeps
    <2>3. Sound(k, {process} \ {process}, Aside(Kernel))
      BY <1>2, <2>1, <2>2, ReadyKeeps
    <2>4. IInv' /\ Aside(Kernel)' = Aside(Kernel)
      BY <1>1, <1>2, <1>4, <2>3, CallStep
    <2> QED
      BY <2>4
  <1>6. CASE milliseconds # 0
    <2>1. k = AddToSleepList([Kernel EXCEPT !.state[process] = "SLEEPING"], process, milliseconds)
      BY <1>4, <1>6 DEF Sleep
    <2>2. milliseconds \in Times /\ milliseconds \in Int /\ \A s \in Times : s = milliseconds
      <3>1. milliseconds \in Times /\ milliseconds \in Int
        <4>1. Durations[process] \in {Durations[p] : p \in Proc}
          BY <1>2
        <4>2. milliseconds \in UNION {Durations[p] : p \in Proc}
          BY <1>3, <4>1
        <4> QED
          BY <1>3, <1>6, <4>2 DEF Times
      <3>2. ASSUME NEW s \in Times PROVE s = milliseconds
        <4>1. PICK q \in Proc : s \in Durations[q] \ {0}
          <5>1. s \in UNION {Durations[p] : p \in Proc} /\ s # 0
            BY <3>2 DEF Times
          <5>2. PICK chosen \in {Durations[p] : p \in Proc} : s \in chosen
            BY <5>1
          <5> QED
            BY <5>1, <5>2
        <4>2. \A p, r \in Proc : \A m \in Durations[p] \ {0}, t \in Durations[r] \ {0} : m = t
          BY DEF NoSignalsNoWaits
        <4>3. milliseconds \in Durations[process] \ {0}
          BY <1>3, <1>6
        <4> QED
          BY <1>2, <4>1, <4>2, <4>3
      <3> QED
        BY <3>1, <3>2
    <2>3. PICK aside : aside = [reading |-> Aside(Kernel).reading, asleep |-> Aside(Kernel).asleep \cup {process}]
      OBVIOUS
    <2>4. Sound(k, {process} \ {process}, aside)
      BY <1>2, <2>1, <2>2, <2>3, AddKeeps
    <2>5. Sound(k, {}, aside)
      BY <1>2, <2>4
    <2>6. PICK n : n = NextProcess(k)
      OBVIOUS
    <2>7. SoundAndRunning(n) /\ Aside(n) = aside
      BY <2>5, <2>6, NextSound
    <2>8. IInv' /\ Aside(Kernel)' = aside
      BY <1>1, <1>4, <2>6, <2>7, BecomeKeeps
    <2> QED
      BY <2>3, <2>8
  <1> QED
    BY <1>5, <1>6

-----------------------------------------------------------------------------
(* The initial state: the idle process and mainProgram are created.        *)
LEMMA IdleMade ==
    LET k == Create(InitialTable)
    IN  /\ IsKernel(k) /\ Lists(k) /\ Typed(k) /\ Quiet(k) /\ InOrder(k) /\ Placed(k, {})
        /\ k.lastPID \in Proc /\ Away(Aside(k)) = {} /\ Console(k) /\ Nap(k)
  <1> DEFINE i == InitialTable
  <1>1. /\ IsKernel(i) /\ i.lastPID = Idle
        /\ i.readyQueue = NULL /\ i.process = Idle /\ i.sleepList = NULL /\ i.kbd = InitialKbd /\ i.fault = "none"
        /\ i.next = [x \in Slot |-> NULL] /\ i.prev = [x \in Slot |-> NULL]
        /\ i.state = [x \in Slot |-> "STOPPED"] /\ i.pid = [x \in Slot |-> EMPTY]
        /\ i.senderQueue = [x \in Slot |-> NULL] /\ i.targetOfRecv = [x \in Slot |-> EMPTY]
        /\ i.ipcArgs = [x \in Slot |-> NULL] /\ i.waitingFor = [x \in Slot |-> 0]
        /\ i.waitingNext = [x \in Slot |-> NULL] /\ i.sleepNext = [x \in Slot |-> NULL]
        /\ i.sleepPrev = [x \in Slot |-> NULL] /\ i.sleepTime = [x \in Slot |-> 0]
        /\ i.sigMaskInstalled = [x \in Slot |-> {}] /\ i.sigMaskOnStack = [x \in Slot |-> {}]
        /\ i.sigMaskQueued = [x \in Slot |-> {}] /\ i.fdTab = [x \in Slot |-> NoDescriptors]
        /\ i.eax = [x \in Slot |-> 0]
    BY DEF InitialTable, IsKernel, Fields, Idle
  <1> HIDE DEF i
  <1>2. PICK j : Create(i) = Ready(j, Idle) /\ NewPcbMade(j, i, Idle)
    BY <1>1, CreateEffect
  <1>3. Create(InitialTable) = j
    BY <1>2 DEF Ready, i
  <1>4. /\ IsKernel(j) /\ j.lastPID = Idle + 1 /\ j.readyQueue = NULL /\ j.process = Idle
        /\ j.prev = [x \in Slot |-> NULL] /\ j.state = [x \in Slot |-> "STOPPED"]
        /\ j.sleepList = NULL /\ j.kbd = InitialKbd /\ j.fault = "none" /\ j.eax = [x \in Slot |-> 0]
    BY <1>1, <1>2 DEF NewPcbMade, Same
  <1>5. /\ j.next = [x \in Slot |-> NULL] /\ j.senderQueue = [x \in Slot |-> NULL]
        /\ j.waitingNext = [x \in Slot |-> NULL]
    <2>1. j.next = [i.next EXCEPT ![Idle] = NULL]
      BY <1>2 DEF NewPcbMade
    <2>2. j.senderQueue = [i.senderQueue EXCEPT ![Idle] = NULL]
      BY <1>2 DEF NewPcbMade
    <2>3. j.waitingNext = [i.waitingNext EXCEPT ![Idle] = NULL]
      BY <1>2 DEF NewPcbMade
    <2>4. [x \in Slot |-> NULL] = [[x \in Slot |-> NULL] EXCEPT ![Idle] = NULL]
      OBVIOUS
    <2> QED
      BY <1>1, <2>1, <2>2, <2>3, <2>4
  <1>6. j.sleepNext = [x \in Slot |-> NULL] /\ j.sleepPrev = [x \in Slot |-> NULL]
    BY <1>1, <1>2 DEF NewPcbMade
  <1>7. j.pid = [x \in Slot |-> IF x = Idle THEN Idle ELSE EMPTY]
    <2>1. j.pid = [i.pid EXCEPT ![Idle] = Idle]
      BY <1>2 DEF NewPcbMade
    <2>2. j.pid = [[x \in Slot |-> EMPTY] EXCEPT ![Idle] = Idle]
      BY <1>1, <2>1
    <2> QED
      BY <2>2
  <1>8. j.targetOfRecv = [x \in Slot |-> IF x = Idle THEN Idle ELSE EMPTY]
    <2>1. j.targetOfRecv = [i.targetOfRecv EXCEPT ![Idle] = Idle]
      BY <1>2 DEF NewPcbMade
    <2>2. j.targetOfRecv = [[x \in Slot |-> EMPTY] EXCEPT ![Idle] = Idle]
      BY <1>1, <2>1
    <2> QED
      BY <2>2
  <1>9. Lists(j)
    <2>1. Heads(j) = [x \in Slot |-> NULL]
      BY <1>4, <1>5 DEF Heads
    <2>2. [x \in Slot |-> NULL] \in Links
      BY DEF Links
    <2>3. LinkedOnce(j.next, Heads(j)) /\ OnlyMembersLinked(j.next, Heads(j))
      BY <1>5, <2>1 DEF LinkedOnce, OnlyMembersLinked
    <2>4. j.senderQueue[Idle] = NULL
      BY <1>5, SlotFacts
    <2> QED
      BY <1>4, <1>5, <2>1, <2>2, <2>3, <2>4 DEF Lists, ListsApart
  <1>10. Quiet(j)
    <2>1. j.sigMaskOnStack = [x \in Slot |-> {}]
      BY <1>1, <1>2 DEF NewPcbMade
    <2> QED
      BY <1>4, <1>5, <2>1 DEF Quiet
  <1>11. Idle + 1 = 1 /\ 1 \in Proc /\ \A x \in Proc : x \in Slot /\ x # EMPTY /\ x # Idle /\ ~(x < 1)
    BY SlotFacts, MaxPidAssumption DEF Idle, Proc, EMPTY
  <1>12. InOrder(j)
    <2>1. j.pid \in [Slot -> Slot \cup {EMPTY, TOMBSTONE}]
      BY <1>7, SlotFacts
    <2>2. j.pid[Idle] = Idle /\ j.targetOfRecv[Idle] = Idle
      BY <1>7, <1>8, SlotFacts
    <2>3. \A x \in Slot : IF x < j.lastPID THEN j.pid[x] \in {x, TOMBSTONE} ELSE j.pid[x] = EMPTY
      <3>1. Idle < 1
        BY DEF Idle
      <3> QED
        BY <1>4, <1>7, <1>11, <3>1, SlotFacts
    <2>4. \A x \in Proc : j.targetOfRecv[x] \in {x, EMPTY}
      BY <1>8, <1>11
    <2> QED
      BY <2>1, <2>2, <2>3, <2>4 DEF InOrder
  <1>13. Typed(j)
    <2>1. j.state \in [Slot -> ProcState] /\ j.process \in Slot
      BY <1>4, SlotFacts DEF ProcState
    <2>2. j.targetOfRecv \in [Slot -> Slot \cup {EMPTY, TOMBSTONE}]
      BY <1>8, SlotFacts
    <2>3. j.ipcArgs \in [Slot -> Buffers \cup {NULL}]
      <3>1. j.ipcArgs = [i.ipcArgs EXCEPT ![Idle] = NULL]
        BY <1>2 DEF NewPcbMade
      <3>2. j.ipcArgs = [[x \in Slot |-> NULL] EXCEPT ![Idle] = NULL]
        BY <1>1, <3>1
      <3> QED
        BY <3>2
    <2>4. j.waitingFor \in [Slot -> Slot]
      <3>1. 0 \in Slot
        BY SlotFacts DEF Idle
      <3>2. j.waitingFor = [i.waitingFor EXCEPT ![Idle] = 0]
        BY <1>2 DEF NewPcbMade
      <3>3. j.waitingFor = [[x \in Slot |-> 0] EXCEPT ![Idle] = 0]
        BY <1>1, <3>2
      <3> QED
        BY <3>1, <3>3
    <2>5. j.sleepNext \in Links /\ j.sleepPrev \in Links
      BY <1>6 DEF Links
    <2>6. j.sleepTime \in [Slot -> Int]
      BY <1>1, <1>2, SlotFacts DEF NewPcbMade
    <2>7. j.sigMaskInstalled \in [Slot -> SUBSET Signals]
      BY <1>1, <1>2, SlotFacts DEF NewPcbMade, SysStop, Signals
    <2>8. j.sigMaskQueued \in [Slot -> SUBSET Signals]
      BY <1>1, <1>2, SlotFacts DEF NewPcbMade
    <2>9. j.fdTab \in [Slot -> [DOMAIN NoDescriptors -> 0..(DTAB_SIZE - 1) \cup {NULL}]]
      <3>1. NoDescriptors \in [DOMAIN NoDescriptors -> 0..(DTAB_SIZE - 1) \cup {NULL}]
        BY DEF NoDescriptors
      <3>2. j.fdTab = [[x \in Slot |-> NoDescriptors] EXCEPT ![Idle] = NoDescriptors]
        BY <1>1, <1>2 DEF NewPcbMade
      <3> QED
        BY <3>1, <3>2, SlotFacts
    <2>10. j.eax \in [Slot -> Int]
      BY <1>4
    <2> QED
      BY <2>1, <2>2, <2>3, <2>4, <2>5, <2>6, <2>7, <2>8, <2>9, <2>10 DEF Typed
  <1>14. Placed(j, {})
    <2>1. \A a \in Slot : On(j, a) = {}
      <3>1. \A a \in Slot : Heads(j)[a] = NULL
        BY <1>4, <1>5, SlotFacts DEF Heads
      <3> QED
        BY <3>1, ReachNull DEF On, Chain
    <2>2. \A x \in Proc : ~Alive(j, x)
      BY <1>7, <1>11 DEF Alive
    <2> QED
      BY <2>1, <2>2, SlotFacts DEF Placed, ReadyOnes, SendingOnes, ReceivingOnes, OutOnes, Everybody
  <1>15. \A x \in Proc : ~Alive(j, x)
    BY <1>7, <1>11 DEF Alive
  <1>16. Reading(j) = {} /\ Sleepers(j) = {} /\ Away(Aside(j)) = {}
    BY <1>4, <1>15, ReachNull DEF Reading, Sleepers, Aside, Away
  <1>17. Console(j)
    <2>1. j.kbd \in KbdType
      BY <1>4 DEF KbdType, InitialKbd, NotOpen
    <2>2. \A p, fd : ~Owns(j, p, fd)
      BY <1>15 DEF Owns
    <2> QED
      BY <1>4, <1>16, <2>1, <2>2 DEF Console, OneOwner, InitialKbd
  <1>18. Nap(j)
    <2>1. NapHeads(j) = [x \in Slot |-> NULL]
      BY <1>4 DEF NapHeads
    <2>2. [x \in Slot |-> NULL] \in Links
      BY DEF Links
    <2>3. ListsApart(j.sleepNext, NapHeads(j))
      BY <1>6, <2>1, <2>2 DEF LinkedOnce, OnlyMembersLinked, ListsApart
    <2>4. IsDue(j, [x \in Slot |-> 0])
      BY <1>4, <1>16 DEF IsDue
    <2> QED
      BY <1>4, <1>16, <2>3, <2>4 DEF Nap
  <1> QED
    BY <1>3, <1>4, <1>9, <1>10, <1>11, <1>12, <1>13, <1>14, <1>16, <1>17, <1>18

(* initproc creates two processes and starts one of them.                  *)
LEMMA InitSound ==
    ASSUME Init
    PROVE  IInv
  <1>1. PICK idle : idle = Create(InitialTable)
    OBVIOUS
  <1>2. PICK aside : aside = Aside(idle)
    OBVIOUS
  <1>3. Sound(Create(idle), {}, aside)
    <2>1. /\ IsKernel(idle) /\ Lists(idle) /\ Typed(idle) /\ Quiet(idle) /\ InOrder(idle)
          /\ Placed(idle, {}) /\ Away(aside) = {} /\ idle.lastPID \in Proc
          /\ Console(idle) /\ Nap(idle)
      BY <1>1, <1>2, IdleMade
    <2>2. PICK none : none = {}
      OBVIOUS
    <2>3. Placed(idle, none \cup Away(aside)) /\ none \cap Away(aside) = {}
      BY <2>1, <2>2
    <2>4. Sound(Create(idle), none, aside)
      BY <1>2, <2>1, <2>3, CreateKeeps
    <2> QED
      BY <2>2, <2>4
  <1>4. PICK k : k = NextProcess(Create(idle))
    OBVIOUS
  <1>5. SoundAndRunning(k)
    BY <1>3, <1>4, NextSound
  <1>6. Same(Kernel, k, Fields)
    BY <1>1, <1>4 DEF Init, Kernel, Same, Fields
  <1>7. process = k.process /\ state = k.state
    BY <1>1, <1>4 DEF Init
  <1>8. Sound(Kernel, RunningIn(k), Aside(k))
    BY <1>5, <1>6, KernelIsKernel, SameKeeps DEF SoundAndRunning
  <1>9. Aside(Kernel) = Aside(k)
    BY <1>8 DEF Sound
  <1> QED
    BY <1>5, <1>7, <1>8, <1>9 DEF IInv, Running, RunningIn, SoundAndRunning

(* Whoever sleeps goes on sleeping, and a read that waited returns what it *)
(* should.                                                                 *)
AsleepStay == Aside(Kernel).asleep \subseteq Aside(Kernel)'.asleep

ReadsReturn ==
    \A p \in Aside(Kernel).reading \ Aside(Kernel)'.reading :
        eax'[p] = IF "DISABLE" \in kbd'.state THEN 0 ELSE Len(kbd'.chars)

(* A step of the workload is one of those above.                           *)
LEMMA StepSound ==
    ASSUME NoSignalsNoWaits, IInv, [Next]_vars
    PROVE  IInv' /\ (TimerInt \/ AsleepStay) /\ ReadsReturn
  <1>1. \A request \in {"KILL", "WAIT"} : ~Issues(request)
    BY DEF Issues, NoSignalsNoWaits
  <1>2. CASE IInv' /\ Aside(Kernel)' = Aside(Kernel)
    BY <1>2 DEF AsleepStay, ReadsReturn
  <1>3. CASE CreateRequest \/ YieldRequest \/ StopRequest \/ GetPidRequest
    BY <1>2, <1>3, CreateStep, YieldStep, StopStep, GetPidStep
  <1>4. CASE TimerInt
    BY <1>4, TimerStep DEF ReadsReturn
  <1>5. CASE \E target \in Named(Kill), sig \in KillSignals : KillRequest(target, sig)
    BY <1>1, <1>5 DEF KillRequest
  <1>6. CASE \E dest \in Named(SendTo), buffer \in Buffers : SendRequest(dest, buffer)
    BY <1>2, <1>6, SendStep
  <1>7. CASE \E from \in Named(ReceiveFrom), buffer \in Buffers : RecvRequest(from, buffer)
    BY <1>2, <1>7, RecvStep
  <1>8. CASE \E milliseconds \in Named(Durations) : SleepRequest(milliseconds)
    BY <1>8, SleepStep DEF AsleepStay, ReadsReturn
  <1>9. CASE \E sig \in KillSignals, newHandler \in {NULL, "handler"},
                oldHandler \in {"in memory", "in the hole", "beyond maxaddr"} :
                    SigHandleRequest(sig, newHandler, oldHandler)
    BY <1>2, <1>9, SigHandleStep
  <1>10. CASE \E target \in Named(WaitOn) : WaitRequest(target)
    BY <1>1, <1>10 DEF WaitRequest
  <1>11. CASE \E dev \in Devices : OpenRequest(dev)
    BY <1>2, <1>11, OpenStep
  <1>12. CASE \E fd \in Descriptors : CloseRequest(fd)
    BY <1>2, <1>12, CloseStep
  <1>13. CASE \E fd \in Descriptors, buffer \in Buffers : WriteRequest(fd, buffer)
    BY <1>2, <1>13, WriteStep
  <1>14. CASE \E fd \in Descriptors, buffer \in Buffers, n \in ReadLengths : ReadRequest(fd, buffer, n)
    BY <1>14, ReadStep DEF AsleepStay, ReadsReturn
  <1>15. CASE \E fd \in Descriptors, command \in Commands : IoctlRequest(fd, command)
    BY <1>2, <1>15, IoctlStep
  <1>16. CASE \E key \in Keys : KbdInt(key)
    BY <1>16, KbdStep DEF AsleepStay, ReadsReturn
  <1>17. CASE UNCHANGED vars
    <2>1. Kernel' = Kernel /\ process' = process /\ state' = state
      BY <1>17 DEF vars, Kernel
    <2>2. IInv' /\ Aside(Kernel)' = Aside(Kernel)
      BY <2>1 DEF IInv, Running
    <2> QED
      BY <1>2, <2>2
  <1> QED
    BY <1>3, <1>4, <1>5, <1>6, <1>7, <1>8, <1>9, <1>10, <1>11, <1>12, <1>13, <1>14, <1>15,
       <1>16, <1>17 DEF Next

(* The invariant of the kernel holds in every reachable state: every       *)
(* living process runs, is ready, is queued with a living process it sends *)
(* to, receives, waits for characters or sleeps, and is in no other place; *)
(* for every number of processes and every workload described above.       *)
THEOREM AllSound ==
    ASSUME NoSignalsNoWaits
    PROVE  Spec => []IInv
  <1>1. Init => IInv
    BY InitSound
  <1>2. IInv /\ [Next]_vars => IInv'
    BY StepSound
  <1> QED
    BY <1>1, <1>2, PTL DEF Spec

-----------------------------------------------------------------------------
(* What the invariant says of the properties of the runs.  The processes   *)
(* that are in no list of `next': the running one, readers and sleepers.   *)
Unlisted == Running \cup Away(Aside(Kernel))

(* The parts of the invariant, in the names of the variables.              *)
LEMMA KernelsParts ==
    ASSUME IInv
    PROVE  /\ Lists(Kernel) /\ Placed(Kernel, Unlisted) /\ Console(Kernel) /\ Nap(Kernel)
           /\ Kernel.process = process /\ Kernel.state = state /\ Kernel.kbd = kbd /\ Kernel.fdTab = fdTab
           /\ Kernel.pid = pid /\ Kernel.targetOfRecv = targetOfRecv
           /\ process \in Slot
           /\ On(Kernel, Idle) = Queued
           /\ \A r \in Proc : On(Kernel, r) = SendersTo(r)
           /\ \A a \in Slot : On(Kernel, a) \subseteq Proc
           /\ \A p : Live(p) = Alive(Kernel, p)
           /\ \A p \in Running : p = process /\ state[p] = "RUNNING" /\ p \in Proc
           /\ Aside(Kernel).reading = Readers /\ Aside(Kernel).asleep = Asleep
           /\ Unlisted = Running \cup Readers \cup Asleep /\ Running \cap Asleep = {}
           /\ Asleep \subseteq Proc /\ \A p \in Asleep : state[p] = "SLEEPING"
           /\ \A p \in Readers : kbd.p = p /\ kbd.irq /\ Len(kbd.chars) < kbd.buflen
  <1>1. Sound(Kernel, Running, Aside(Kernel))
    BY DEF IInv
  <1>2. /\ Lists(Kernel) /\ Placed(Kernel, Unlisted) /\ Console(Kernel) /\ Nap(Kernel)
        /\ Kernel.process \in Slot /\ Running \cap Away(Aside(Kernel)) = {}
    BY <1>1 DEF Sound, Settled, Typed, Unlisted
  <1>3. /\ Kernel.process = process /\ Kernel.state = state /\ Kernel.kbd = kbd /\ Kernel.fdTab = fdTab
        /\ Kernel.pid = pid /\ Kernel.targetOfRecv = targetOfRecv
    BY DEF Kernel
  <1>4. /\ Heads(Kernel)[Idle] = Kernel.readyQueue
        /\ \A r \in Proc : Heads(Kernel)[r] = Kernel.senderQueue[r]
        /\ \A a \in Slot : On(Kernel, a) \subseteq Proc
    BY <1>2, KernelFacts
  <1>5. \A p \in Running : p = process /\ state[p] = "RUNNING" /\ p \in Proc
    BY <1>2, <1>3, SlotFacts DEF IInv, Running
  <1>6. On(Kernel, Idle) = Queued
    BY <1>4 DEF On, Chain, Queued, OnReadyQueue
  <1>7. \A r \in Proc : On(Kernel, r) = SendersTo(r)
    BY <1>4 DEF On, Chain, SendersTo, Senders
  <1>8. Aside(Kernel).reading = Readers /\ Aside(Kernel).asleep = Asleep
    BY ReadersAre DEF Aside, Asleep
  <1>9. Away(Aside(Kernel)) = Readers \cup Asleep
    BY <1>8 DEF Away
  <1>10. Unlisted = Running \cup Readers \cup Asleep /\ Running \cap Asleep = {}
    BY <1>2, <1>9 DEF Unlisted
  <1>11. Asleep \subseteq Proc /\ \A p \in Asleep : state[p] = "SLEEPING"
    BY <1>2, <1>3, NapFacts DEF Asleep, Nap
  <1>12. \A p \in Readers : kbd.p = p /\ kbd.irq /\ Len(kbd.chars) < kbd.buflen
    BY <1>2, <1>3, ReadersAre DEF Console, Readers
  <1> QED
    BY <1>2, <1>3, <1>4, <1>5, <1>6, <1>7, <1>8, <1>10, <1>11, <1>12 DEF Live

(* A living process is the running one, receives, is ready, is a sender,   *)
(* waits for characters or sleeps.                                         *)
LEMMA WhereItIs ==
    ASSUME IInv, NEW p \in Proc, Live(p)
    PROVE  \/ p = process /\ state[p] = "RUNNING"
           \/ Receiving(p) /\ state[p] = "BLOCKED"
                /\ (targetOfRecv[p] = ReceiveAny \/ Live(targetOfRecv[p]))
           \/ p \in Queued /\ state[p] = "READY"
           \/ state[p] = "BLOCKED" /\ \E r \in Proc : Live(r) /\ p \in SendersTo(r)
           \/ state[p] = "RUNNING" /\ kbd.p = p /\ kbd.irq /\ Len(kbd.chars) < kbd.buflen
           \/ p \in Asleep /\ state[p] = "SLEEPING"
  <1>1. Everybody(Kernel, Unlisted) /\ ReadyOnes(Kernel) /\ SendingOnes(Kernel)
        /\ ReceivingOnes(Kernel, Unlisted)
    BY KernelsParts DEF Placed
  <1>2. \/ p \in Running \/ p \in Readers \/ p \in Asleep
        \/ targetOfRecv[p] # p
        \/ p \in On(Kernel, Idle)
        \/ \E r \in Proc : p \in On(Kernel, r)
    BY <1>1, KernelsParts, SlotFacts DEF Everybody
  <1>3. CASE p \in Running
    BY <1>3, KernelsParts
  <1>4. CASE targetOfRecv[p] # p
    BY <1>1, <1>4, KernelsParts DEF ReceivingOnes, Receiving
  <1>5. CASE p \in On(Kernel, Idle)
    BY <1>1, <1>5, KernelsParts DEF ReadyOnes
  <1>6. CASE \E r \in Proc : p \in On(Kernel, r)
    BY <1>1, <1>6, KernelsParts DEF SendingOnes
  <1>7. CASE p \in Readers
    <2>1. state[p] = "RUNNING"
      BY <1>7 DEF Readers
    <2> QED
      BY <1>7, <2>1, KernelsParts
  <1>8. CASE p \in Asleep
    BY <1>8, KernelsParts
  <1> QED
    BY <1>2, <1>3, <1>4, <1>5, <1>6, <1>7, <1>8

(* The invariant gives every field its type.                               *)
LEMMA TypesSound ==
    ASSUME IInv
    PROVE  TypeOK
  <1>1. Lists(Kernel) /\ Typed(Kernel) /\ Quiet(Kernel) /\ Pids(Kernel) /\ Console(Kernel) /\ Nap(Kernel)
    BY DEF IInv, Sound, Settled
  <1>2. /\ readyQueue \in Proc \cup {NULL} /\ next \in Links /\ prev \in Links /\ senderQueue \in Links
    BY <1>1 DEF Lists, ListsApart, Kernel
  <1>3. /\ waitingNext \in Links
        /\ sigMaskOnStack \in [Slot -> SUBSET Signals]
        /\ fault = "none"
    BY <1>1 DEF Quiet, Kernel, Links
  <1>4. lastPID \in 2..(MaxPid + 1) /\ pid \in [Slot -> Slot \cup {EMPTY, TOMBSTONE}]
    BY <1>1 DEF Pids, InOrder, Kernel
  <1>5. /\ process \in Slot
        /\ state \in [Slot -> ProcState]
        /\ targetOfRecv \in [Slot -> Slot \cup {EMPTY, TOMBSTONE}]
        /\ ipcArgs \in [Slot -> Buffers \cup {NULL}]
        /\ waitingFor \in [Slot -> Slot]
        /\ sleepNext \in Links /\ sleepPrev \in Links
        /\ sleepTime \in [Slot -> Int]
        /\ sigMaskInstalled \in [Slot -> SUBSET Signals]
        /\ sigMaskQueued \in [Slot -> SUBSET Signals]
        /\ fdTab \in [Slot -> [DOMAIN NoDescriptors -> 0..(DTAB_SIZE - 1) \cup {NULL}]]
        /\ eax \in [Slot -> Int]
    BY <1>1 DEF Typed, Kernel
  <1>6. \A f \in {next, prev, senderQueue, waitingNext, sleepNext, sleepPrev} :
            f \in [Slot -> Proc \cup {NULL}]
    BY <1>2, <1>3, <1>5 DEF Links
  <1>7. \A f \in {sigMaskInstalled, sigMaskOnStack, sigMaskQueued} : f \in [Slot -> SUBSET Signals]
    BY <1>3, <1>5
  <1>8. kbd.state \subseteq NotOpen /\ kbd.p \in Proc \cup {NULL}
    <2>1. kbd \in KbdType
      BY <1>1 DEF Console, Kernel
    <2> QED
      BY <2>1 DEF KbdType
  <1>9. fault \in {"none", "wild", "hung"} /\ sleepList \in Proc \cup {NULL}
    BY <1>1, <1>3 DEF Nap, Kernel
  <1> QED
    BY <1>2, <1>4, <1>5, <1>6, <1>7, <1>8, <1>9 DEF TypeOK

(* No list has a member in common with another, and the running process is *)
(* in none.                                                                *)
LEMMA PlacesApart ==
    ASSUME IInv
    PROVE  OneListEach
  <1> SUFFICES ASSUME NEW a \in Places, NEW b \in Places, a # b,
                      NEW q \in Occupants(a), q \in Occupants(b)
               PROVE  FALSE
    BY DEF OneListEach
  <1>1. Quiet(Kernel) /\ Lists(Kernel) /\ OutOnes(Kernel, Unlisted)
    BY KernelsParts DEF Placed, IInv, Sound, Settled
  <1>2. \A t \in Slot : WaitersOf(t) = {}
    BY <1>1, ReachNull DEF Quiet, Kernel, WaitersOf
  <1>3. \A t \in LiveProc : t \in Proc /\ t \in Slot /\ t # Idle
    BY SlotFacts DEF LiveProc
  <1> DEFINE ListOf(x) == IF x = Idle THEN <<"ready", Idle>> ELSE <<"senders", x>>
  <1>4. \A place \in Places : q \in Occupants(place) =>
            \/ place = <<"running", Idle>> /\ q = process
            \/ place = <<"asleep", Idle>> /\ q \in Asleep
            \/ \E x \in Slot : place = ListOf(x) /\ q \in On(Kernel, x)
    <2> SUFFICES ASSUME NEW place \in Places, q \in Occupants(place)
                 PROVE  \/ place = <<"running", Idle>> /\ q = process
                        \/ place = <<"asleep", Idle>> /\ q \in Asleep
                        \/ \E x \in Slot : place = ListOf(x) /\ q \in On(Kernel, x)
      OBVIOUS
    <2>1. CASE place = <<"running", Idle>>
      BY <2>1 DEF Occupants
    <2>2. CASE place = <<"ready", Idle>>
      BY <2>2, KernelsParts, SlotFacts DEF Occupants
    <2>3. CASE place = <<"asleep", Idle>>
      BY <2>3 DEF Occupants
    <2>4. CASE place \in {"senders"} \X LiveProc
      <3>1. PICK r \in LiveProc : place = <<"senders", r>>
        BY <2>4
      <3>2. q \in SendersTo(r)
        BY <3>1 DEF Occupants
      <3> QED
        BY <1>3, <3>1, <3>2, KernelsParts
    <2>5. CASE place \in {"waiters"} \X {t \in LiveProc : state[t] # "WAITING"}
      <3>1. PICK t \in LiveProc : place = <<"waiters", t>>
        BY <2>5
      <3>2. q \in WaitersOf(t)
        BY <3>1 DEF Occupants
      <3> QED
        BY <1>2, <1>3, <3>2
    <2> QED
      BY <2>1, <2>2, <2>3, <2>4, <2>5 DEF Places
  <1>5. \A x, y \in Slot : x # y => On(Kernel, x) \cap On(Kernel, y) = {}
    BY <1>1, ChainsDisjoint DEF Lists, On
  <1>6. \A x \in Slot : process \notin On(Kernel, x) /\ Asleep \cap On(Kernel, x) = {}
    <2>1. \A p \in Unlisted : \A x \in Slot : p \notin On(Kernel, x)
      BY <1>1 DEF OutOnes, Nowhere, Outside, On
    <2>2. process \in Unlisted \/ process = Idle
      BY KernelsParts DEF Running
    <2>3. \A x \in Slot : Idle \notin On(Kernel, x)
      BY KernelsParts, SlotFacts
    <2> QED
      BY <2>1, <2>2, <2>3, KernelsParts
  <1>7. process \notin Asleep
    BY KernelsParts, SlotFacts DEF Running
  <1>8. \/ \E x, y \in Slot : x # y /\ q \in On(Kernel, x) /\ q \in On(Kernel, y)
        \/ \E x \in Slot : q \in On(Kernel, x) /\ (q = process \/ q \in Asleep)
        \/ q = process /\ q \in Asleep
    <2>1. q \in Occupants(a) /\ q \in Occupants(b) /\ a # b
      OBVIOUS
    <2> HIDE DEF ListOf
    <2> QED
      BY <1>4, <2>1
  <1> QED
    BY <1>5, <1>6, <1>7, <1>8

-----------------------------------------------------------------------------
(* Every field of the kernel keeps its type.                               *)
THEOREM Types ==
    ASSUME NoSignalsNoWaits
    PROVE  Spec => []TypeOK
  BY AllSound, TypesSound, PTL

(* No process that may run is cut off the ready queue, whatever order the  *)
(* requests and interrupts come in and whoever is made ready inside        *)
(* another's clean-up, by the timer or by a key.                           *)
THEOREM NoReadyProcessIsLost ==
    ASSUME NoSignalsNoWaits
    PROVE  Spec => []ReadyNotLost
  <1>1. IInv => ReadyNotLost
    BY WhereItIs DEF ReadyNotLost
  <1> QED
    BY <1>1, AllSound, PTL

(* A process that blocks in send or recv is where its peer, or the         *)
(* clean-up of its peer, looks for it, for as long as it is blocked.       *)
THEOREM NoBlockedProcessIsLost ==
    ASSUME NoSignalsNoWaits
    PROVE  Spec => []BlockedNotLost
  <1>1. IInv => BlockedNotLost
    BY WhereItIs DEF BlockedNotLost
  <1> QED
    BY <1>1, AllSound, PTL

(* A process that sleeps is on the sleep list until tick() takes it off.   *)
THEOREM NoSleeperIsLost ==
    ASSUME NoSignalsNoWaits
    PROVE  Spec => []SleeperNotLost
  <1>1. IInv => SleeperNotLost
    BY WhereItIs DEF SleeperNotLost
  <1> QED
    BY <1>1, AllSound, PTL

(* A process that waits for characters is the one the next key goes to,    *)
(* with room in its buffer and the keyboard interrupt enabled.             *)
THEOREM NoReaderIsLost ==
    ASSUME NoSignalsNoWaits
    PROVE  Spec => []ReaderNotLost
  <1>1. IInv => ReaderNotLost
    BY WhereItIs DEF ReaderNotLost
  <1> QED
    BY <1>1, AllSound, PTL

(* A process that stopped is never run or made ready again: its clean-up   *)
(* leaves nobody behind that still has it in a list or names it.           *)
THEOREM TheDeadStayDead ==
    ASSUME NoSignalsNoWaits
    PROVE  Spec => []DeadStayDead
  <1>1. IInv => DeadStayDead
    <2> SUFFICES ASSUME IInv
                 PROVE  DeadStayDead
      OBVIOUS
    <2>1. ReadyOnes(Kernel) /\ OutOnes(Kernel, Unlisted)
      BY KernelsParts DEF Placed
    <2> QED
      BY <2>1, KernelsParts DEF ReadyOnes, OutOnes, DeadStayDead, Running
  <1> QED
    BY <1>1, AllSound, PTL

(* Whomever send() or recv() (c/msg.c) finds on a sender queue or          *)
(* receiving is still blocked in the call that put it there, with its      *)
(* argument list: no message goes through a list that was not kept, and no *)
(* process is made ready a second time by a rendezvous.  Pid 0, to which a *)
(* send finds a process that is not receiving, is what the workload leaves *)
(* out.                                                                    *)
THEOREM PartnersStayBlocked ==
    ASSUME NoSignalsNoWaits
    PROVE  Spec => []PartnersAreBlocked
  <1>1. IInv => PartnersAreBlocked
    <2> SUFFICES ASSUME IInv
                 PROVE  PartnersAreBlocked
      OBVIOUS
    <2>1. SendingOnes(Kernel) /\ ReceivingOnes(Kernel, Unlisted)
      BY KernelsParts DEF Placed
    <2>2. ASSUME NEW r \in LiveProc, NEW p \in SendersTo(r)
          PROVE  Live(p) /\ state[p] = "BLOCKED" /\ Kernel.ipcArgs[p] # NULL
      BY <2>1, <2>2, KernelsParts DEF SendingOnes, LiveProc
    <2>3. ASSUME NEW p \in LiveProc, Receiving(p)
          PROVE  Live(p) /\ state[p] = "BLOCKED" /\ Kernel.ipcArgs[p] # NULL
      BY <2>1, <2>3, KernelsParts DEF ReceivingOnes, LiveProc, Receiving
    <2>4. Kernel.ipcArgs = ipcArgs
      BY DEF Kernel
    <2> QED
      BY <2>2, <2>3, <2>4 DEF PartnersAreBlocked
  <1> QED
    BY <1>1, AllSound, PTL

(* No process is in two lists, or runs while it is in one.                 *)
THEOREM OnePlaceEach ==
    ASSUME NoSignalsNoWaits
    PROVE  Spec => []OneListEach
  BY AllSound, PlacesApart, PTL

(* A sender and a receiver that match are never blocked on each other.     *)
THEOREM NoRendezvousIsMissed ==
    ASSUME NoSignalsNoWaits
    PROVE  Spec => []NoMissedRendezvous
  <1>1. IInv => NoMissedRendezvous
    <2> SUFFICES ASSUME IInv, NEW r \in Proc, NEW s \in SendersTo(r), Receiving(r)
                 PROVE  targetOfRecv[r] \notin {s, ReceiveAny}
      BY DEF NoMissedRendezvous
    <2>1. SendingOnes(Kernel)
      BY KernelsParts DEF Placed
    <2> QED
      BY <2>1, KernelsParts DEF SendingOnes
  <1> QED
    BY <1>1, AllSound, PTL

-----------------------------------------------------------------------------
(* The descriptor of an open keyboard belongs to one process.  A process   *)
(* that stops keeps the keyboard open: no process may.                     *)
LEMMA OwnerCounted ==
    ASSUME IInv, "STOP" \notin Requests
    PROVE  KeyboardOwned
  <1> DEFINE owners == {o \in LiveProc \X DOMAIN NoDescriptors : fdTab[o[1]][o[2]] # NULL}
  <1>1. /\ Console(Kernel) /\ Kernel.kbd = kbd /\ Kernel.fdTab = fdTab
        /\ \A p : Live(p) = Alive(Kernel, p)
    BY KernelsParts
  <1>2. \A p, fd : Owns(Kernel, p, fd) <=> <<p, fd>> \in owners
    BY <1>1 DEF Owns, LiveProc
  <1>3. \A o \in owners : \E p, fd : o = <<p, fd>>
    OBVIOUS
  <1> HIDE DEF owners
  <1>4. CASE kbd.state = NotOpen
    <2>1. owners = {}
      BY <1>1, <1>2, <1>3, <1>4 DEF Console
    <2>2. Cardinality(owners) = 0
      BY <2>1, FS_EmptySet
    <2> QED
      BY <1>4, <2>2 DEF KeyboardOwned, owners
  <1>5. CASE kbd.state # NotOpen
    <2>1. PICK p, fd : Owns(Kernel, p, fd)
      BY <1>1, <1>5 DEF Console
    <2>2. PICK o : o = <<p, fd>>
      OBVIOUS
    <2>3. owners = {o}
      <3>1. \A q, gd : Owns(Kernel, q, gd) => q = p /\ gd = fd
        BY <1>1, <2>1 DEF Console, OneOwner
      <3> QED
        BY <1>2, <1>3, <2>1, <2>2, <3>1
    <2>4. Cardinality(owners) = 1
      BY <2>3, FS_Singleton
    <2> QED
      BY <1>5, <2>4 DEF KeyboardOwned, owners
  <1> QED
    BY <1>4, <1>5

(* While processes open and close the keyboard, and none of them stops, it *)
(* is open exactly if one process has one descriptor for it.               *)
THEOREM TheKeyboardHasOneOwner ==
    ASSUME NoSignalsNoWaits, "STOP" \notin Requests
    PROVE  Spec => []KeyboardOwned
  BY AllSound, OwnerCounted, PTL

(* Those on the sleep list sleep.                                          *)
LEMMA SleepersSleep ==
    ASSUME NEW k, NEW out, NEW aside, Sound(k, out, aside)
    PROVE  \A q \in aside.asleep : k.state[q] = "SLEEPING"
  BY AsideIs DEF Sound, Nap

(* A sleeper is woken by the timer interrupt and by nothing else.          *)
THEOREM OnlyTimeWakes ==
    ASSUME NoSignalsNoWaits
    PROVE  Spec => WokenByTime
  <1>1. IInv /\ [Next]_vars =>
          \A p \in Proc : Live(p) /\ state[p] = "SLEEPING" /\ state'[p] # "SLEEPING" =>
            TimerInt \/ SysStop \in sigMaskOnStack'[p]
    <2> SUFFICES ASSUME IInv, [Next]_vars, NEW p \in Proc, Live(p), state[p] = "SLEEPING",
                        state'[p] # "SLEEPING"
                 PROVE  TimerInt
      OBVIOUS
    <2>1. IInv' /\ (TimerInt \/ AsleepStay)
      BY StepSound
    <2>2. p \in Aside(Kernel).asleep
      BY WhereItIs, KernelsParts
    <2>3. \A q \in Aside(Kernel)'.asleep : state'[q] = "SLEEPING"
      <3>1. PICK k, all : k = Kernel' /\ all = Running'
        OBVIOUS
      <3>2. Sound(k, all, Aside(k)) /\ k.state = state' /\ Aside(k) = Aside(Kernel)'
        BY <2>1, <3>1 DEF IInv, Kernel
      <3> QED
        BY <3>2, SleepersSleep
    <2> QED
      BY <2>1, <2>2, <2>3 DEF AsleepStay
  <1> QED
    BY <1>1, AllSound, PTL DEF Spec, WokenByTime

(* A read that waited returns as many characters as its buffer holds, or   *)
(* none at the end of the input.                                           *)
THEOREM ReadsCount ==
    ASSUME NoSignalsNoWaits
    PROVE  Spec => WaitedReadCounts
  <1>1. IInv /\ [Next]_vars =>
          \A p \in Proc : p \in Readers \ Readers' =>
            eax'[p] = IF "DISABLE" \in kbd'.state THEN 0 ELSE Len(kbd'.chars)
    <2> SUFFICES ASSUME IInv, [Next]_vars, NEW p \in Readers \ Readers'
                 PROVE  eax'[p] = IF "DISABLE" \in kbd'.state THEN 0 ELSE Len(kbd'.chars)
      OBVIOUS
    <2>1. ReadsReturn
      BY StepSound
    <2>2. Aside(Kernel).reading = Readers /\ Aside(Kernel)'.reading = Readers'
      BY ReadersAre
    <2> QED
      BY <2>1, <2>2 DEF ReadsReturn
  <1> QED
    BY <1>1, AllSound, PTL DEF Spec, WaitedReadCounts
=============================================================================

----------------------------- MODULE Lifecycle -----------------------------
(***************************************************************************)
(* The life of a process: creation (c/create.c), waiting for another       *)
(* process and clean-up (c/disp.c, c/msgQueues.c, c/pcb.c), and signals    *)
(* (c/signal.c), as operators on the kernel record.  Further fields:       *)
(*    lastPID          the next pid to hand out                            *)
(*    waitingFor       per PCB: the pid it waits for                       *)
(*    waitingNext      per PCB: the next process waiting.  It is both the  *)
(*                     head of the list of those who wait for this process *)
(*                     and the link of the list this process waits in      *)
(*    sigMaskInstalled, sigMaskOnStack, sigMaskQueued                      *)
(*                     per PCB: the sets of signals the masks stand for    *)
(***************************************************************************)
EXTENDS Messages, SleepList, Keyboard

SysStop == 31       \* the signal whose handler is sysstop
Signals == 0..31

Alive(k, p) == k.pid[p] = p

-----------------------------------------------------------------------------
(* Faulty variants, one slip each, that the properties must tell apart.    *)

\* receivers keep waiting for the process that died
CleanUpRecversNone(k, p) == k

\* only the first waiter is woken
CleanUpWaitersFirst(k, p) ==
    LET c == k.waitingNext[p]
    IN  IF c = NULL THEN k
        ELSE Ready([k EXCEPT !.waitingFor[c] = 0, !.waitingNext[c] = NULL], c)

\* a waiter that is woken keeps its link
ReadyWaiterKeepingLink(k, c) == Ready([k EXCEPT !.waitingFor[c] = 0], c)

\* everybody who waits is woken, whomever they wait for
CleanUpWaitersAll(k, p) ==
    LET upTo[c \in Slot] ==
            IF c = 0 THEN k
            ELSE IF k.state[c] # "WAITING" THEN upTo[c - 1]
            ELSE Ready([upTo[c - 1] EXCEPT !.waitingFor[c] = 0, !.waitingNext[c] = NULL], c)
    IN  upTo[MaxPid]

\* a signalled sleeper stays on the sleep list
SignalKeepingSleeper(k, p, sig) ==
    IF sig \notin k.sigMaskInstalled[p] \/ sig \in k.sigMaskOnStack[p]
    THEN k
    ELSE Ready([k EXCEPT !.sigMaskOnStack[p] = @ \cup {sig}], p)

-----------------------------------------------------------------------------
(* create: the next slot gets the next pid, empty queues and only the      *)
(* stop signal installed, and the process becomes ready.  The sequence of  *)
(* pids and slots holds while fewer than 31 processes were ever created;   *)
(* the allocation of the stack succeeds.                                   *)
Create(k) ==
    LET p == k.lastPID
        Set(f, v) == [f EXCEPT ![p] = v]
    IN  Ready([k EXCEPT !.pid = Set(@, p),
                        !.lastPID = p + 1,
                        !.next = Set(@, NULL),
                        !.sleepNext = Set(@, NULL),
                        !.sleepPrev = Set(@, NULL),
                        !.sleepTime = Set(@, 0),
                        !.waitingFor = Set(@, 0),
                        !.waitingNext = Set(@, NULL),
                        !.ipcArgs = Set(@, NULL),
                        !.targetOfRecv = Set(@, p),
                        !.senderQueue = Set(@, NULL),
                        !.sigMaskInstalled = Set(@, {SysStop}),
                        !.sigMaskOnStack = Set(@, {}),
                        !.sigMaskQueued = Set(@, {}),
                        !.fdTab = Set(@, NoDescriptors)], p)

(* The WAIT request up to the call of next().  The walk along waitingNext  *)
(* starts at the process waited for and never ends on a cyclic chain.      *)
WaitFor(k, p, target) ==
    LET k1 == [k EXCEPT !.waitingFor[p] = target]
    IN  CASE target < 1 \/ target = k.pid[p] -> [k EXCEPT !.eax[p] = -1]
          [] target >= 1 /\ target # k.pid[p] /\ GetPcb(k, target) = NULL ->
               [k1 EXCEPT !.eax[p] = -1]
          [] OTHER ->
               IF ~Ends(k.waitingNext, target)
               THEN [k1 EXCEPT !.fault = "hung"]
               ELSE NextProcess([k1 EXCEPT !.waitingNext[TailOf(k.waitingNext, target)] = p,
                                           !.state[p] = "WAITING",
                                           !.eax[p] = 0])

-----------------------------------------------------------------------------
(* The loops of the clean-up walk along a list from a head and read the    *)
(* link of a process before they make it ready.  Such a loop is a function *)
(* of its turns with the kernel k and the place c it has come to.  A turn  *)
(* clears the link it followed, so that there are no more turns than       *)
(* links, and one.                                                         *)
Turns == 0..(MaxPid + 1)

(* cleanUpWaiters: everybody found along the waitingNext chain is ready.   *)
ReadyWaiter(k, c) == Ready([k EXCEPT !.waitingFor[c] = 0, !.waitingNext[c] = NULL], c)

CleanUpWaiters(k, p) ==
    LET turn[n \in Turns] ==
            IF n = 0 THEN [k |-> k, c |-> k.waitingNext[p]]
            ELSE LET t == turn[n - 1]
                 IN  IF t.c = NULL THEN t
                     ELSE [k |-> ReadyWaiter(t.k, t.c), c |-> t.k.waitingNext[t.c]]
    IN  turn[MaxPid + 1].k

(* cleanUpSenders: every process blocked sending to p fails with -1.       *)
FailSender(k, p, s) == Ready([RmBlockedSender(k, p, s) EXCEPT !.eax[s] = -1], s)

CleanUpSenders(k, p) ==
    LET turn[n \in Turns] ==
            IF n = 0 THEN [k |-> k, c |-> k.senderQueue[p]]
            ELSE LET t == turn[n - 1]
                 IN  IF t.c = NULL THEN t
                     ELSE [k |-> FailSender(t.k, p, t.c), c |-> t.k.next[t.c]]
    IN  turn[MaxPid + 1].k

(* cleanUpRecvers: every slot whose target_of_recv is p fails with -1.     *)
(* getAllRecvers reads the whole table first; a slot of a dead process is  *)
(* collected like any other, and its pid field is looked up by getPcb.     *)
FailRecver(k, x) ==
    LET r == GetPcb(k, k.pid[x])
    IN  IF r = NULL THEN k ELSE Ready([RmBlockedRecver(k, r) EXCEPT !.eax[r] = -1], r)

CleanUpRecvers(k, p) ==
    LET recvers == {x \in Slot : k.targetOfRecv[x] = k.pid[p] /\ k.pid[x] # k.pid[p]}
        upTo[x \in -1..MaxPid] ==
            IF x = -1 THEN k
            ELSE IF x \in recvers THEN FailRecver(upTo[x - 1], x)
            ELSE upTo[x - 1]
    IN  upTo[MaxPid]

(* cleanup, called for the running process only: the process it waits for  *)
(* or sleeps behind is never an issue, but a signal to itself may have     *)
(* queued it.  removeProcess clears nothing but the pid.                   *)
Cleanup(k, p) ==
    LET k1 == CleanUpRecvers(CleanUpSenders(CleanUpWaiters(k, p), p), p)
        k2 == IF k1.state[p] = "SLEEPING" THEN RemoveFromSleepList(k1, p)
              ELSE ReadyRemoval(k1, p)
    IN  [k2 EXCEPT !.pid[p] = TOMBSTONE]

-----------------------------------------------------------------------------
(* signal: deliver sig to p, whatever p is doing.                          *)
Signal(k, p, sig) ==
    LET k1 == [k EXCEPT !.sigMaskOnStack[p] = @ \cup {sig}]
    IN  IF sig \notin k.sigMaskInstalled[p]
        THEN k
        ELSE IF \E higher \in k.sigMaskOnStack[p] : higher > sig
        THEN [k EXCEPT !.sigMaskQueued[p] = @ \cup {sig}]
        ELSE IF sig \in k.sigMaskOnStack[p]
        THEN k
        ELSE CASE k.state[p] \in {"READY", "RUNNING"} -> Ready(k1, p)
               [] k.state[p] = "WAITING" -> Ready([k1 EXCEPT !.eax[p] = -99], p)
               [] k.state[p] = "SLEEPING" -> Ready(RemoveFromSleepList(k1, p), p)
               [] k.state[p] = "BLOCKED" ->
                    Ready([CleanUpRecvers(CleanUpSenders(k1, p), p) EXCEPT !.eax[p] = -99], p)
               [] OTHER -> k1

(* handleRegister: the check of the addresses refuses every new handler    *)
(* that is not null, and an oldHandler in the hole or behind the end of    *)
(* memory; a null handler removes the one installed.                       *)
HandleRegister(k, p, sig, newHandler, oldHandler) ==
    IF sig \notin 0..30
    THEN [k EXCEPT !.eax[p] = -1]
    ELSE IF newHandler # NULL \/ oldHandler \in {"in the hole", "beyond maxaddr"}
    THEN [k EXCEPT !.eax[p] = -2]
    ELSE [k EXCEPT !.sigMaskInstalled[p] = @ \ {sig}, !.eax[p] = 0]
=============================================================================

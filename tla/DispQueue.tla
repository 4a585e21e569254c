----------------------------- MODULE DispQueue -----------------------------
(***************************************************************************)
(* The ready queue of the dispatcher (c/disp.c): a doubly linked list of   *)
(* process control blocks, threaded through the fields `next' and `prev'   *)
(* and reached from the static pointer `readyQueue'.                       *)
(*                                                                         *)
(* The operators take a kernel record k and return the record the C        *)
(* function leaves behind.  They use its fields                            *)
(*    readyQueue, process   the two static pointers of disp.c              *)
(*    next, prev, state     the fields of every PCB, a function of slots   *)
(* and keep every other field, so that a larger kernel can reuse them.     *)
(***************************************************************************)
EXTENDS Integers

CONSTANTS
    MaxPid,     \* how many processes are ever created besides the idle one
    NULL        \* the null pointer

(* getFreePCBIndex hands out process identifiers in order and places pid p *)
(* in slot p as long as fewer than PCBTABLE_SIZE - 1 = 31 were created, so *)
(* below that bound a slot, a pid and a PCB pointer are one number.        *)
ASSUME MaxPidAssumption == MaxPid \in 1..30

Idle == 0
Slot == 0..MaxPid
Proc == 1..MaxPid

ASSUME NullAssumption == NULL \notin Slot

ProcState == {"STOPPED", "READY", "RUNNING", "BLOCKED", "SLEEPING", "WAITING"}

-----------------------------------------------------------------------------
(* Walking a list: the slots met from h by following link, and the slot    *)
(* where the walk stops.  Reach is the least set that holds h and is       *)
(* closed under link; a walk that never meets a null link has no end.      *)

Closed(S, link) == \A x \in S : link[x] \in S \cup {NULL}

Reach(link, h) ==
    IF h = NULL
    THEN {}
    ELSE {x \in Slot : \A S \in SUBSET Slot : (h \in S /\ Closed(S, link)) => x \in S}

Ends(link, h) == \E t \in Reach(link, h) : link[t] = NULL

TailOf(link, h) == CHOOSE t \in Reach(link, h) : link[t] = NULL

OnReadyQueue(k) == Reach(k.next, k.readyQueue)

-----------------------------------------------------------------------------
(* Faulty variants, one slip each, that the properties must tell apart.    *)

\* the process is put at the head of the queue
ReadyAtHead(k, p) ==
    IF p = Idle THEN k
    ELSE IF k.readyQueue = NULL
    THEN [k EXCEPT !.readyQueue = p, !.prev[p] = NULL, !.next[p] = NULL, !.state[p] = "READY"]
    ELSE [k EXCEPT !.readyQueue = p,
                   !.next[p] = k.readyQueue,
                   !.prev = [@ EXCEPT ![k.readyQueue] = p, ![p] = NULL],
                   !.state[p] = "READY"]

\* the walk to the last process is left out
ReadyBehindHead(k, p) ==
    IF p = Idle THEN k
    ELSE IF k.readyQueue = NULL
    THEN [k EXCEPT !.readyQueue = p, !.prev[p] = NULL, !.next[p] = NULL, !.state[p] = "READY"]
    ELSE [k EXCEPT !.next = [@ EXCEPT ![k.readyQueue] = p, ![p] = NULL],
                   !.prev[p] = k.readyQueue, !.state[p] = "READY"]

\* the process is linked but still carries the state it was suspended in
ReadyKeepingState(k, p) ==
    IF p = Idle THEN k
    ELSE IF k.readyQueue = NULL
    THEN [k EXCEPT !.readyQueue = p, !.prev[p] = NULL, !.next[p] = NULL]
    ELSE LET t == TailOf(k.next, k.readyQueue)
         IN  [k EXCEPT !.next = [@ EXCEPT ![t] = p, ![p] = NULL], !.prev[p] = t]

\* an empty queue yields no process at all instead of the idle one
NextProcessOrNone(k) ==
    IF k.readyQueue = NULL
    THEN [k EXCEPT !.process = NULL]
    ELSE LET p == k.readyQueue
             h == k.next[p]
         IN  [k EXCEPT !.readyQueue = h,
                       !.next[p] = NULL,
                       !.prev = [x \in Slot |-> IF x \in {p, h} THEN NULL ELSE @[x]],
                       !.state[p] = "RUNNING",
                       !.process = p]

\* the new head keeps its link back to the process that left
NextProcessKeepingPrev(k) ==
    IF k.readyQueue = NULL
    THEN [k EXCEPT !.process = Idle]
    ELSE LET p == k.readyQueue
         IN  [k EXCEPT !.readyQueue = k.next[p],
                       !.next[p] = NULL,
                       !.prev[p] = NULL,
                       !.state[p] = "RUNNING",
                       !.process = p]

-----------------------------------------------------------------------------
(* ready: append the process to the queue.  The idle process never queues. *)
Ready(k, p) ==
    IF p = Idle
    THEN k
    ELSE IF k.readyQueue = NULL
    THEN [k EXCEPT !.readyQueue = p,
                   !.prev[p] = NULL,
                   !.next[p] = NULL,
                   !.state[p] = "READY"]
    ELSE LET t == TailOf(k.next, k.readyQueue)
         IN  [k EXCEPT !.next = [@ EXCEPT ![t] = p, ![p] = NULL],
                       !.prev[p] = t,
                       !.state[p] = "READY"]

(* process = next(): run the head of the queue, or the idle process, whose *)
(* state field next() does not touch, when the queue is empty.             *)
NextProcess(k) ==
    IF k.readyQueue = NULL
    THEN [k EXCEPT !.process = Idle]
    ELSE LET p == k.readyQueue
             h == k.next[p]
         IN  [k EXCEPT !.readyQueue = h,
                       !.next[p] = NULL,
                       !.prev = [x \in Slot |-> IF x \in {p, h} THEN NULL ELSE @[x]],
                       !.state[p] = "RUNNING",
                       !.process = p]

(* readyRemoval: unlink a process whose state says READY.                  *)
ReadyRemoval(k, p) ==
    IF k.state[p] # "READY"
    THEN k
    ELSE LET before == k.prev[p]
             after  == k.next[p]
         IN  [k EXCEPT
                !.readyQueue = IF before = NULL THEN after ELSE @,
                !.next = [x \in Slot |-> IF x = p THEN NULL
                                         ELSE IF x = before THEN after ELSE @[x]],
                !.prev = [x \in Slot |-> IF x = p THEN NULL
                                         ELSE IF x = after THEN before ELSE @[x]]]
=============================================================================

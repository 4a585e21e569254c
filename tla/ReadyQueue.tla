----------------------------- MODULE ReadyQueue -----------------------------
(***************************************************************************)
(* The ready queue of c/disp.c as a component: one action per function,    *)
(* under the discipline its callers owe it.  ready() is called for a       *)
(* process that is not queued, readyRemoval() for one that is queued or    *)
(* whose state is not READY, and only a process that is not queued has its *)
(* state set by somebody else.  Module Dispatch says which requests keep   *)
(* that discipline.                                                        *)
(***************************************************************************)
EXTENDS DispQueue, FiniteSets

VARIABLES
    readyQueue,     \* the head of the queue, or NULL
    process,        \* the running process
    next,           \* per PCB: the following process in the queue, or NULL
    prev,           \* per PCB: the preceding process in the queue, or NULL
    state           \* per PCB: its state field

vars == <<readyQueue, process, next, prev, state>>

Kernel == [readyQueue |-> readyQueue, process |-> process,
           next |-> next, prev |-> prev, state |-> state]

Become(k) ==
    /\ readyQueue' = k.readyQueue
    /\ process' = k.process
    /\ next' = k.next
    /\ prev' = k.prev
    /\ state' = k.state

Queued == Reach(next, readyQueue)

-----------------------------------------------------------------------------
(* initializeQueues, with the links as create leaves them and the idle     *)
(* process running.                                                        *)
Init ==
    /\ readyQueue = NULL
    /\ process = Idle
    /\ next = [p \in Slot |-> NULL]
    /\ prev = [p \in Slot |-> NULL]
    /\ state = [p \in Slot |-> "STOPPED"]

(* ready(p), called by create, wake, runSend, the clean-up functions,      *)
(* kbdUnblockReadProc and, for the running process, by YIELD and the       *)
(* interrupts.                                                             *)
ReadyCall(p) ==
    /\ p \notin Queued
    /\ Become(Ready(Kernel, p))

(* process = next(), the end of every request that gives up the processor. *)
NextCall == Become(NextProcess(Kernel))

(* readyRemoval(p), called by cleanup.                                     *)
ReadyRemovalCall(p) ==
    /\ p \in Queued \/ state[p] # "READY"
    /\ Become(ReadyRemoval(Kernel, p))

(* sleep, send, recv and WAIT set the state of the process that is leaving *)
(* the processor; they do so before next() is called.                      *)
SuspendCall(p, s) ==
    /\ p \in Proc \ Queued
    /\ state' = [state EXCEPT ![p] = s]
    /\ UNCHANGED <<readyQueue, process, next, prev>>

Next ==
    \/ NextCall
    \/ \E p \in Slot : ReadyCall(p) \/ ReadyRemovalCall(p)
    \/ \E p \in Proc, s \in {"BLOCKED", "SLEEPING", "WAITING"} : SuspendCall(p, s)

(* The timer interrupt is enabled in user mode and ends in next(), so      *)
(* next() is called again and again.                                       *)
Spec == Init /\ [][Next]_vars /\ WF_vars(NextCall)

-----------------------------------------------------------------------------
(* The type of every field of the component.                               *)
TypeOK ==
    /\ readyQueue \in Proc \cup {NULL}
    /\ process \in Slot
    /\ next \in [Slot -> Proc \cup {NULL}]
    /\ prev \in [Slot -> Proc \cup {NULL}]
    /\ state \in [Slot -> ProcState]

(* The walk of ready() to the last process always comes to an end.         *)
WalkEnds == readyQueue # NULL => Ends(next, readyQueue)

(* The two links of the queued processes are inverse to each other.        *)
LinksInverse ==
    /\ readyQueue # NULL => prev[readyQueue] = NULL
    /\ \A p \in Queued :
        /\ next[p] # NULL => prev[next[p]] = p
        /\ prev[p] # NULL => prev[p] \in Queued /\ next[prev[p]] = p

(* The list is a proper doubly linked list: ready(), next() and            *)
(* readyRemoval() never lose a queued process, tie a knot or leave a link  *)
(* on one side only.                                                       *)
Linked == WalkEnds /\ LinksInverse

(* Every queued process is marked READY: readyRemoval() refuses any other, *)
(* and cleanup() chooses what to undo by that mark.                        *)
QueuedAreReady == \A p \in Queued : state[p] = "READY"

(* A queued process is eventually unlinked: no process starves behind      *)
(* others that keep coming.                                                *)
NoStarvation == \A p \in Proc : p \in Queued ~> p \notin Queued

(* The queue as a sequence, and the component as an implementation of the  *)
(* first-in first-out queue.                                               *)
QueueSeq ==
    LET n == Cardinality(Queued)
    IN  CHOOSE s \in [1..n -> Queued] :
            /\ n > 0 => s[1] = readyQueue
            /\ \A i \in 1..n : next[s[i]] = IF i = n THEN NULL ELSE s[i + 1]

Abstract == INSTANCE Fifo WITH
    Process <- Proc, NoProcess <- Idle, queue <- QueueSeq, running <- process

(* ready() appends at the end, next() takes the first, readyRemoval()      *)
(* takes out only the process it was given, and nothing else changes the   *)
(* order in which processes run.                                           *)
ImplementsFifo == Abstract!Spec
=============================================================================

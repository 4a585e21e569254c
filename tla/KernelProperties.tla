-------------------------- MODULE KernelProperties --------------------------
(***************************************************************************)
(* What the kernel of module Dispatch owes its processes.  The hazards     *)
(* are: one `next' field for two kinds of list, the two sides of a         *)
(* rendezvous arriving in either order, processes that die while others    *)
(* are blocked on them, sleep times kept as differences, and signals that  *)
(* take a process out of whatever list it is in.                           *)
(***************************************************************************)
EXTENDS Dispatch, FiniteSets

Live(p) == Alive(Kernel, p)
LiveProc == {p \in Proc : Live(p)}
Queued == OnReadyQueue(Kernel)
SendersTo(r) == Senders(Kernel, r)
Asleep == Sleepers(Kernel)
WaitersOf(t) == IF t \in Slot THEN Reach(waitingNext, waitingNext[t]) ELSE {}
Receiving(p) == Live(p) /\ targetOfRecv[p] # p

(* The members of a list in order.                                         *)
Walk(link, h) ==
    LET from[x \in Slot \cup {NULL}] == IF x = NULL THEN <<>> ELSE <<x>> \o from[link[x]]
    IN  from[h]

-----------------------------------------------------------------------------
(* The type of every field of the kernel.                                  *)
TypeOK ==
    /\ readyQueue \in Proc \cup {NULL}
    /\ sleepList \in Proc \cup {NULL}
    /\ process \in Slot
    /\ \A f \in {next, prev, senderQueue, waitingNext, sleepNext, sleepPrev} :
        f \in [Slot -> Proc \cup {NULL}]
    /\ state \in [Slot -> ProcState]
    /\ pid \in [Slot -> Slot \cup {EMPTY, TOMBSTONE}]
    /\ lastPID \in 2..(MaxPid + 1)
    /\ targetOfRecv \in [Slot -> Slot \cup {EMPTY, TOMBSTONE}]
    /\ waitingFor \in [Slot -> Slot]
    /\ sleepTime \in [Slot -> Int]
    /\ \A f \in {sigMaskInstalled, sigMaskOnStack, sigMaskQueued} : f \in [Slot -> SUBSET Signals]
    /\ ipcArgs \in [Slot -> Buffers \cup {NULL}]
    /\ fdTab \in [Slot -> [DOMAIN NoDescriptors -> 0..(DTAB_SIZE - 1) \cup {NULL}]]
    /\ kbd.state \subseteq NotOpen /\ kbd.p \in Proc \cup {NULL}
    /\ eax \in [Slot -> Int]
    /\ fault \in {"none", "wild", "hung"}

-----------------------------------------------------------------------------
(* Nobody is lost: a process is in the list its state says, so that the    *)
(* event it waits for will find it.                                        *)

(* ready() (c/disp.c) puts a process behind the last one of the queue and  *)
(* never cuts off others, whoever calls it and in whatever order.          *)
ReadyNotLost == \A p \in Proc : Live(p) /\ state[p] = "READY" => p \in Queued

(* A sleeper stays on the sleep list of c/sleep.c until tick() or a signal *)
(* takes it off, however others are inserted and woken around it.          *)
SleeperNotLost == \A p \in Proc : Live(p) /\ state[p] = "SLEEPING" => p \in Asleep

(* A process blocked in send or recv (c/msg.c) is where its peer, or the   *)
(* clean-up of its peer, looks for it: on the sender queue of a living     *)
(* process, or receiving from a living process or from anybody.            *)
BlockedNotLost ==
    \A p \in Proc : Live(p) /\ state[p] = "BLOCKED" =>
        \/ \E r \in Proc : Live(r) /\ p \in SendersTo(r)
        \/ Receiving(p) /\ (targetOfRecv[p] = ReceiveAny \/ Live(targetOfRecv[p]))

(* A process in syswait is on the chain of the process it waits for, and   *)
(* that process is alive: nobody waits for the dead (c/disp.c WAIT).       *)
WaiterNotLost ==
    \A p \in Proc : Live(p) /\ state[p] = "WAITING" =>
        Live(waitingFor[p]) /\ p \in WaitersOf(waitingFor[p])

(* A process off the processor that still has the state RUNNING waits in   *)
(* sysread: kbd_p names it (c/kbd.c), so the next key will reach it, there *)
(* is room for it, and the interrupt is enabled.                           *)
ReaderNotLost ==
    \A p \in Proc : Live(p) /\ state[p] = "RUNNING" /\ process # p =>
        kbd.p = p /\ kbd.irq /\ Len(kbd.chars) < kbd.buflen

(* The keyboard is open exactly while one process has a descriptor for it, *)
(* and then no other has one (di_open and di_close, c/di_calls.c).         *)
KeyboardOwned ==
    LET owners == {o \in LiveProc \X DOMAIN NoDescriptors : fdTab[o[1]][o[2]] # NULL}
    IN  Cardinality(owners) = IF kbd.state = NotOpen THEN 0 ELSE 1

(* A process that was told to stop is on its way to the handler, which is  *)
(* sysstop: signal() (c/signal.c) made it ready, and if it slept took it   *)
(* off the sleep list, so that tick() will not make it ready once more.    *)
SignalledWillRun ==
    \A p \in Proc : Live(p) /\ Doomed(p) =>
        /\ p \in Queued \/ process = p
        /\ p \notin Asleep

(* The dead stay dead: clean-up, tick() and the message queues never make  *)
(* a process ready that removeProcess (c/pcb.c) took out of the table.     *)
DeadStayDead ==
    /\ process # Idle => Live(process)
    /\ \A p \in Queued : Live(p)

(* Whomever send() or recv() (c/msg.c) would find is still in the call it  *)
(* blocked in: no entry of a sender queue and no target_of_recv outlives   *)
(* the call it was made for, so that no message goes through an argument   *)
(* list that is gone and nobody is made ready who is not blocked.          *)
PartnersAreBlocked ==
    LET senders == UNION {SendersTo(r) : r \in LiveProc}
        receivers == {r \in LiveProc : Receiving(r)}
    IN  \A p \in senders \cup receivers :
            Live(p) /\ state[p] = "BLOCKED" /\ ipcArgs[p] # NULL

(* The walks of a WAIT request and of cleanUpWaiters (c/disp.c) along a    *)
(* waiting chain come to an end: no chain closes to a cycle, though        *)
(* waitingNext is head and link at once and is left over in whoever is     *)
(* woken unless it is cleared.                                             *)
WalksEnd == \A t \in LiveProc : Ends(waitingNext, t)

-----------------------------------------------------------------------------
(* No process is in two places: it runs, or is on the ready queue, the     *)
(* sleep list, the sender queue of one process or the waiting chain of     *)
(* one, although `next' chains two kinds of list and waitingNext serves as *)
(* head and as link, and every request moves processes between them.       *)
Places == {<<"running", Idle>>, <<"ready", Idle>>, <<"asleep", Idle>>}
            \cup ({"senders"} \X LiveProc)
            \cup ({"waiters"} \X {t \in LiveProc : state[t] # "WAITING"})

Occupants(place) ==
    CASE place[1] = "running" -> {process}
      [] place[1] = "ready" -> Queued
      [] place[1] = "asleep" -> Asleep
      [] place[1] = "senders" -> SendersTo(place[2])
      [] place[1] = "waiters" -> WaitersOf(place[2])

OneListEach ==
    \A a, b \in Places : a # b => Occupants(a) \cap Occupants(b) = {}

(* A send and a matching receive never block on each other: send() and     *)
(* recv() (c/msg.c) each look for the other side before they block.        *)
NoMissedRendezvous ==
    \A r, s \in Proc : Receiving(r) /\ s \in SendersTo(r) =>
        targetOfRecv[r] \notin {s, ReceiveAny}

-----------------------------------------------------------------------------
(* Processes run in the order in which they became ready: those that were  *)
(* queued keep their order, and whoever joins is behind them.              *)
Position(q, p) == CHOOSE i \in 1..Len(q) : q[i] = p
Members(q) == {q[i] : i \in 1..Len(q)}

NoOvertaking ==
    [][LET old == Walk(next, readyQueue)
           new == Walk(next', readyQueue')
       IN  \A p \in Members(old) \cap Members(new), q \in Members(new) :
              (q \in Members(old) => Position(old, p) < Position(old, q)) /\ p # q
                => Position(new, p) < Position(new, q)]_vars

(* syswait returns only when the process waited for has stopped, unless a  *)
(* signal ends the wait.                                                   *)
WokenByDeath ==
    [][\A p \in Proc : Live(p) /\ state[p] = "WAITING" /\ state'[p] # "WAITING" =>
            pid'[waitingFor[p]] # waitingFor[p] \/ SysStop \in sigMaskOnStack'[p]]_vars

(* `If the other process is not receiving, the current process will be     *)
(* blocked until a receive call' (syssend, c/syscall.c): a send that is    *)
(* not refused finds its receiver blocked, or blocks.                      *)
SendsBlockUntilReceive ==
    [][\A dest \in Named(SendTo), buffer \in Buffers :
            SendRequest(dest, buffer) /\ eax'[process] \notin {-1, -2, -3} =>
                state[dest] = "BLOCKED" \/ state'[process] = "BLOCKED"]_vars

(* transferBuffer (c/msg.c) copies `using the less of the two buffer       *)
(* lengths'.                                                               *)
LesserLength ==
    [][\A dest \in Named(SendTo), sent \in Buffers, received \in Buffers :
            SendRequest(dest, sent) /\ Receiving(dest) /\ ipcArgs[dest] = received
            /\ ipcArgs'[dest] = NULL =>
                eax'[dest] = IF received > sent THEN sent ELSE received]_vars

(* A sleeper is woken by the timer or by a signal, and by nothing else.    *)
WokenByTime ==
    [][\A p \in Proc : Live(p) /\ state[p] = "SLEEPING" /\ state'[p] # "SLEEPING" =>
            TimerInt \/ SysStop \in sigMaskOnStack'[p]]_vars

(* A read that waited returns the number of characters in its buffer, or 0 *)
(* at the end of the input, also when that character fills the buffer.     *)
WaitedReadCounts ==
    [][\A p \in Proc : p \in Readers \ Readers' =>
            eax'[p] = IF "DISABLE" \in kbd'.state THEN 0 ELSE Len(kbd'.chars)]_vars

-----------------------------------------------------------------------------
(* A ready process gets the processor, as the timer makes every other one  *)
(* give it up.                                                             *)
ReadyRuns == \A p \in Proc : Live(p) /\ state[p] = "READY" ~> process = p

(* A sleeper becomes ready after finitely many timer interrupts.           *)
SleepersWake == \A p \in Proc : state[p] = "SLEEPING" ~> state[p] = "READY" \/ process = p

-----------------------------------------------------------------------------
(* The kernel as an implementation of message passing with sequences of    *)
(* blocked senders.  A result that is a length says that a message went    *)
(* through; the lengths of the run are no pids.                            *)
Outcome(p) ==
    CASE Live(p) /\ state[p] # "BLOCKED" /\ eax[p] < 0 -> "failed"
      [] Live(p) /\ state[p] # "BLOCKED" /\ eax[p] \in Buffers -> "delivered"
      [] OTHER -> "none"

Messaging == INSTANCE Rendezvous WITH
    Process <- Proc,
    Nobody <- NULL,
    Anybody <- ReceiveAny,
    alive <- LiveProc,
    inbox <- [p \in Proc |-> IF Live(p) THEN Walk(next, senderQueue[p]) ELSE <<>>],
    wants <- [p \in Proc |-> IF Receiving(p) THEN targetOfRecv[p] ELSE NULL],
    outcome <- [p \in Proc |-> Outcome(p)]

(* send(), recv() and the clean-up of c/msg.c and c/msgQueues.c, which use *)
(* shared links and a target field, do what the rendezvous promises: each  *)
(* message goes to a process that asks for it, senders are served in       *)
(* order, and death fails exactly those blocked on the dead.               *)
ImplementsRendezvous == Messaging!Spec

(* The time a process still has to sleep is the sum of the differences up  *)
(* to it.                                                                  *)
TimeUpTo(p) ==
    LET from[x \in Slot] == sleepTime[x] + (IF x = p THEN 0 ELSE from[sleepNext[x]])
    IN  from[sleepList]

Clock == INSTANCE Timers WITH
    Process <- Proc,
    Times <- UNION {Durations[p] : p \in Proc} \ {0},
    Slice <- TIME_SLICE,
    Awake <- NULL,
    remaining <- [p \in Proc |-> IF p \in Asleep THEN TimeUpTo(p) ELSE NULL]

(* addToSleepList(), wake() and tick() (c/sleep.c), which keep one number  *)
(* per process relative to its predecessor and touch only the head, give   *)
(* every sleeper the time it asked for.                                    *)
ImplementsTimers == Clock!Spec

(* The stream of the terminal is in the buffer of the waiting reader and,  *)
(* behind it, in the device buffer.                                        *)
Waits == kbd.p \in Readers
Status == IF kbd.state = NotOpen THEN "closed"
          ELSE IF "DISABLE" \in kbd.state THEN "ended" ELSE "open"

Tty == INSTANCE Terminal WITH
    Process <- Proc,
    Nobody <- NULL,
    Key <- Keys,
    Enter <- ENTER,
    Erase <- BKSPC,
    InitialEof <- C_D,
    Room <- KBD_BUF_SIZE,
    Lengths <- ReadLengths,
    status <- Status,
    eof <- IF Status = "closed" THEN C_D ELSE kbd.eof,
    stream <- IF Status = "open" THEN (IF Waits THEN kbd.chars ELSE <<>>) \o kbd.buf ELSE <<>>,
    reader <- IF Waits THEN kbd.p ELSE NULL,
    want <- IF Waits THEN kbd.buflen ELSE 0,
    got <- IF Status = "open" /\ kbd.p # NULL /\ ~Waits THEN kbd.chars ELSE <<>>

(* kbdG_read(), kbdBufferTransfer() and handleKbdISR() (c/kbd.c), with one *)
(* buffer in the driver and one in the reader, are one stream of           *)
(* characters: what was typed ahead is read first, in order and once.      *)
ImplementsTerminal == Tty!Spec
=============================================================================

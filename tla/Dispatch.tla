------------------------------ MODULE Dispatch ------------------------------
(***************************************************************************)
(* The kernel: dispatch() of c/disp.c with everything its requests call in *)
(* c/create.c, c/msg.c, c/msgQueues.c, c/sleep.c, c/signal.c and c/pcb.c.  *)
(*                                                                         *)
(* The kernel runs with interrupts disabled from the entry to the switch   *)
(* back to a process, so one request is one step; between two steps the    *)
(* running process may issue any request it can, or the timer interrupts.  *)
(* Which requests the processes issue is the workload, given by constants. *)
(***************************************************************************)
EXTENDS Lifecycle

CONSTANTS
    Requests,       \* the requests of the workload, by their names in disp.c
    SendTo,         \* SendTo[p]: the pids p sends to
    ReceiveFrom,    \* ReceiveFrom[p]: the pids, or 0, p receives from
    WaitOn,         \* WaitOn[p]: the pids p waits for
    Kill,           \* Kill[p]: the pids p signals
    KillSignals,    \* the signal numbers used
    Durations,      \* Durations[p]: the times p sleeps, in the unit of TIME_SLICE
    Buffers,        \* the lengths of the buffers passed, negative for a bad one
    Devices,        \* the device numbers opened
    ReadLengths,    \* the buffer lengths of reads from the keyboard
    EofChars,       \* the characters KBD_IOCTL_EOF is given
    Keys,           \* the keys that are struck
    Typist          \* "patient" or "any": see Strikes

ASSUME WorkloadAssumption ==
    /\ Requests \subseteq {"CREATE", "YIELD", "STOP", "KILL", "GETPID", "SEND",
                           "RECV", "SLEEP", "SIGHANDLE", "WAIT", "DV_OPEN", "DV_CLOSE",
                           "DV_READ", "DV_WRITE", "DV_IOCTL"}
    /\ \A f \in {SendTo, ReceiveFrom, WaitOn, Kill, Durations} : DOMAIN f = Proc
    /\ \A p \in Proc : Durations[p] \subseteq Nat
    /\ Buffers \subseteq Int /\ NULL \notin Buffers
    /\ \A buffer \in Buffers : buffer < BufferAddress
    /\ Devices \cup ReadLengths \subseteq Nat
    /\ EofChars \subseteq Keys \ {ENTER, BKSPC, NOCHAR}
    /\ Typist \in {"patient", "any"}

VARIABLES
    readyQueue, process, next, prev, state,             \* c/disp.c
    pid, lastPID,                                       \* c/pcb.c
    senderQueue, targetOfRecv, ipcArgs,                 \* c/msgQueues.c
    waitingFor, waitingNext,                            \* the WAIT lists
    sleepList, sleepNext, sleepPrev, sleepTime,         \* c/sleep.c
    sigMaskInstalled, sigMaskOnStack, sigMaskQueued,    \* c/signal.c
    fdTab, kbd,                                         \* c/di_calls.c, c/kbd.c
    eax, fault

vars == <<readyQueue, process, next, prev, state, pid, lastPID,
          senderQueue, targetOfRecv, ipcArgs, waitingFor, waitingNext,
          sleepList, sleepNext, sleepPrev, sleepTime,
          sigMaskInstalled, sigMaskOnStack, sigMaskQueued, fdTab, kbd, eax, fault>>

(* The state as the record the operators work on, and back.                *)
Kernel ==
    [readyQueue |-> readyQueue, process |-> process,
     next |-> next, prev |-> prev, state |-> state,
     pid |-> pid, lastPID |-> lastPID,
     senderQueue |-> senderQueue, targetOfRecv |-> targetOfRecv, ipcArgs |-> ipcArgs,
     waitingFor |-> waitingFor, waitingNext |-> waitingNext,
     sleepList |-> sleepList, sleepNext |-> sleepNext,
     sleepPrev |-> sleepPrev, sleepTime |-> sleepTime,
     sigMaskInstalled |-> sigMaskInstalled, sigMaskOnStack |-> sigMaskOnStack,
     sigMaskQueued |-> sigMaskQueued, fdTab |-> fdTab, kbd |-> kbd,
     eax |-> eax, fault |-> fault]

Become(k) ==
    \E j \in {k} :
        /\ readyQueue' = j.readyQueue /\ process' = j.process
        /\ next' = j.next /\ prev' = j.prev /\ state' = j.state
        /\ pid' = j.pid /\ lastPID' = j.lastPID
        /\ senderQueue' = j.senderQueue
        /\ targetOfRecv' = j.targetOfRecv
        /\ ipcArgs' = j.ipcArgs
        /\ waitingFor' = j.waitingFor /\ waitingNext' = j.waitingNext
        /\ sleepList' = j.sleepList /\ sleepNext' = j.sleepNext
        /\ sleepPrev' = j.sleepPrev /\ sleepTime' = j.sleepTime
        /\ sigMaskInstalled' = j.sigMaskInstalled
        /\ sigMaskOnStack' = j.sigMaskOnStack
        /\ sigMaskQueued' = j.sigMaskQueued
        /\ fdTab' = j.fdTab /\ kbd' = j.kbd
        /\ eax' = j.eax /\ fault' = j.fault

-----------------------------------------------------------------------------
(* pcbTableInit and the two creations of initproc, then the first next():  *)
(* the idle process sits in slot 0 and mainProgram, pid 1, runs.  Every    *)
(* byte of an unused PCB is 0xFF.                                          *)
InitialTable ==
    LET All(v) == [p \in Slot |-> v]
    IN  [readyQueue |-> NULL, process |-> Idle,
         next |-> All(NULL), prev |-> All(NULL), state |-> All("STOPPED"),
         pid |-> All(EMPTY), lastPID |-> 0,
         senderQueue |-> All(NULL), targetOfRecv |-> All(EMPTY), ipcArgs |-> All(NULL),
         waitingFor |-> All(0), waitingNext |-> All(NULL),
         sleepList |-> NULL, sleepNext |-> All(NULL),
         sleepPrev |-> All(NULL), sleepTime |-> All(0),
         sigMaskInstalled |-> All({}), sigMaskOnStack |-> All({}),
         sigMaskQueued |-> All({}),
         fdTab |-> All(NoDescriptors), kbd |-> InitialKbd,
         eax |-> All(0), fault |-> "none"]

Init ==
    LET k == NextProcess(Create(Create(InitialTable)))
    IN  /\ readyQueue = k.readyQueue /\ process = k.process
        /\ next = k.next /\ prev = k.prev /\ state = k.state
        /\ pid = k.pid /\ lastPID = k.lastPID
        /\ senderQueue = k.senderQueue
        /\ targetOfRecv = k.targetOfRecv
        /\ ipcArgs = k.ipcArgs
        /\ waitingFor = k.waitingFor /\ waitingNext = k.waitingNext
        /\ sleepList = k.sleepList /\ sleepNext = k.sleepNext
        /\ sleepPrev = k.sleepPrev /\ sleepTime = k.sleepTime
        /\ sigMaskInstalled = k.sigMaskInstalled
        /\ sigMaskOnStack = k.sigMaskOnStack
        /\ sigMaskQueued = k.sigMaskQueued
        /\ fdTab = k.fdTab /\ kbd = k.kbd
        /\ eax = k.eax /\ fault = k.fault

-----------------------------------------------------------------------------
(* A process that has the stop signal on its stack runs the handler, which *)
(* is sysstop, as soon as it runs again; it issues no other request.       *)
Doomed(p) == SysStop \in sigMaskOnStack[p]

(* The running process issues the request.                                 *)
Issues(request) ==
    /\ request \in Requests
    /\ process # Idle
    /\ ~Doomed(process)
    /\ fault = "none"

CreateRequest ==
    /\ Issues("CREATE")
    /\ lastPID <= MaxPid    \* the bound on the number of processes
    /\ Become([Create(Kernel) EXCEPT !.eax[process] = lastPID])

YieldRequest ==
    /\ Issues("YIELD")
    /\ Become(NextProcess(Ready(Kernel, process)))

StopRequest ==
    /\ process # Idle /\ fault = "none"
    /\ "STOP" \in Requests \/ Doomed(process)
    /\ Become(NextProcess(Cleanup(Kernel, process)))

(* KILL returns to the caller; only the signalled process is rescheduled.  *)
KillRequest(target, sig) ==
    /\ Issues("KILL")
    /\ LET p == GetPcb(Kernel, target)
       IN  IF p = NULL \/ target <= 0
           THEN Become([Kernel EXCEPT !.eax[process] = -512])
           ELSE IF sig \notin Signals
           THEN Become([Kernel EXCEPT !.eax[process] = -561])
           ELSE Become([Signal(Kernel, p, sig) EXCEPT !.eax[process] = 0])

GetPidRequest ==
    /\ Issues("GETPID")
    /\ Become([Kernel EXCEPT !.eax[process] = pid[process]])

SendRequest(dest, buffer) ==
    /\ Issues("SEND")
    /\ Become(NextProcess(Send([Kernel EXCEPT !.ipcArgs[process] = buffer], process, dest, buffer)))

RecvRequest(from, buffer) ==
    /\ Issues("RECV")
    /\ Become(NextProcess(Recv([Kernel EXCEPT !.ipcArgs[process] = buffer], process, from, buffer)))

SleepRequest(milliseconds) ==
    /\ Issues("SLEEP")
    /\ Become(NextProcess(Sleep(Kernel, process, milliseconds)))

SigHandleRequest(sig, newHandler, oldHandler) ==
    /\ Issues("SIGHANDLE")
    /\ Become(HandleRegister(Kernel, process, sig, newHandler, oldHandler))

WaitRequest(target) ==
    /\ Issues("WAIT")
    /\ Become(WaitFor(Kernel, process, target))

-----------------------------------------------------------------------------
(* The device calls.  Only the first descriptor ever gets a device that is *)
(* open, and the result of a failed open stands for the invalid ones.      *)
Descriptors == {-1, 0}
Commands == ({"KBD_IOCTL_EOF"} \X EofChars)
              \cup ({"KBD_IOCTL_OFF", "KBD_IOCTL_ON", "unknown"} \X {NULL})

OpenRequest(dev) ==
    /\ Issues("DV_OPEN")
    /\ Become(NextProcess(DiOpen(Kernel, process, dev)))

CloseRequest(fd) ==
    /\ Issues("DV_CLOSE")
    /\ Become(NextProcess(DiClose(Kernel, process, fd)))

WriteRequest(fd, buffer) ==
    /\ Issues("DV_WRITE")
    /\ Become(NextProcess(DiWrite(Kernel, process, fd, IsValidBuffer(buffer))))

ReadRequest(fd, buffer, buflen) ==
    /\ Issues("DV_READ")
    /\ Become(NextProcess(DiRead(Kernel, process, fd, IsValidBuffer(buffer), buflen)))

IoctlRequest(fd, command) ==
    /\ Issues("DV_IOCTL")
    /\ Become(NextProcess(DiIoctl(Kernel, process, fd, command[1], command[2])))

(* A process that waits for characters still has the state it ran in.      *)
Readers == {p \in Proc : pid[p] = p /\ state[p] = "RUNNING" /\ process # p /\ kbd.p = p}

(* The patient typist types when a read waits or none has been issued      *)
(* since the keyboard was opened; but keys are released at any time, if    *)
(* the last line was shorter than its buffer.                              *)
Strikes(key) ==
    \/ Typist = "any"
    \/ kbd.p \in Readers \cup {NULL}
    \/ key = NOCHAR /\ Len(kbd.chars) < kbd.buflen

KbdInt(key) ==
    /\ fault = "none" /\ kbd.irq /\ Strikes(key)
    /\ Become(NextProcess(Ready(KbdISR(Kernel, key), process)))

-----------------------------------------------------------------------------
(* The timer: wake sleepers, requeue the interrupted process, switch.      *)
Interrupted(k) == NextProcess(Ready(Tick(k), k.process))

TimerInt ==
    /\ fault = "none"
    /\ Become(Interrupted(Kernel))

Named(targets) == IF process = Idle THEN {} ELSE targets[process]

Next ==
    \/ CreateRequest
    \/ YieldRequest
    \/ StopRequest
    \/ GetPidRequest
    \/ TimerInt
    \/ \E target \in Named(Kill), sig \in KillSignals : KillRequest(target, sig)
    \/ \E dest \in Named(SendTo), buffer \in Buffers : SendRequest(dest, buffer)
    \/ \E from \in Named(ReceiveFrom), buffer \in Buffers : RecvRequest(from, buffer)
    \/ \E milliseconds \in Named(Durations) : SleepRequest(milliseconds)
    \/ \E sig \in KillSignals, newHandler \in {NULL, "handler"},
         oldHandler \in {"in memory", "in the hole", "beyond maxaddr"} :
            SigHandleRequest(sig, newHandler, oldHandler)
    \/ \E target \in Named(WaitOn) : WaitRequest(target)
    \/ \E dev \in Devices : OpenRequest(dev)
    \/ \E fd \in Descriptors : CloseRequest(fd)
    \/ \E fd \in Descriptors, buffer \in Buffers : WriteRequest(fd, buffer)
    \/ \E fd \in Descriptors, buffer \in Buffers, n \in ReadLengths : ReadRequest(fd, buffer, n)
    \/ \E fd \in Descriptors, command \in Commands : IoctlRequest(fd, command)
    \/ \E key \in Keys : KbdInt(key)

(* The timer is programmed once and interrupts are enabled in every        *)
(* process, so the next timer interrupt always comes: weak fairness of     *)
(* TimerInt, with its enabling condition written out, as an interrupt is   *)
(* a step only if it changes something.                                    *)
TimerMatters == fault = "none" /\ Interrupted(Kernel) # Kernel

TimerFairness == []<>~TimerMatters \/ []<><<TimerInt>>_vars

Spec == Init /\ [][Next]_vars /\ TimerFairness
=============================================================================

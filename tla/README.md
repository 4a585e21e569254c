# A TLA+ model of the Xeros kernel

The repository is a small teaching operating system for one 386: a boot loader, a kernel in
`c/` and a handful of user programs linked into it. This directory holds the specification of
the kernel: its modules, the TLC runs that check them on small instances and the TLAPS proofs of
what holds for any number of processes.

## The system

| component | source | state | operations |
|---|---|---|---|
| scheduler | `c/disp.c` | `readyQueue`, `process`; per PCB `next`, `prev`, `state` | `ready`, `next`, `readyRemoval` |
| dispatcher | `c/disp.c` | - | one case per request, timer and keyboard interrupts |
| message passing | `c/msg.c`, `c/msgQueues.c` | per PCB `sender_queue`, `next`, `target_of_recv`, `ipcArgs` | `send`, `recv`, `runSend`, clean-up |
| sleep list | `c/sleep.c` | `sleepList`; per PCB `sleepNext`, `sleepPrev`, `sleepTime` | `sleep`, `tick`, `wake`, `removeFromSleepList` |
| processes | `c/create.c`, `c/disp.c` | per PCB `waitingFor`, `waitingNext` | `create`, WAIT, `cleanup` |
| PCB table | `c/pcb.c` | `pcbTable`, `lastPID`, `numRunning` | `getFreePCBIndex`, `getPcb`, `removeProcess` |
| signals | `c/signal.c` | three masks and a handler table per PCB | `signal`, `handleRegister`, SIGRETURN |
| keyboard and devices | `c/kbd.c`, `c/di_calls.c` | a buffer of 4 characters, the context of the last read, FD tables | open, close, read, ioctl, interrupt |
| memory | `c/mem.c`, `c/memHeader.c` | the free list | `kmalloc`, `kfree` |
| system calls, switch | `c/syscall.c`, `c/ctsw.c` | `call_number`, `args`, `ret_val`, shared by all processes; the saved registers | `syscall` and the stubs, the three entry points, `contextswitch` |
| CPU times | `c/pcb.c` | `runningTime` per PCB | `addCPUTimes`, `getCPUtimes` |
| user programs | `c/user.c`, `c/login.c`, `c/shell.c`, `c/program.c` | `pmVal`, `a_progPid` | login, shell, `ex`, `k`, `a`, `t` |
| tests | `c/ipcTests.c`, `c/msgTests.c`, `c/deviceTests.c`, `c/getcpuTests.c` | two arrays `pids`, some more pids | a root function per test, which creates the others |

**How they interact.** A process traps into `contextswitch`, `dispatch()` takes the request,
calls one component, and switches back to the process `next()` yields. The kernel runs with
interrupts disabled, so a request is atomic; what makes it hard is the interleaving of the
requests of different processes and the timer. The components share the PCB: every one of them
suspends a process by leaving it off the ready queue and resumes it with `ready()`, `next` links
both the ready queue and the sender queues, and a death or a signal has to take a process out of
whatever list it is in.

**What must hold.** The ready queue is a first-in first-out queue that loses nobody. A send and
a matching receive meet. A sleeper sleeps the time it asked for. A waiter resumes when the
process it waits for stops. What is typed is read, in order and once. A process is on one list at a
time, the one its state says. The dead stay dead. Every request returns. The hazards, each at its line, are in
`PROJECT.json`.

## The modules

| module | what it is |
|---|---|
| `DispQueue` | the functions of the ready queue as operators on a kernel record |
| `ReadyQueue` | the ready queue as a component: one action per function, under its callers' discipline |
| `Fifo` | the abstract queue `ReadyQueue` implements |
| `ReadyQueueProofs`, `FifoProofs` | the theorems about `ReadyQueue`; that it implements `Fifo` |
| `Messages` | `send`, `recv` and the sender queues as operators |
| `SleepList` | the delta list as operators |
| `Keyboard` | the keyboard driver and the device calls as operators |
| `Lifecycle` | creation, waiting, clean-up, signals as operators; joins `Messages`, `SleepList` and `Keyboard` |
| `PcbTable`, `PcbTableProofs` | the process table: pids, slots, stacks and CPU times over reuse and wrap-around; its theorems |
| `SysCall`, `SysCallProofs` | the stubs, the traps and the context switch, instruction by instruction; their theorems |
| `Dispatch` | the kernel: the variables, one action per request and per interrupt |
| `KMem`, `KMemProofs` | the memory allocator: its variables, one action for `kmalloc` and one for `kfree`; its theorems |
| `ListLemmas` | what appending, taking the head and unlinking do to one or several linked lists, for the proofs |
| `NaturalLemmas` | the least number of a set, and counting up to a bound, for the proofs |
| `Rendezvous`, `Timers`, `Terminal` | the abstract specifications of message passing, sleeping and reading |
| `KernelProperties`, `KernelProofs` | the properties of `Dispatch` and its refinement mappings; the theorems about them |
| `MCKernel` | the workloads of the runs |
| `UserCode` | the notation for programs: calls, assignments, tests, loops |
| `TestPrograms`, `SessionPrograms` | the programs of the repository in that notation |
| `CommandLine` | how login and shell take a line apart |
| `Programs` | the kernel of `Dispatch` with these programs on it, and what they owe |
| `MCPrograms` | what is typed in the runs of `Programs` |

**Operators on a record.** A C function that changes several fields of several PCBs becomes an
operator that takes the kernel record and returns the one the function leaves behind, so a
handler is the composition of the calls it makes, in their order: STOP is
`NextProcess(Cleanup(Kernel, process))`, the timer interrupt is
`NextProcess(Ready(Tick(Kernel), process))`. The fields have the names they have in C.
A pointer to a PCB, its slot in the table and its pid are one number: `getFreePCBIndex` hands
out pids in order and puts pid *p* in slot *p* as long as fewer than 31 processes were created,
which `MaxPidAssumption` states; `PcbTable` is about what happens after that. `Reach(link, h)` is the set of PCBs met when walking `link` from
`h`, defined as the least set that holds `h` and is closed under `link`; it has no recursion, so
the prover can work with it, and it is meaningful on a list with a knot in it, where the walk of
the code would not end (`Ends`).

**The lists.** The ready queue is `readyQueue` with `next` and `prev`; the senders blocked on *p*
are `senderQueue[p]` with `next`; the sleepers are `sleepList` with `sleepNext`, `sleepPrev`; those
who wait for *p* are found along `waitingNext` from *p*. `targetOfRecv[p]` is the pid *p* receives
from, 0 for anybody and *p* itself for nobody, as in the code.

**The keyboard.** `kbd` holds the static variables of `c/kbd.c`: a buffer with an index to its next
free place is the sequence of the characters below the index, so `kbd.buf` is `kbd_buf` with
`kbd_buf_ind`, and `kbd.chars` is the reader's buffer with `kbd_p.i`. `kbd.state` is a set of flags,
and EMPTY, which is -1, is the set of all of them. A reader that waits has no state of its own: it is
off the ready queue and `RUNNING` (`Readers`). A key is what `kbtoa()` makes of a scan code:
a character, ENTER, BKSPC, or nothing, as for the release of a key (`NOCHAR`).

**Memory.** `KMem` stands alone: the kernel meets the allocator only in `create` and
`removeProcess`. Every address and size the allocator computes is a multiple of 16, the size of a
header, so the model counts in these units and a request stands for all that round up to it. A
header is what was last written at its address; one that is written over another block's replaces
it, and a size is a number modulo 2^32 bytes. The sanity check of `kfree` never fails for a pointer
that `create` kept, and is left out.

**The process table.** `PcbTable` has slots, pids and stacks apart. `Probe` is the walk of
`getFreePCBIndex` for one pid, `FreeFrom` its walk over the pids. The scan behind a tombstone does not
wrap and reads on behind the table; what it may find there is the constant `Memories`, sets of pids it
would take for slots. `fault` is `"hung"` if a probe or the loop of `removeProcess` does not end and
`"wild"` if -1 is used as an index. `ticks` and `born` record what the CPU times are compared with.

**System calls.** `SysCall` has one action per instruction of a stub that touches what processes
share: the three static variables, `%eax` and `%edx`, which the switch saves and restores, and the
fields `cpu_state.eax` and `arguments`. An interrupt may come between any two of them. The kernel is
abstracted to what the caller sees of a request: whether it has a result, lets others run or blocks.
A result names the request the kernel found and whose arguments it read, so that an answer to somebody
else's call is told from one's own. `cut` marks a call that was interrupted in a place where it matters
(`Windows`).

**Programs.** A C function of a test, the login, the shell or a command is a sequence of its system
calls, its assignments to variables others read and the tests on what it does next; `Forward` goes
through what is between two calls, as only the process itself can notice it, and `Step` takes the
action of `Dispatch` for the call. A loop of `sysyield` with a count is one of any length (`Yields`).
Printing (`sysputs`) and `sysgetcputimes`, which change nothing, are left out. A line that is typed is a
sequence of words, numbers and blanks, each one symbol, so a buffer of 32 bytes holds `LineSize`
symbols. Times are in seconds, one per timer interrupt, and the 10 seconds of `prog_t` are 3. The number in a message
is any of `Garbage`, as what is copied is not what was sent. The test `waitTest` stands in a comment in `c/user.c`; its
processes `runner` and `waiter` do not.

**What is abstract.** The payload of a message. A buffer is its length, and a negative number is a bad or a null
one. How much is copied is `TransferBuffer`: as `transferBuffer` does not skip the pid in front of the sender's buffer
(`c/msg.c:211`), it takes the buffer's address, `BufferAddress`, for its length. The contents of stacks, and
of a signal's stack frame all but the fact that the handler runs when the process runs next.
As `handleRegister` refuses every handler but NULL, the only handler is `sysstop`: a process with
signal 31 on its stack (`Doomed`) issues nothing but a stop. `fault` records a request from which
the kernel does not come back: `"hung"`, a walk along a cycle, or `"wild"`, a copy through a null
argument list. In `Dispatch` memory for stacks never runs out. Echoed characters are not shown anywhere.

**What is nondeterministic.** Between two kernel entries the running process may issue any
request of the workload with any of its arguments, good and bad ones, the timer interrupts, or a key is struck.
Workloads are constants (`SendTo[p]`, `WaitOn[p]`, ...), so a run can be confined to what it is
about; `TIME_SLICE` and the durations are in the same unit.

## The runs

| run | question | bounds | result |
|---|---|---|---|
| `ready_queue` | is the linked list a FIFO? | 3 processes | holds; 1314 states |
| `ipc` | do send, recv and death implement the rendezvous? | 3 processes, all pairs, good and bad buffers | holds; 27767 states |
| `sleep` | is the delta list a set of timers? | 3 processes, sleeps of 0, 3, 6, slice 4 | holds; 1557 states |
| `signal` | is a signalled process on its way to the handler, off the sleep list, and dead once it has stopped? | 2 processes: 2 sleeps and receives from anybody, 1 sends to it, both signal it | holds; 1092 states |
| `mixed` | is everybody on one list, the right one; does a wait end with the death it waits for; do chains of waiters end? | 4 processes: 3 serves, 1 and 2 send to 3 and wait for 3 and 4, 4 sleeps | holds; 122211 states |
| `keyboard` | are the two buffers one stream of characters? | 2 processes, a device buffer of 2, reads of 0, 1 and 3, 5 keys, a patient typist | holds; 46716 states |
| `kmem` | do blocks overlap, is memory lost? | 13 usable units of 16 bytes on both sides of a hole of 2, requests of 0, 1, 2 and 4 | holds; 92868 states |
| `syscall` | does a call return the answer to itself? | 2 processes and the idle one; a stub with a result, one without, one that blocks | holds unless cut off in `Windows`; 1594985 states, by symmetry |
| `syscall_preempted` | the same of every call | as `syscall` | %eax is reloaded from the PCB on the way back to the interrupted stub (`c/ctsw.c:66`), so the trap serves no request, and the call returns an answer that is not its own |
| `pcb_table` | are pids unique, processes found, slots given out, stacks owned? | 5 slots, 5 stacks, 1 timer interrupt, 4 contents of the memory behind the table | holds; 703341 states |
| `programs` | do the tests pass and end, and does the login wait? | 4 processes, 16 root functions, 7 lines | holds; 400444 states |
| `login_woken` | does the login wait when a command runs in the foreground? | as `programs`, 3 lines | the login resumes with the shell alive |

**Properties.** The names below are definitions of `ReadyQueue`, `KernelProperties`, `KMem`, `PcbTable`, `SysCall` and
`Programs`.

* `Linked`: walks end and the two links are inverse. `QueuedAreReady`: the mark on which
  `readyRemoval()` and `cleanup()` decide. `ImplementsFifo`: with the refinement mapping
  `queue <- QueueSeq`. `NoStarvation`: everybody queued leaves the queue.
* `ReadyNotLost`, `SleeperNotLost`, `BlockedNotLost`, `WaiterNotLost`: a process in a state is on
  the list where the event it waits for will look for it, and its peer is alive.
* `OneListEach`: and on no other list. `DeadStayDead`: nobody out of the table is queued or runs.
  `PartnersAreBlocked`: whomever a send or a receive finds on a sender queue or receiving is alive, blocked and has its
  argument list. `NoMissedRendezvous`: no pair of blocked processes that match. `WalksEnd`: no chain of waiters closes
  to a cycle.
* `NoOvertaking`, `ReadyRuns`: round robin. `SleepersWake`: every sleeper wakes.
* `ImplementsRendezvous`: the sender queues are sequences (`inbox`), `wants` is `targetOfRecv`,
  and the results of the calls are the outcomes; a death fails exactly those blocked on the dead.
  `ImplementsTimers`: the time left of a sleeper is the sum of the differences up to it; each
  interrupt takes one slice off everyone and wakes exactly those whose time is up.
* `WokenByDeath`: a waiter resumes only by the death it waits for, or a signal.
  `SignalledWillRun`: a process told to stop is queued or running and no longer on the sleep list. It does not say that
  nobody makes it ready again before it stops: a message may (`SignalReceiver.cfg`).
* `ReaderNotLost`: the next key reaches whoever waits for one. `KeyboardOwned`: the keyboard is open
  exactly while one process has a descriptor for it. `WaitedReadCounts`: what a read that waited
  returns. `ImplementsTerminal`: the stream is the buffer of the waiting reader followed by the device
  buffer; reads take lines from its front.
* `BlocksDisjoint`: free blocks, blocks in use and the hole share no unit. `RefusesOnlyWhenFull`: a
  request is refused only if no stretch of free memory, however it is cut into blocks, is long enough.
* `UndisturbedCallReturns`, `CallReturns`: a finished call has returned the answer to its own number and
  arguments; the first of them if no interrupt fell between `va_start` and `int` or between the two uses
  of `ret_val`.
* `FoundByPid`: no pid twice, and `getPcb` finds every living process. `SlotFound`: a table that is not
  full has a slot to give, and the kernel hangs at most when no slot is unused. `StacksOwned`: one stack
  each, which nobody has freed. `NoTimeInherited`: a process in a slot that was used before starts without its
  predecessor's time; it is proved, and no run lists it.
* `TestsPass`: a result a test compares with a constant is what it expects. `NobodyLeftBehind`: when
  everybody who can go on has, nobody is blocked or waits for a pid to be published. `LoginWaits`: the
  login is in its `syswait` while a shell lives. `ReadsAreOfOpenFiles`: login and shell, which do not
  check what `sysopen` returns, read and set the keyboard by an open descriptor.

**Why the bounds suffice.** Three processes give a list with a head, a middle and an end, two
senders competing for a receiver and a receiver choosing between them, and a third party that
interferes with a pair; four are needed for two chains of waiters. Pids above the last one
created appear as targets, so calls on processes that do not exist yet and on dead ones happen.
With a slice of 4 the times 3 and 6 are both overslept, by 1 and by 2, so
that the time a head overslept is charged to the next one, and a sleeper is inserted before,
between, level with and behind others. A device buffer of 2 instead of 4 with reads of 0, 1 and 3
keeps what matters: a buffer that is full, reads shorter than what was typed ahead, so that the rest
is shifted, and reads longer than it, which wait. The character that ends the input can be exchanged
with an ordinary one, also while it stands in the buffer. Seven units of memory before the hole and
six after it are enough for several blocks on each side: a freed block has free neighbours on neither
side, on one or on both, and rests end before the hole, one unit before it and at the end of memory.
Two processes and the idle one are enough for a stub: one that is cut off and another that uses the
variables meanwhile, blocks, or is answered. A process table of 5 has the slot of the idle process, which
is never probed for others, and four to collide, wrap and leave tombstones in; pids wrap within a few
creations. With one timer interrupt a time that is charged before a slot is taken again differs from one that is
charged after. The tests of the run create at most three processes each; a session has the login, the shell and
two commands at a time, and `create` is not called where it would exceed that.

**What the passing runs leave out, and why.** The code has defects that the properties find, so the
passing workloads keep clear of them: durations of which the longer, once another's
waking made it the head, has less left than the shorter (`sleep`), so that no new sleeper comes
before it; messages to the idle process, whose pid is 0 (`ipc`); waiting one level deep, so that no
two processes wait for each other (`mixed`); signals only to a process that neither sends, waits nor
receives from one particular process, with nobody behind it on the ready queue (`signal`); a typist who,
between the end of a read and the next one, only releases keys, and not even that if the read ended
because its buffer was full (`keyboard`, `Strikes`), and processes that do not stop while the keyboard is
open; requests that fit no block exactly unless it ends at the hole, or is the only one at the end of
memory (`kmem`, `Harmless`); interrupts outside the windows of a stub (`syscall`); a stack for every
slot (`pcb_table`); commands in the background, lines typed only while a read waits, and the roots
of the tests that do not trip over one of these defects (`programs`). Two of the lines are stepped over in runs of
their own, `syscall_preempted` and `login_woken`, and the others in configurations that stand beside them:

| configuration | module | property violated | what happens |
|---|---|---|---|
| `SleepUnequal.cfg` | `MCKernel` | `SleeperNotLost` | with sleeps of 2 and 6 and a slice of 2, a sleeper is inserted by the back link of a head that still names a woken process, and drops off the list (`c/sleep.c:119`) |
| `IdleSend.cfg` | `MCKernel` | `SendsBlockUntilReceive` | a send to pid 0 returns at once, through a null argument list: 0 is also the `target_of_recv` for anybody (`c/msgQueues.c:18`); `c/syscall.c` has it that a sender is blocked until a receive |
| `MessageLength.cfg` | `MCKernel` | `LesserLength` | a sender of 64 bytes and a receiver of 128: the pid is taken for the sender's buffer and its address for the length, and 128 are copied (`c/msg.c:211`), where the comment at `c/msg.c:193` promises the less of the two |
| `WaitCycle.cfg` | `MCKernel` | `WalksEnd` | 1 and 2 wait for each other, and the next walk along that chain has no end (`c/disp.c:205`), although `c/disp.c:185` announces `basic deadlock' checks |
| `WaitChain.cfg` | `MCKernel` | `WokenByDeath` | 1 waits for 2 and 2 for 3: the death of 3 wakes both (`c/disp.c:205`) |
| `SignalReady.cfg` | `MCKernel` | `ReadyNotLost` | a signal to a queued process cuts off those behind it (`c/signal.c:88`) |
| `SignalSender.cfg` | `MCKernel` | `DeadStayDead` | a signalled sender stays on the queue of its receiver: once it has stopped, the death of the receiver makes it ready again, and it runs (`c/signal.c:101`) |
| `SignalReceiver.cfg` | `MCKernel` | `SendsBlockUntilReceive` | a signalled receiver keeps `target_of_recv`, so that a later send finds it receiving and makes it ready once more while it is queued (`c/signal.c:101`) |
| `LateKey.cfg` | `MCKernel` | `WokenByTime` | a key struck after a read wakes the former reader out of a sleep (`c/kbd.c:199`) |
| `ExactFit.cfg` | `KMem` | `BlocksDisjoint` | a block that fits exactly leaves the header of its rest on the next block (`c/memHeader.c:207`) |
| `CpuTime.cfg` | `PcbTable` | `ProcessorTime` | two processes are charged for the same slice: `addCPUTimes` charges everybody alive (`c/pcb.c:281`), where `h/xeroskernel.h:199` calls the field the CPU time used |

The roots of `TestPrograms` that are not in `programs` each trip over one of these or over a defect of
their own. With the root in `Roots`, enough processes in `MaxPid` and the invariants of `KernelProperties` added:

* `testIpc2` violates `TestsPass`: which message its receiver gets first depends on who comes first.
* `testIpc4` violates `ReadyNotLost`, as it signals a process that is on the ready queue.
* `testIpc5`, `testIpc6` and `testIpc7` end in a deadlock with `fault = "wild"`: `initPids` resets the array of
  `c/ipcTests.c`, that of `c/msgTests.c:6` holds zeroes, so nobody waits for a pid, and the first
  message goes to pid 0.
* `testGCT_root`, with 6 processes, violates `SleeperNotLost`, by sleeps of 4 and 5 seconds.

Further disagreements, met while modelling:

* `handleRegister` refuses every handler but NULL: its check starts with `newHandler != NULL ||`
  (`c/signal.c:158`), where `Testing.txt:79` expects 0. So the alarm of the command `a` has no effect.
* A receiver that was signalled and stopped is made ready again when the process it received from
  stops: `target_of_recv` is kept, and `getAllRecvers` looks at dead slots too (`c/signal.c:101`,
  `c/pcb.c:228`).
* A signalled sleeper whose back link is stale stays on the sleep list (`c/sleep.c:119`).
* A `create` that finds no stack calls `removeProcess` on a slot that still has its previous owner's stack
  in it, which is freed although somebody else may have it by now; on a slot never used before the
  kernel does not return (`c/create.c:28`). With 3 `Blocks` for the 5 slots of
  `pcb_table`, `SlotFound` is violated by the second and `StacksOwned` by the first.
* When no slot is unused, a probe for a new pid may come round for ever, if the memory behind the table
  happens to hold that pid (`c/pcb.c:89`).
* After an interrupt `%eax` of the interrupted process is loaded from its PCB, which holds the result of
  its last call, whatever `%eax` held (`c/ctsw.c:66`); `Windows` are where that, or the static variables,
  change a call.
* A block that ends with the memory stays on the free list when it is handed out and is not the only
  one (`c/memHeader.c:229`).
* An end of the input that is typed ahead and fills the buffer exactly makes `sysread` return a count
  and not 0 (`c/kbd.c:102`). The character that ends the input is kept in a signed byte.
* `cleanup()` closes no descriptors, so a process that stops with the keyboard open keeps everybody
  else from opening it for ever (`c/disp.c:449`).

**Deadlock** is checked in every run but `pcb_table`, where the timer interrupts are bounded and a kernel that hangs ends
the behaviour. The timer interrupt is always possible unless `fault` is set, so in `Dispatch` a deadlock is a kernel that
does not return, and the passing runs show that it always does within their workloads.

**Fairness.** `ReadyQueue`: weak fairness of `next()`, which ends every request that gives up
the processor and every timer interrupt. `Dispatch`: `TimerFairness`, weak fairness of the timer
interrupt with its enabling condition written out: the timer is programmed periodically
(`c/i386.c`) and interrupts are enabled in every process (the `0x3200` flags in `c/create.c`).
No fairness is assumed of user processes: they may loop for ever. The runs of
`SysCall`, `PcbTable`, `Programs` and `KMem` check safety only; `NobodyLeftBehind` says in a state what `every
test comes to its end' says of behaviours: where nobody can move, nobody depends on another.

## The proofs

Everything the runs check of the ready queue, the table of processes, the system calls and the allocator
is proved for every value of their constants, but for liveness, and under the hypotheses of the table below. Of the composed kernel of `Dispatch`, message
passing, sleeping and the keyboard, with the creation and the end of processes and the interrupts, are proved for
any number of processes; signals and waiting for a process are not.

| module | theorem | property | hypothesis |
|---|---|---|---|
| `ReadyQueueProofs` | `QueueInvariant`, `TypeCorrect`, `QueueLinked`, `QueuedReady` | `IInv`, `TypeOK`, `Linked`, `QueuedAreReady` | |
| `FifoProofs` | `QueueIsFifo` | `ImplementsFifo` | |
| `SysCallProofs` | `CallInvariant`, `TypeCorrect`, `OwnAnswerReturned` | `IInv`, `TypeOK`, `UndisturbedCallReturns` | |
| `PcbTableProofs` | `TableInvariant`, `TypeCorrect`, `EverybodyFound`, `NoTimeIsInherited` | `IInv`, `TypeOK`, `FoundByPid`, `NoTimeInherited` | |
| | `StacksNeverShared`, `SlotAlwaysFound` | `StacksOwned`, `SlotFound` | `EnoughStacks` |
| `KernelProofs` | `AllSound`, `Types` | `IInv`, `TypeOK` | `NoSignalsNoWaits` |
| | `NoReadyProcessIsLost`, `NoBlockedProcessIsLost` | `ReadyNotLost`, `BlockedNotLost` | `NoSignalsNoWaits` |
| | `NoSleeperIsLost`, `NoReaderIsLost` | `SleeperNotLost`, `ReaderNotLost` | `NoSignalsNoWaits` |
| | `NoRendezvousIsMissed`, `OnePlaceEach` | `NoMissedRendezvous`, `OneListEach` | `NoSignalsNoWaits` |
| | `TheDeadStayDead`, `PartnersStayBlocked` | `DeadStayDead`, `PartnersAreBlocked` | `NoSignalsNoWaits` |
| | `OnlyTimeWakes`, `ReadsCount` | `WokenByTime`, `WaitedReadCounts` | `NoSignalsNoWaits` |
| | `TheKeyboardHasOneOwner` | `KeyboardOwned` | `NoSignalsNoWaits`, no STOP |
| `KMemProofs` | `MemoryIsKept`, `TypeCorrect`, `BlocksNeverOverlap`, `RefusalsAreRight` | `IInv`, `TypeOK`, `BlocksDisjoint`, `RefusesOnlyWhenFull` | `NothingOverwritten` |

The other assumptions are those the modules name (`MaxPidAssumption`, `SizeAssumption`,
`CallsAssumption`, `MemoryAssumption`, `WorkloadAssumption`, ...); TLC evaluates each in a run. Each `IInv` was
checked by TLC as an invariant before it was proved: that of `KernelProofs`, with its unbounded quantifiers
confined to processes and descriptors and the sum in the place of `due`, for messages, ends, sleeps and the keyboard
together with 2 processes, and without the keyboard with 3.
`OnlyTimeWakes` is the other side of the run `LateKey`: that run refutes `WokenByTime` with a key struck for a read
that has ended, the one thing which the hypothesis excludes (`Typist = "patient"`), and the theorem says that nothing
else wakes a sleeper.

**Ready queue.** `IInv == TypeOK /\ Linked /\ QueuedAreReady`. None of the three is inductive alone.
`ready()` preserves the types only if the walk to the tail ends; `readyRemoval()` keeps the list proper
only if the two links are inverse, and it acts only on processes whose state is READY, so what it
finds in the links is about the queue only because queued processes, and by the discipline only those,
have that mark. The argument is about `Reach`: it is the least set that contains its start and is closed,
and one lemma per list operation says what `Reach` becomes: a process appended (`Appended`), the
head taken (`HeadTaken`), one unlinked (`Unlinked`). The hypotheses of the lemmas are named operators so
that they can be instantiated with primed links.

**Its refinement.** `Lists(link, h, s, n)` says that the function `s` from `1..n` lists the list at `h` in
order. Such a listing exists whenever `Linked` holds, and there is only one, so `QueueSeq`, the
refinement mapping, is it. Each action turns the listing into the one the abstract queue prescribes: one
longer at the end, without its head, or with one position taken out.

**System calls.** The invariant follows an undisturbed call through the static variables, the registers and
the PCB. Two facts carry it: `process = p` while `p` is in a window and uncut, so nobody
else can have written the statics since; and the words that pass through `%eax` tell a call number from
a result, so that the kernel's answer can be told to be for the request of `p` (`ArgumentsOwned`,
`HandedOver`, `HandedBack`).

**The process table.** The probe for a pid starts at `Hash(pid)`, which sends the last pid to slot 0 and
every other to its own slot, and wraps to 1, whereas `getPcb` does not wrap. So it has to be shown that
no process is ever put before its home. The slots a process passed on its way (`Passed`) hold no unused
slot and no two processes passed the same one (`Apart`). Suppose the probe for a free pid came to the last
slot, found it taken and wrapped: then all slots behind its home are taken. The process in any of them is at
home (`AllAtHome`): the first that is not would have its home among them too, whose pid is at home there, and
two pids share a home only in slot 0; or before them, and then both it and the process where the probe
started passed the slot before that. But the last slot is nobody's home (`Placement`). `Rounds` splits
the life of the table: up to the first wrap each pid is its slot, afterwards slot 0 is the idle process's and
only the last slot may be unused.
`EnoughStacks` is `Blocks >= PCBTABLE_SIZE`: stacks are of 4 or 5 KB, that of the idle process of 50,
and the memory before the hole alone is 640 KB less the kernel, for 32 slots. Without it both theorems are false:
with 3 `Blocks` for 5 slots TLC finds the `create` without memory that "The runs" describes.

**The kernel.** `NoSignalsNoWaits` leaves out the requests KILL and WAIT, lets nobody send to the idle process
or name the mark of a free slot, gives all sleeps but those of no time one length, and has a patient typist, or none.
It is the workload of the run `ipc`, of `keyboard`, of any sleeps of one length and of all that at once, for any
`MaxPid`. Each part of it is needed: the configurations `SignalReady`, `SignalSender`, `WaitChain`, `SleepUnequal` and
`LateKey` show processes lost, run after their death or woken too early, and a send to pid 0 goes through a null
argument list ("The runs"). `SleepUnequal` shows some hypothesis on the times to be needed; equality is the simplest
that makes sure of it. The times of the run `sleep`, 0, 3 and 6 with a slice of 4, are harmless for a reason of
their own and stay with TLC.

All links through `next` are one family of lists, that of the idle process being the ready queue (`Heads`, `On`); the
sleep list is a family of one (`NapHeads`). `ListsApart` says that nobody is linked to twice and only members link on; that
the lists are then disjoint (`ChainsDisjoint`), that each has an end (`ChainEnds`), and how one changes while the others
do not (`JoinBehind`, `LeaveInner`) is in `ListLemmas`.

A function called within a request meets processes that are in no list: the caller, and whoever a clean-up, the timer or
the keyboard driver is just waking. So the invariant of the functions is `Sound(k, out, aside)`, where `out` is the set of
these and `aside` says who reads and who sleeps, the two kinds of process that are off the lists of `next` for longer than
a request. Each function is a lemma that says what it does to the two: `ready()` takes its argument out of `out`,
unlinking puts it in, `sleep()` moves the caller from `out` to the sleepers, `wake()` back, and `next()` turns a caller
that is left over in the state RUNNING into a reader. Between two requests `out` is the running process (`IInv`).

* `Placed`: ready ones are READY; senders are BLOCKED, alive, with their arguments kept, and so is the receiver, which
  does not receive from them; receivers are BLOCKED, in no list, and receive from the living or from anybody; and
  everybody alive is one of these, in `out` or aside. Every part is needed: `send()` may deliver at once only because a
  receiver is in no list, and a process may be removed only when `cleanUpSenders()` and `cleanUpRecvers()` have left
  nobody blocked on it. That these loops end with nobody left is shown by their length, since every turn takes a member
  off a list of at most `MaxPid` (`SendersFail`), or goes on to a higher pid (`RecversFail`). That a dead process receives
  from nobody (`InOrder`) is why the clean-up, which looks at dead slots too, does not make one ready.
* `Console`: nobody has two descriptors for the keyboard and no two processes have one; the interrupt is enabled exactly
  while the keyboard is open and the end of the input has not come; the reader has a descriptor, room in its buffer
  and the interrupt enabled. A key or a call that fills the buffer and ends the line makes the reader
  ready twice, and `ReadyAgain` says that the second time changes no more than a back link, as the process is the last of the
  queue by then.
* `Nap`: there is an assignment `due` of times that agrees with the differences along the list, and no sleep that
  begins is shorter than any. So the walk of `addToSleepList` goes to the end (`PlaceIsLast`), and the one branch of
  it that trusts a back link, which is stale for the head (`c/sleep.c:119`), is never taken. `due` is part of the invariant as
  something that exists, since a sum along a list is an induction. The walk itself is a recursive function, which
  `WalkExists` shows to exist as the list ends. `tick()` takes the time of one slice from the head and so from everybody;
  who is woken while overslept leaves what is too much to the next (`WakeNaps`).

`KeyboardOwned` needs that no process stops, since a process that stops keeps the keyboard open (`c/disp.c:449`); everything
else holds with ends. The two action properties follow from the lemmas by action: no request takes another process off the
sleep list (`AsleepStay`), and the key that ends a read sets its result (`ReadsReturn`).

**The allocator.** The invariant: the links lead forward and are the order of the addresses
(`InOrder`); the blocks, free or not, cut up the memory between them (`Apart`, `Covered`), but for the unit
before the hole; no two free ones are neighbours (`Merged`); what is handed out is linked to nothing.
The walks of the model, `FirstFit`, `Before`, `After` and `FreeBlocks`, are recursive functions, of
which nothing is known until they are shown to exist. `WalkExists` does so for any links that lead forward,
by exhibiting the function: what the walk returns at the first block, in the set a walk reaches, where it stops. What
they compute follows by descent along the list (`Downwards`). Then each operation is one lemma on the
list, as a set with its neighbours (`InsertKeeps`, `MergeKeeps`, `TakeFront`, `TakeWhole`), and
one on the layout (`SplitLayout`, `WholeLayout`, `JoinLayout`, `SameLayout`). `kfree` passes through a state where
only one block may have a free neighbour behind it (`MergedBut`).
The theorems do not say that no request fits a block exactly: with stacks of equal size that is what happens when
one is freed and asked for again. They hold of any behaviour in which no exact fit has written a header over what follows
the block (`NothingOverwritten`, by `Harmless`), that is, as all of them are safety, up to the first request that does;
`ExactFit.cfg` shows what becomes of them then. `MemoryAssumption` asks for a hole of more than one unit,
after which there is memory, and for less memory than an address can name; the hole of `h/i386.h` is
from 640 KB to 1624 KB.

**What remains with TLC.** Liveness, as `NoStarvation`, `ReadyRuns` and `SleepersWake`, and what is enabled. Of
`KernelProperties`: waiting and signals (`WaiterNotLost`, `WokenByDeath`, `WalksEnd`, `SignalledWillRun`), sleeps of different lengths,
and the order of the queues (`NoOvertaking`) and the refinements `ImplementsRendezvous`, `ImplementsTimers` and
`ImplementsTerminal`, whose mappings read a list as a sequence, a sum or a stream. All of `Programs`: `Forward` is a RECURSIVE
operator, which the provers cannot work with, as they cannot with induction over an operator. (Where the proofs need an
induction, it is the existence of a least number in a set, `Least` of `NaturalLemmas`.) `ReadyQueue` rests on a discipline,
that nobody queued is queued again; that the kernel keeps it, but for the second `ready()` in a row of the keyboard
driver, is `OnePlaceEach` with `NoReadyProcessIsLost` (and `ReadyAgain` for the exception); that it does with WAIT is
`OneListEach` and `ReadyNotLost` in the run `mixed`, and `SignalReady.cfg` shows KILL breaking it.

## Not modelled

* SIGRETURN and the trampoline: no handler that returns can be installed. PUTS: output only.
* The contents of stacks and of registers other than `%eax` and `%edx`; the time of an interrupt
  within the kernel does not exist, as it runs with interrupts disabled.
* The table of scan codes (`c/scancodesToAscii.c`), a pure look-up with four flags: the driver takes
  its results as keys. `c/user.c` but for its two test processes: the rest is empty functions, comments and
  handlers that print.
* The memory tests: fixed sequences of `kmalloc` and `kfree`, which run `kmem` does in every order.
* Boot loader, decompression, hardware set-up, formatted printing and the character tables: code the
  system came with, without a state the kernel's processes share.
* Sleep times of 2^31 and more, which become negative (`c/sleep.c:36`), and the read of address 0 in
  `tick` (`c/sleep.c:147`).

## Plan

1. WAIT of one level in the workload of `KernelProofs`, for `WaiterNotLost`, `WokenByDeath` and `WalksEnd`: one more kind of process
   aside.
2. The ready queue of the kernel as a sequence, by the listings of `FifoProofs`, for `NoOvertaking` and
   `ImplementsRendezvous`; `due` as the mapping of `ImplementsTimers`.
3. The scan codes as a function in front of `KbdInt`.

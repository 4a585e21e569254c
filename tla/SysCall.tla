------------------------------ MODULE SysCall ------------------------------
(***************************************************************************)
(* The system call stubs (c/syscall.c) and the context switch (c/ctsw.c),  *)
(* instruction by instruction.  A stub runs in user mode with interrupts   *)
(* enabled, and it hands the call over through three static variables that *)
(* all processes share.  The kernel itself is abstracted to what a caller  *)
(* sees of it: whether a request has a result, lets others run, blocks.    *)
(***************************************************************************)
EXTENDS Integers, TLC

CONSTANTS
    Proc,       \* the processes, besides the idle one
    Idle,       \* the idle process
    Calls       \* the stubs the processes call

(* A stub passes a call number and the address of its own arguments, and   *)
(* returns what the kernel leaves, unless it is void.                      *)
Stub(number, returns) == [number |-> number, returns |-> returns]

ProcessStubs ==
    [syscreate |-> Stub("CREATE", TRUE),  sysyield |-> Stub("YIELD", FALSE),
     sysstop |-> Stub("STOP", FALSE),     sysputs |-> Stub("PUTS", FALSE),
     sysgetpid |-> Stub("GETPID", TRUE),  syskill |-> Stub("KILL", TRUE)]

BlockingStubs ==
    [syssend |-> Stub("SEND", TRUE),      sysrecv |-> Stub("RECV", TRUE),
     syssleep |-> Stub("SLEEP", TRUE),    syswait |-> Stub("WAIT", TRUE)]

DeviceStubs ==
    [sysopen |-> Stub("DV_OPEN", TRUE),   sysclose |-> Stub("DV_CLOSE", TRUE),
     syswrite |-> Stub("DV_WRITE", TRUE), sysread |-> Stub("DV_READ", TRUE),
     sysioctl |-> Stub("DV_IOCTL", TRUE), sysgetcputimes |-> Stub("GETCPUTIMES", TRUE)]

SignalStubs ==
    [syssighandler |-> Stub("SIGHANDLE", TRUE), syssigreturn |-> Stub("SIGRETURN", FALSE)]

Stubs == [c \in DOMAIN ProcessStubs \cup DOMAIN BlockingStubs
               \cup DOMAIN DeviceStubs \cup DOMAIN SignalStubs |->
            CASE c \in DOMAIN ProcessStubs -> ProcessStubs[c]
              [] c \in DOMAIN BlockingStubs -> BlockingStubs[c]
              [] c \in DOMAIN DeviceStubs -> DeviceStubs[c]
              [] c \in DOMAIN SignalStubs -> SignalStubs[c]]

ASSUME CallsAssumption ==
    /\ Calls \subseteq DOMAIN Stubs \ {"sysstop", "syssigreturn"}
    /\ Idle \notin Proc

(* What dispatch() does with a request: whether it may put the caller to   *)
(* wait for an answer, whether it calls next(), and whether it stores a    *)
(* result in cpu_state.eax.                                                *)
Blocks(number) == number \in {"SEND", "RECV", "SLEEP", "WAIT", "DV_READ"}
CallsNext(number) ==
    number \in {"YIELD", "SEND", "RECV", "SLEEP", "DV_OPEN", "DV_CLOSE", "DV_WRITE",
                "DV_READ", "DV_IOCTL"}
Answers(number) == number \notin {"YIELD", "PUTS"}

(* The words kept in registers and variables.  A result stands for what    *)
(* the kernel did: the request it found and whose arguments it read.       *)
Zero == <<"zero">>
Number(n) == <<"number", n>>
Result(p, n, owner) == <<"result", p, n, owner>>

IsNumber(w) == w[1] = "number"

-----------------------------------------------------------------------------
VARIABLES
    call_number, args, ret_val,     \* the static variables of syscall.c
    eax, edx,                       \* the registers, as each process finds them
    cpu_eax, arguments,             \* the fields cpu_state.eax and arguments of a PCB
    pending,                        \* the request a blocked process waits on, or Zero
    process,                        \* the process that runs
    pc,                             \* the next instruction of each process
    call,                           \* the stub each process called last
    got,                            \* what that call returned
    cut                             \* whether it was interrupted where it matters

statics == <<call_number, args, ret_val>>
saved == <<cpu_eax, arguments, pending>>
vars == <<statics, eax, edx, saved, process, pc, call, got, cut>>

Slot == Proc \cup {Idle}

Init ==
    /\ call_number = Zero /\ args = Idle /\ ret_val = Zero
    /\ eax = [p \in Slot |-> Zero] /\ edx = [p \in Slot |-> Idle]
    /\ cpu_eax = [p \in Slot |-> Zero] /\ arguments = [p \in Slot |-> Idle]
    /\ pending = [p \in Slot |-> Zero]
    /\ process \in Proc
    /\ pc = [p \in Slot |-> "out"]
    /\ call = [p \in Slot |-> "none"]
    /\ got = [p \in Slot |-> Zero]
    /\ cut = [p \in Slot |-> FALSE]

(* The running process executes the instruction `at' and goes on to `to'.  *)
Executes(at, to) ==
    /\ process # Idle /\ pc[process] = at
    /\ pc' = [pc EXCEPT ![process] = to]

-----------------------------------------------------------------------------
(* syscall(), up to the trap.                                              *)
Enter(c) ==
    /\ Executes("out", "va_start")
    /\ call' = [call EXCEPT ![process] = c]
    /\ cut' = [cut EXCEPT ![process] = FALSE]
    /\ got' = [got EXCEPT ![process] = Zero]
    /\ UNCHANGED <<statics, eax, edx, saved, process>>

VaStart ==
    /\ Executes("va_start", "number")
    /\ args' = process
    /\ UNCHANGED <<call_number, ret_val, eax, edx, saved, process, call, got, cut>>

SetNumber ==
    /\ Executes("number", "clear")
    /\ call_number' = Number(Stubs[call[process]].number)
    /\ UNCHANGED <<args, ret_val, eax, edx, saved, process, call, got, cut>>

ClearResult ==
    /\ Executes("clear", "load number")
    /\ ret_val' = Zero
    /\ UNCHANGED <<call_number, args, eax, edx, saved, process, call, got, cut>>

LoadNumber ==
    /\ Executes("load number", "load args")
    /\ eax' = [eax EXCEPT ![process] = call_number]
    /\ UNCHANGED <<statics, edx, saved, process, call, got, cut>>

LoadArgs ==
    /\ Executes("load args", "int")
    /\ edx' = [edx EXCEPT ![process] = args]
    /\ UNCHANGED <<statics, eax, saved, process, call, got, cut>>

(* and from the trap to the return.                                        *)
StoreResult ==
    /\ Executes("store result", "load result")
    /\ ret_val' = eax[process]
    /\ UNCHANGED <<call_number, args, eax, edx, saved, process, call, got, cut>>

LoadResult ==
    /\ Executes("load result", "ret")
    /\ eax' = [eax EXCEPT ![process] = ret_val]
    /\ UNCHANGED <<statics, edx, saved, process, call, got, cut>>

Return ==
    /\ Executes("ret", "out")
    /\ got' = [got EXCEPT ![process] = IF Stubs[call[process]].returns THEN eax[process] ELSE Zero]
    /\ UNCHANGED <<statics, eax, edx, saved, process, call, cut>>

-----------------------------------------------------------------------------
(* Faulty variants, one slip each, that the properties must tell apart.    *)

\* a blocked process may be run
CandidatesBlind(blocked) == Proc

\* the argument pointer is kept once for all processes
KeptOnce(p) == [q \in Slot |-> edx[p]]

-----------------------------------------------------------------------------
(* contextswitch() restores all registers of q from its stack and then     *)
(* loads %eax from its PCB, whatever it was switched away for.             *)
Restored(q, results) == [eax EXCEPT ![q] = results[q]]

(* The entry of a system call keeps the argument pointer with the caller.  *)
Kept(p) == [arguments EXCEPT ![p] = edx[p]]

(* The kernel may answer some of those that are blocked, from the          *)
(* arguments kept for them.                                                *)
Answered(woken) ==
    [q \in Slot |-> IF q \in woken THEN Result(q, pending[q][2], arguments[q]) ELSE cpu_eax[q]]

Blocked == {p \in Proc : pending[p] # Zero}

(* process = next(): any process that is not blocked, else the idle one.   *)
Candidates(blocked) == IF Proc \subseteq blocked THEN {Idle} ELSE Proc \ blocked

SwitchTo(q, results) ==
    /\ process' = q
    /\ cpu_eax' = results
    /\ eax' = Restored(q, results)

(* int $41: the call number in %eax and the arguments at %edx are served.  *)
(* A result in %eax is no call number, and dispatch() switches back.  A    *)
(* caller that must wait gets its answer when another enters the kernel.   *)
Serve(number, woken) ==
    LET p == process
        mine == Result(p, number, Kept(p)[p])
        others == Blocked \ woken
        results == IF Answers(number) THEN [Answered(woken) EXCEPT ![p] = mine] ELSE Answered(woken)
        Freed == [q \in Slot |-> IF q \in woken THEN Zero ELSE pending[q]]
    IN  \/ /\ pending' = Freed
           /\ \E q \in IF CallsNext(number) THEN Candidates(others) ELSE {p} : SwitchTo(q, results)
        \/ /\ Blocks(number)
           /\ pending' = [Freed EXCEPT ![p] = Number(number)]
           /\ \E q \in Candidates(others \cup {p}) :
                SwitchTo(q, [Answered(woken) EXCEPT ![p] = Zero])

Trap ==
    /\ Executes("int", "store result")
    /\ arguments' = Kept(process)
    /\ IF IsNumber(eax[process])
       THEN \E woken \in SUBSET Blocked : Serve(eax[process][2], woken)
       ELSE SwitchTo(process, cpu_eax) /\ UNCHANGED pending
    /\ UNCHANGED <<statics, edx, call, got, cut>>

(* The timer or the keyboard interrupts, between any two instructions.     *)
Windows == {"number", "clear", "load number", "load args", "int", "load result"}

Interrupt ==
    /\ cut' = [cut EXCEPT ![process] = @ \/ pc[process] \in Windows]
    /\ \E woken \in SUBSET Blocked :
        /\ pending' = [q \in Slot |-> IF q \in woken THEN Zero ELSE pending[q]]
        /\ \E q \in Candidates(Blocked \ woken) : SwitchTo(q, Answered(woken))
    /\ UNCHANGED <<statics, edx, arguments, pc, call, got>>

Next ==
    \/ \E c \in Calls : Enter(c)
    \/ VaStart \/ SetNumber \/ ClearResult \/ LoadNumber \/ LoadArgs
    \/ Trap
    \/ StoreResult \/ LoadResult \/ Return
    \/ Interrupt

Spec == Init /\ [][Next]_vars

-----------------------------------------------------------------------------
(* The values registers, variables and PCB fields can have.                *)
Word == {Zero} \cup {Number(Stubs[c].number) : c \in Calls}
          \cup {Result(p, Stubs[c].number, q) : p \in Proc, c \in Calls, q \in Proc}

TypeOK ==
    /\ call_number \in Word /\ ret_val \in Word /\ args \in Slot
    /\ eax \in [Slot -> Word] /\ edx \in [Slot -> Slot]
    /\ cpu_eax \in [Slot -> Word] /\ arguments \in [Slot -> Slot]
    /\ pending \in [Slot -> Word] /\ got \in [Slot -> Word]
    /\ process \in Slot /\ process \notin Blocked

(* What a finished call of a stub with a result should have returned.      *)
OwnAnswer(p) == Result(p, Stubs[call[p]].number, p)

Finished(p) == pc[p] = "out" /\ call[p] \in Calls /\ Stubs[call[p]].returns

(* c/syscall.c:20: a value in %eax is passed back.  A call that is not     *)
(* interrupted between va_start and int, nor between storing and loading   *)
(* ret_val, returns the answer to itself, whatever other processes called, *)
(* were cut off in or were answered while it was in the kernel, and        *)
(* wherever else it was interrupted.                                       *)
UndisturbedCallReturns == \A p \in Proc : Finished(p) /\ ~cut[p] => got[p] = OwnAnswer(p)

(* c/syscall.c:20, of every call.                                          *)
CallReturns == \A p \in Proc : Finished(p) => got[p] = OwnAnswer(p)

(* The processes are interchangeable.                                      *)
Symmetry == Permutations(Proc)
=============================================================================

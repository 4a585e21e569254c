------------------------------ MODULE Programs ------------------------------
(***************************************************************************)
(* The kernel of module Dispatch with programs on it.  The first process   *)
(* runs the root function of a test, or the login, which runs the shell.   *)
(*                                                                         *)
(* A system call is one step, as in Dispatch; module SysCall is about what *)
(* may happen within it.  What a program does between two calls is taken   *)
(* together with the second one if it touches only variables of its own.   *)
(***************************************************************************)
EXTENDS KernelProperties, TestPrograms, SessionPrograms, CommandLine

CONSTANTS
    Roots,      \* the functions the first process may run
    Lines       \* the lines that are typed

VARIABLES
    at,         \* per process: its function, and the position in it
    static,     \* the static variables of the programs
    local       \* per process: the variables of its function

pvars == <<vars, at, static, local>>

Code == [testIpc1 |-> testIpc1, testSend1 |-> testSend1, testRecv1 |-> testRecv1,
         testIpc2 |-> testIpc2, testSend2 |-> testSend2, testRecv2 |-> testRecv2,
         testIpc2p3 |-> testIpc2p3,
         testIpc3 |-> testIpc3, testIpc3p0 |-> testIpc3p0, testIpc3p1 |-> testIpc3p1,
         testIpc4 |-> testIpc4, testIpc4p0 |-> testIpc4p0, testIpc4p1 |-> testIpc4p1,
         testIpc4p2 |-> testIpc4p2, testIpc4p3 |-> testIpc4p3, testIpc4p4 |-> testIpc4p4,
         testIpc5 |-> testIpc5, testIpc5p0 |-> testIpc5p0, testIpc5p1 |-> testIpc5p1,
         testIpc6 |-> testIpc6, testIpc6p0 |-> testIpc6p0, testIpc6p1 |-> testIpc6p1,
         testIpc6p2 |-> testIpc6p2,
         testIpc7 |-> testIpc7, testIpc7p0 |-> testIpc7p0, testIpc7p1 |-> testIpc7p1,
         testIpc7p2 |-> testIpc7p2, testIpc7p3 |-> testIpc7p3,
         testIpc8 |-> testIpc8, testIpc8p0 |-> testIpc8p0, testIpc8p1 |-> testIpc8p1,
         testIpc9 |-> testIpc9, testIpc9p0 |-> testIpc9p0,
         testIpc10 |-> testIpc10, testIpc10p0 |-> testIpc10p0, testIpc10p1 |-> testIpc10p1,
         testDev0 |-> testDev0, testDev1 |-> testDev1, testDev2 |-> testDev2,
         testDev3 |-> testDev3, testDev4 |-> testDev4, testDev5 |-> testDev5,
         testDev6 |-> testDev6, testDev7 |-> testDev7, testDev8 |-> testDev8,
         testGCT_root |-> testGCT_root, testGCT_pc |-> testGCT_pc,
         waitTest |-> waitTest, waiter |-> waiter, runner |-> runner,
         mainProgram |-> mainProgram, shell |-> shell, prog_a |-> prog_a, prog_t |-> prog_t]

ASSUME RootsAssumption == Roots \subseteq DOMAIN Code

(* The static variables are 0 and -1 as the files have them, or become     *)
(* -1 by initPids; a variable of a function is set before it is used.      *)
Statics == IpcPids \cup MsgPids
             \cup {"senderPid", "recverPid", "rootPid", "pmVal", "a_progPid"}
Locals == {"fd", "pids[0]", "pids[1]", "pids[2]", "pids[3]", "toKill", "shellPid", "pid",
           "funcPid", "ticks", "requesterPid", "ubuf", "pwbuf", "line"}
Fresh == [x \in Locals |-> 0]

(* At the end of a function its process runs into sysstop.                 *)
Instruction(program, n) ==
    IF n <= Len(Code[program]) THEN Code[program][n] ELSE sysstop

-----------------------------------------------------------------------------
(* What an operand is for process p, whose variables are v.                *)
Value(p, v, arg) ==
    CASE arg.kind = "literal" -> arg.is
      [] arg.kind = "static" -> static[arg.is]
      [] arg.kind = "local" -> v[arg.is]
      [] arg.kind = "slices" -> TIME_SLICE * v[arg.is]
      [] arg.kind = "parameter" -> Atoi(ParseInput(v[arg.is].text).pm)

(* strncmp looks at the beginnings only.                                   *)
Begins(text, word) == text # <<>> /\ text[1] = word

UserKnown(v) ==
    /\ Begins(v.ubuf.text, "cs415") /\ Begins(v.pwbuf.text, "EveryonegetsanA")
    /\ ~v.ubuf.bkgd /\ ~v.pwbuf.bkgd

Holds(p, v, condition) ==
    CASE condition = "r > 0" -> eax[p] > 0
      [] condition = "r >= 0" -> eax[p] >= 0
      [] condition = "r # 0" -> eax[p] # 0
      [] condition = "fd >= 0" -> v.fd >= 0
      [] condition = "the user is known" -> UserKnown(v)
      [] condition = "pmVal # pid" -> static["pmVal"] # v.pid
      [] condition = "no & in the line" -> ~v.line.bkgd

(* The command is compared with each name as a whole.                      *)
Target(i, text) ==
    LET cmd == ParseInput(text).cmd
    IN  IF Len(cmd) = 1 /\ cmd[1] \in DOMAIN i.targets THEN i.targets[cmd[1]] ELSE i.otherwise

(* Where p has come, and with which variables, when it does something      *)
(* others can notice.                                                      *)
RECURSIVE Forward(_, _)
Forward(p, s) ==
    LET i == Instruction(at[p].program, s.line)
        Then(v) == Forward(p, [line |-> s.line + 1, vars |-> v])
        Jump(n) == Forward(p, [s EXCEPT !.line = n])
    IN  CASE i.op = "keep" -> Then([s.vars EXCEPT ![i.var] = eax[p]])
          [] i.op = "cropInput" ->
               Then([s.vars EXCEPT ![i.var] = CropInput(SubSeq(kbd.chars, 1, eax[p]))])
          [] i.op = "expect" -> Then(s.vars)
          [] i.op = "provided" ->
               IF Holds(p, s.vars, i.condition) THEN Then(s.vars) ELSE Jump(i.target)
          [] i.op = "goto" -> Jump(i.target)
          [] i.op = "returns" ->
               Forward(p, [line |-> i.target,
                           vars |-> [x \in Locals |-> IF x \in i.kept THEN s.vars[x] ELSE 0]])
          [] i.op = "on command" -> Jump(Target(i, s.vars.line.text))
          [] i.op \in {"await", "await spinning"} ->
               IF static[i.var] # -1 THEN Then(s.vars) ELSE s
          [] OTHER -> s

Reached(p) == Forward(p, [line |-> at[p].line, vars |-> local[p]])
Pending(p) == Instruction(at[p].program, Reached(p).line)

-----------------------------------------------------------------------------
PInit ==
    /\ Init
    /\ \E program \in Roots : at = [p \in Slot |-> [program |-> program, line |-> 1]]
    /\ static = [x \in Statics |-> 0]
    /\ local = [p \in Slot |-> Fresh]

(* The running process goes on behind its step or stays where it is.       *)
MovesTo(s, n) ==
    /\ at' = [at EXCEPT ![process].line = n]
    /\ local' = [local EXCEPT ![process] = s.vars]
    /\ UNCHANGED static

Goes(s) == MovesTo(s, s.line + 1)

Creates(i, s) ==
    /\ i.op = "syscreate" /\ CreateRequest
    /\ at' = [at EXCEPT ![process].line = s.line + 1,
                        ![lastPID] = [program |-> i.program, line |-> 1]]
    /\ local' = [local EXCEPT ![process] = s.vars, ![lastPID] = Fresh]
    /\ UNCHANGED static

(* The time a message says: as transferBuffer does not copy the message,   *)
(* it may be any, such as the time given up by a call and a longer one.    *)
Garbage == {0, 20}

(* A call, or a number of calls of sysyield.                               *)
Calls(i, s) ==
    LET arg == Value(process, s.vars, i.arg)
    IN  \/ i.op = "sysgetpid" /\ GetPidRequest /\ Goes(s)
        \/ i.op = "syskill" /\ KillRequest(arg, i.sig) /\ Goes(s)
        \/ i.op = "syssend" /\ SendRequest(arg, i.buflen) /\ Goes(s)
        \/ i.op = "sysrecv" /\ RecvRequest(arg, i.buflen) /\ Goes(s)
        \/ i.op = "syssleep" /\ SleepRequest(arg) /\ Goes(s)
        \/ i.op = "syssleep received" /\ (\E time \in Garbage : SleepRequest(time)) /\ Goes(s)
        \/ i.op = "syswait" /\ WaitRequest(arg) /\ Goes(s)
        \/ i.op = "syssighandler" /\ SigHandleRequest(i.sig, i.newHandler, i.oldHandler)
           /\ Goes(s)
        \/ i.op = "sysopen" /\ OpenRequest(i.device) /\ Goes(s)
        \/ i.op = "sysclose" /\ CloseRequest(arg) /\ Goes(s)
        \/ i.op = "syswrite" /\ WriteRequest(arg, LineSize) /\ Goes(s)
        \/ i.op = "sysread" /\ ReadRequest(arg, i.buflen, i.buflen) /\ Goes(s)
        \/ i.op = "sysioctl" /\ IoctlRequest(arg, <<i.command, i.char>>) /\ Goes(s)
        \/ i.op \in {"yields", "yield forever", "await"} /\ YieldRequest /\ MovesTo(s, s.line)
        \/ i.op = "yields" /\ YieldRequest /\ Goes(s)

(* An assignment that others can notice, or that notices others.           *)
Assigns(i, s) ==
    LET Static_(x, v) == static' = [static EXCEPT ![x] = v]
        ByStore ==
            \/ i.op = "publish" /\ Static_(i.var, eax[process])
            \/ i.op = "store" /\ Static_(i.var, Value(process, s.vars, i.arg))
            \/ /\ i.op = "initPids"
               /\ static' = [x \in Statics |-> IF x \in IpcPids THEN -1 ELSE static[x]]
    IN  /\ fault = "none" /\ ~Doomed(process)
        /\ \/ /\ ByStore
              /\ at' = [at EXCEPT ![process].line = s.line + 1]
              /\ local' = [local EXCEPT ![process] = s.vars]
           \/ /\ i.op = "load"
              /\ Goes([s EXCEPT !.vars[i.var] = Value(process, s.vars, i.arg)])
        /\ UNCHANGED vars

Stops(i) ==
    /\ i.op = "sysstop" \/ Doomed(process)
    /\ StopRequest
    /\ local' = [local EXCEPT ![process] = Fresh]
    /\ UNCHANGED <<at, static>>

Step(p) ==
    /\ process = p
    /\ \E s \in {Reached(p)} :
        LET i == Instruction(at[p].program, s.line)
        IN  Creates(i, s) \/ Calls(i, s) \/ Assigns(i, s) \/ Stops(i)

Interrupt == TimerInt /\ UNCHANGED <<at, static, local>>

(* Somebody types one of the lines while a read waits.                     *)
Types(key) ==
    /\ kbd.p \in Readers
    /\ \E line \in Lines :
        /\ Len(kbd.chars) < Len(line)
        /\ Append(kbd.chars, key) = SubSeq(line, 1, Len(kbd.chars) + 1)
    /\ KbdInt(key)
    /\ UNCHANGED <<at, static, local>>

PNext ==
    \/ \E p \in Proc : Step(p)
    \/ Interrupt
    \/ \E key \in Keys : Types(key)

PSpec == PInit /\ [][PNext]_pvars

-----------------------------------------------------------------------------
(* The instruction at which a process is, before its own variables and     *)
(* tests are gone through.                                                 *)
Current(p) == Instruction(at[p].program, at[p].line)

(* The tests find what they expect, on every schedule: the results of      *)
(* sends and receives with a bad buffer, to oneself and to nobody, between *)
(* processes that wait for each other's pids (testIpc1), and of writing to *)
(* the keyboard (testDev1).                                                *)
TestsPass ==
    process # Idle /\ ~Doomed(process) /\ Current(process).op = "expect"
        => eax[process] \in Current(process).results

(* The login gives the keyboard and the processor to the shell and does    *)
(* not ask for a user before that shell has stopped.                       *)
LoginWaits ==
    (\E p \in LiveProc : at[p].program = "shell")
        => at[1].program = "mainProgram" /\ at[1].line \in 13..16

(* Login and shell do not check what they get from sysopen, and open the   *)
(* one keyboard in turns; whenever one of them reads or sets the keyboard, *)
(* it does so by a descriptor that is open.                                *)
ReadsAreOfOpenFiles ==
    (/\ process # Idle /\ ~Doomed(process)
     /\ at[process].program \in {"mainProgram", "shell"}
     /\ Pending(process).op \in {"sysread", "sysioctl"})
        => ValidFd(Kernel, process, Reached(process).vars.fd)

(* A process depends on others if it is blocked or waits for one that has  *)
(* to stop, or for one that has to publish its pid; it moves if it can go  *)
(* on by itself, by time, by the stop signal, or when somebody types.      *)
Depends(p) ==
    \/ state[p] \in {"BLOCKED", "WAITING"}
    \/ state[p] \in {"READY", "RUNNING"} /\ Pending(p).op \in {"await", "await spinning"}
Moves(p) ==
    \/ p \in Readers \cup Asleep
    \/ p \in Queued \cup {process}
       /\ (Doomed(p) \/ Pending(p).op \notin {"await", "await spinning", "yield forever", "spin"})

(* No process of the tests, of user.c or of a session is left behind: when *)
(* everybody who can has come to an end, to the last loop of a test or to  *)
(* a read, nobody is blocked on a partner any more, or waits for one.      *)
NobodyLeftBehind ==
    (\E p \in LiveProc : Depends(p)) => \E p \in LiveProc : Moves(p)
=============================================================================

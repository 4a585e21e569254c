------------------------------ MODULE UserCode ------------------------------
(***************************************************************************)
(* The notation for the programs that run on the kernel: a C function is   *)
(* the sequence of its system calls (the stubs of c/syscall.c), of its     *)
(* assignments to variables that others read, and of the tests that decide *)
(* what is called next.  Printing is left out.                             *)
(***************************************************************************)
EXTENDS Integers, Sequences

(* Operands: a number, a static variable, which all programs share, and a  *)
(* variable of the function.                                               *)
Lit(n) == [kind |-> "literal", is |-> n]
Static(x) == [kind |-> "static", is |-> x]
Local(x) == [kind |-> "local", is |-> x]

(* A number of time slices, which is in a variable of the function.        *)
Slices(x) == [kind |-> "slices", is |-> x]

-----------------------------------------------------------------------------
(* The system calls.  buflen is the length of the buffer, and -1 also when *)
(* the address of the buffer is null.                                      *)
sysgetpid == [op |-> "sysgetpid"]
sysyield == [op |-> "sysyield"]
sysstop == [op |-> "sysstop"]
syscreate(program) == [op |-> "syscreate", program |-> program]
syskill(target, sig) == [op |-> "syskill", arg |-> target, sig |-> sig]
syssend(dest, buflen) == [op |-> "syssend", arg |-> dest, buflen |-> buflen]
sysrecv(from, buflen) == [op |-> "sysrecv", arg |-> from, buflen |-> buflen]
syssleep(milliseconds) == [op |-> "syssleep", arg |-> milliseconds]
syssleepReceived == [op |-> "syssleep received"]    \* for the time a message says
syswait(target) == [op |-> "syswait", arg |-> target]
syssighandler(sig, newHandler, oldHandler) ==
    [op |-> "syssighandler", sig |-> sig, newHandler |-> newHandler, oldHandler |-> oldHandler]
sysopen(device) == [op |-> "sysopen", device |-> device]
sysclose(fd) == [op |-> "sysclose", arg |-> fd]
syswrite(fd) == [op |-> "syswrite", arg |-> fd]
sysread(fd, buflen) == [op |-> "sysread", arg |-> fd, buflen |-> buflen]
sysioctl(fd, command, char) == [op |-> "sysioctl", arg |-> fd, command |-> command, char |-> char]

-----------------------------------------------------------------------------
(* x = the result of the last call, for a static and for a local variable; *)
(* x = y for a static x, and for a local x and a static y.                 *)
Publish(x) == [op |-> "publish", var |-> x]
Keep(x) == [op |-> "keep", var |-> x]
Store(x, y) == [op |-> "store", var |-> x, arg |-> y]
Load(x, y) == [op |-> "load", var |-> x, arg |-> y]

(* while (x == -1) sysyield();                                             *)
AwaitYielding(x) == [op |-> "await", var |-> x]

(* while (x == -1);                                                        *)
AwaitSpinning(x) == [op |-> "await spinning", var |-> x]

(* A counted loop of calls of sysyield, with the count left open; the same *)
(* without an end; and for (;;);                                           *)
Yields == [op |-> "yields"]
YieldForever == [op |-> "yield forever"]
Spin == [op |-> "spin"]

(* The program takes a result outside the set for an error.                *)
Expect(results) == [op |-> "expect", results |-> results]

(* Go on here if the condition holds, and elsewhere, by position, if not.  *)
Provided(condition, target) == [op |-> "provided", condition |-> condition, target |-> target]
Goto(target) == [op |-> "goto", target |-> target]

(* The same, when the variables that others than these name are left.      *)
Returns(kept, target) == [op |-> "returns", kept |-> kept, target |-> target]
=============================================================================

-------------------------- MODULE SessionPrograms --------------------------
(***************************************************************************)
(* The programs the kernel starts with: the login (c/login.c), the shell   *)
(* (c/shell.c) and what it runs (c/program.c).                             *)
(***************************************************************************)
EXTENDS UserCode

LineSize == 7   \* the buffers of login and shell, in symbols instead of 32 bytes

(* cropInput on the line just read, the result kept under a name.          *)
CropLine(x) == [op |-> "cropInput", var |-> x]

(* The shell goes on according to the command in its line, and what that   *)
(* has for a parameter.                                                    *)
OnCommand(targets, otherwise) ==
    [op |-> "on command", targets |-> targets, otherwise |-> otherwise]
Parameter == [kind |-> "parameter", is |-> "line"]

-----------------------------------------------------------------------------
(* mainProgram, with startRoutine in 1 to 11, or up to 10 and 17.          *)
mainProgram ==
    <<sysopen(1), Keep("fd"),
      sysread(Local("fd"), LineSize), Provided("r > 0", 17), CropLine("ubuf"),
      sysioctl(Local("fd"), "KBD_IOCTL_OFF", "none"),
      sysread(Local("fd"), LineSize), Provided("r > 0", 17), CropLine("pwbuf"),
      Provided("the user is known", 17),
      sysclose(Local("fd")), Returns({}, 13),
      syscreate("shell"), Keep("shellPid"), syswait(Local("shellPid")), Returns({}, 1),
      sysclose(Local("fd")), Returns({}, 1)>>

(* shell, with handleShellCmd from 9 on: `ex' at 11, `k' at 13, `a' at 17  *)
(* and `t' at 24.  `ps' only prints, and so does what is no command.       *)
shell ==
    <<sysgetpid, Keep("pid"), sysopen(1), Keep("fd"),
      sysread(Local("fd"), LineSize), Provided("r # 0", 11), Provided("r > 0", 5),
      CropLine("line"),
      Store("a_progPid", Local("pid")),
      OnCommand([ex |-> 11, k |-> 13, a |-> 17, t |-> 24], 25),
      sysclose(Local("fd")), sysstop,
      Store("pmVal", Parameter), Provided("pmVal # pid", 11),
      syskill(Static("pmVal"), 31), Goto(25),
      Store("pmVal", Parameter), syssighandler(15, "alarmHandler", "in memory"),
      syscreate("prog_a"), Keep("funcPid"),
      Provided("no & in the line", 25), syswait(Local("funcPid")), Goto(25),
      syscreate("prog_t"), Returns({"pid", "fd"}, 5)>>

prog_a ==
    <<Load("ticks", Static("pmVal")), Load("requesterPid", Static("a_progPid")),
      syssleep(Slices("ticks")), syskill(Local("requesterPid"), 15)>>

(* Its 10 seconds stand for a time that is longer than the other one.      *)
prog_t == <<syssleep(Lit(3)), Goto(1)>>
=============================================================================

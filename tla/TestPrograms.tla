---------------------------- MODULE TestPrograms ----------------------------
(***************************************************************************)
(* The test programs that come with the kernel: message passing            *)
(* (c/ipcTests.c and c/msgTests.c), devices (c/deviceTests.c), sleeping    *)
(* and CPU times (c/getcpuTests.c), and the processes of c/user.c.  Each   *)
(* root function creates the other processes of its test.                  *)
(***************************************************************************)
EXTENDS UserCode, Messages

NoSuchPid == Lit(MaxPid + 1)

(* Times are counted in seconds, and so are the timer interrupts.          *)
Seconds(n) == Lit(n)

(* One static array of each file: that of c/ipcTests.c, which initPids     *)
(* resets, and that of c/msgTests.c, which it does not.                    *)
IpcPids == {"pids[0]", "pids[1]", "pids[2]", "pids[3]", "pids[4]"}
MsgPids == {"msg pids[0]", "msg pids[1]", "msg pids[2]", "msg pids[3]"}
initPids == [op |-> "initPids"]

-----------------------------------------------------------------------------
(* c/ipcTests.c.                                                           *)
testIpc1 ==
    <<Store("senderPid", Lit(-1)), Store("recverPid", Lit(-1)),
      syscreate("testSend1"), syscreate("testRecv1"), YieldForever>>

testSend1 ==
    <<sysgetpid, Publish("senderPid"), AwaitYielding("recverPid"),
      syssend(Static("recverPid"), -1), Expect({-3}),
      syssend(Static("senderPid"), 128), Expect({-2}),
      syssend(NoSuchPid, 128), Expect({-1}),
      sysstop>>

testRecv1 ==
    <<sysgetpid, Publish("recverPid"), AwaitYielding("senderPid"),
      sysrecv(Static("senderPid"), -1), Expect({-3}),
      sysrecv(Static("recverPid"), 128), Expect({-2}),
      sysrecv(NoSuchPid, 128), Expect({-1}),
      sysstop>>

testIpc2 ==
    <<initPids, syscreate("testSend2"), syscreate("testRecv2"), syscreate("testIpc2p3"),
      YieldForever>>

testSend2 ==
    <<sysgetpid, Publish("pids[0]"), AwaitYielding("pids[1]"),
      syssend(Static("pids[1]"), 0),
      syssend(Static("pids[1]"), 21)>>

(* The last message is as long as the result of the receive before it, the *)
(* length given there, or negative if that failed.                         *)
testRecv2 ==
    <<sysgetpid, Publish("pids[1]"), AwaitYielding("pids[0]"),
      sysrecv(Static("pids[0]"), 200),
      sysrecv(Lit(0), 50),
      sysrecv(Static("pids[0]"), 200), Expect(0..200),
      Provided("r >= 0", 11),
      syssend(Static("pids[2]"), 200), sysstop,
      syssend(Static("pids[2]"), -1)>>

testIpc2p3 ==
    <<sysgetpid, Publish("pids[2]"), AwaitYielding("pids[1]"),
      syssend(Static("pids[1]"), 23),
      sysrecv(Static("pids[1]"), 128)>>

testIpc3 ==
    <<initPids, syscreate("testIpc3p1"), syscreate("testIpc3p0"), YieldForever>>

testIpc3p0 ==
    <<sysgetpid, Publish("pids[0]"), AwaitYielding("pids[1]"),
      syssend(Static("pids[1]"), 64)>>

testIpc3p1 ==
    <<sysgetpid, Publish("pids[1]"), AwaitYielding("pids[0]"),
      sysrecv(Static("pids[0]"), 16)>>

testIpc4 ==
    <<initPids, syscreate("testIpc4p0"), syscreate("testIpc4p1"), syscreate("testIpc4p2"),
      syscreate("testIpc4p3"), syscreate("testIpc4p4"),
      Yields, syskill(Static("pids[0]"), 31), YieldForever>>

testIpc4p0 == <<sysgetpid, Publish("pids[0]"), YieldForever>>

testIpc4p1 ==
    <<sysgetpid, Publish("pids[1]"), AwaitYielding("pids[0]"),
      syssend(Static("pids[0]"), 64), YieldForever>>

testIpc4p2 ==
    <<sysgetpid, Publish("pids[2]"), AwaitSpinning("pids[0]"),
      syssend(Static("pids[0]"), 128), YieldForever>>

testIpc4p3 ==
    <<sysgetpid, Publish("pids[3]"), AwaitYielding("pids[0]"),
      sysrecv(Static("pids[0]"), 256), YieldForever>>

testIpc4p4 ==
    <<sysgetpid, Publish("pids[4]"), AwaitYielding("pids[1]"),
      sysrecv(Static("pids[0]"), 256), YieldForever>>

-----------------------------------------------------------------------------
(* c/msgTests.c.                                                           *)
testIpc5 ==
    <<initPids, syscreate("testIpc5p1"), syscreate("testIpc5p0"), YieldForever>>

testIpc5p0 ==
    <<sysgetpid, Publish("msg pids[0]"), AwaitYielding("msg pids[1]"),
      syssend(Static("msg pids[1]"), 0), YieldForever>>

testIpc5p1 ==
    <<sysgetpid, Publish("msg pids[1]"), AwaitYielding("msg pids[0]"),
      sysrecv(Lit(0), 16), YieldForever>>

testIpc6 ==
    <<initPids, syscreate("testIpc6p0"), syscreate("testIpc6p1"), syscreate("testIpc6p2"),
      YieldForever>>

testIpc6p0 ==
    <<sysgetpid, Publish("msg pids[0]"), AwaitYielding("msg pids[1]"), Yields,
      sysrecv(Lit(0), 64), sysrecv(Lit(0), 64), YieldForever>>

testIpc6p1 ==
    <<sysgetpid, Publish("msg pids[1]"), AwaitYielding("msg pids[0]"),
      syssend(Static("msg pids[0]"), 128), YieldForever>>

testIpc6p2 ==
    <<sysgetpid, Publish("msg pids[2]"), AwaitYielding("msg pids[0]"),
      syssend(Static("msg pids[0]"), 256), YieldForever>>

testIpc7 ==
    <<initPids, syscreate("testIpc7p0"), syscreate("testIpc7p1"), syscreate("testIpc7p2"),
      syscreate("testIpc7p3"),
      Yields, syskill(Static("msg pids[0]"), 31), YieldForever>>

testIpc7p0 == <<YieldForever>>

testIpc7p1 ==
    <<sysgetpid, Publish("msg pids[1]"), AwaitYielding("msg pids[0]"),
      syssend(Static("msg pids[0]"), 64),
      syssend(Static("msg pids[3]"), 100), YieldForever>>

testIpc7p2 ==
    <<sysgetpid, Publish("msg pids[2]"), AwaitSpinning("msg pids[0]"),
      sysrecv(Static("msg pids[0]"), 128), YieldForever>>

testIpc7p3 ==
    <<sysgetpid, Publish("msg pids[3]"), AwaitYielding("msg pids[1]"),
      sysrecv(Static("msg pids[1]"), 256), YieldForever>>

testIpc8 ==
    <<initPids, syscreate("testIpc8p0"), syscreate("testIpc8p1"), YieldForever>>

testIpc8p0 ==
    <<sysgetpid, Publish("msg pids[0]"), AwaitYielding("msg pids[1]"),
      syssend(Static("msg pids[1]"), -1), YieldForever>>

testIpc8p1 ==
    <<sysgetpid, Publish("msg pids[1]"), AwaitYielding("msg pids[0]"), YieldForever>>

testIpc9 == <<initPids, syscreate("testIpc9p0"), YieldForever>>

testIpc9p0 ==
    <<sysgetpid, Publish("msg pids[0]"), AwaitYielding("msg pids[0]"),
      sysrecv(Static("msg pids[0]"), 32), YieldForever>>

testIpc10 ==
    <<initPids, syscreate("testIpc10p0"), syscreate("testIpc10p1"), YieldForever>>

testIpc10p0 ==
    <<sysgetpid, Publish("msg pids[0]"), AwaitYielding("msg pids[1]"),
      syssend(Static("msg pids[1]"), -1), YieldForever>>

testIpc10p1 ==
    <<sysgetpid, Publish("msg pids[1]"), AwaitYielding("msg pids[0]"), YieldForever>>

-----------------------------------------------------------------------------
(* c/deviceTests.c.  Device 0 is KBD0, and 1 is KBD1.                      *)
fd == Local("fd")

testDev0 ==
    <<sysopen(0), Keep("fd"), Provided("fd >= 0", 5), sysclose(fd),
      sysopen(1), Keep("fd"), Provided("fd >= 0", 9), sysclose(fd),
      Spin>>

testDev1 ==
    <<sysopen(1), Keep("fd"), Provided("fd >= 0", 6), syswrite(fd), Expect({-1}), Spin>>

testDev2 ==
    <<sysopen(1), Keep("fd"), Provided("fd >= 0", 5), sysread(fd, 3),
      Provided("fd >= 0", 7), sysread(fd, 3), Spin>>

testDev3 ==
    <<sysopen(1), Keep("fd"), sysioctl(fd, "KBD_IOCTL_OFF", "none"), sysread(fd, 10),
      sysioctl(fd, "KBD_IOCTL_ON", "none"), sysioctl(fd, "KBD_IOCTL_EOF", "BEL"),
      sysread(fd, 10), Spin>>

testDev4 == <<sysopen(2), Spin>>

testDev5 == <<syswrite(Lit(-1))>>

testDev6 == <<sysopen(0), Keep("fd"), sysioctl(fd, "unknown", "none")>>

testDev7 ==
    <<sysopen(1), Keep("fd"), Provided("fd >= 0", 6), sysread(fd, 2), sysread(fd, 2), Spin>>

testDev8 ==
    <<sysopen(1), Keep("fd"), Provided("fd >= 0", 5), sysread(fd, 3), Spin>>

-----------------------------------------------------------------------------
(* c/getcpuTests.c.  The last receive and the last send are meant to fail. *)
(* The four processes are told to sleep for 20, 7, 10 and 27 seconds.      *)
testGCT_root ==
    <<sysgetpid, Publish("rootPid"),
      syscreate("testGCT_pc"), Keep("pids[0]"), syscreate("testGCT_pc"), Keep("pids[1]"),
      syscreate("testGCT_pc"), Keep("pids[2]"), syscreate("testGCT_pc"), Keep("pids[3]"),
      syssleep(Seconds(4)),
      syssend(Local("pids[2]"), 8),
      syssend(Local("pids[1]"), 8),
      syssend(Local("pids[0]"), 8),
      syssend(Local("pids[3]"), 8),
      sysrecv(Local("pids[3]"), 8), Expect({-1}),
      syssend(Local("pids[2]"), 8), Expect({-1}),
      Spin>>

testGCT_pc ==
    <<syssleep(Seconds(5)), sysrecv(Static("rootPid"), 8), Provided("r >= 0", 5),
      syssleepReceived>>

-----------------------------------------------------------------------------
(* c/user.c.  The process that creates them is the first test of its root, *)
(* which stands in a comment there; waiter waits for the process 2.        *)
waitTest ==
    <<syscreate("runner"), Keep("toKill"), syscreate("waiter"), syssleep(Seconds(10)),
      syskill(Local("toKill"), 31), Spin>>

waiter == <<syswait(Lit(2))>>

runner == <<Spin>>
=============================================================================

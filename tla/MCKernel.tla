------------------------------ MODULE MCKernel ------------------------------
(***************************************************************************)
(* The workloads of the runs.  Each .cfg chooses the requests and says who *)
(* names whom in them.                                                     *)
(***************************************************************************)
EXTENDS KernelProperties

NoTargets == [p \in Proc |-> {}]

(* Message passing: everybody sends to and receives from everybody,        *)
(* itself and those not created yet included.                              *)
AllTargets == [p \in Proc |-> Proc]
AllSources == [p \in Proc |-> Proc \cup {ReceiveAny}]

(* Sleeping.  With a time slice of 4 both times are overslept, and the     *)
(* sleepers are inserted before, between and behind others.  With a slice  *)
(* of 2 the unequal times let a new sleeper come before a head that has    *)
(* become the head by the end of another's sleep.                          *)
SleepsOverslept == [p \in Proc |-> {0, 3, 6}]
SleepsUnequal == [p \in Proc |-> {2, 6}]

(* Buffers: a good one, longer than any pid, and a bad one.                *)
GoodAndBad == {100, -1}

(* Message passing: to the idle process, whose pid is 0.                   *)
SendToIdle == [p \in Proc |-> {Idle}]

(* Waiting: each process waits for the one created after it, or 1 and 2    *)
(* for each other and 3 for 1.                                             *)
WaitForNext == [p \in Proc |-> {p + 1}]
WaitForEachOther == [p \in Proc |-> IF p = 1 THEN {2} ELSE {1}]

(* Signals: 1 signals 2, and 2 itself; 1 sends to 2, which sleeps and      *)
(* receives from anybody.                                                  *)
KillTwo == [p \in Proc |-> IF p = 1 THEN {0, 2, MaxPid + 1} ELSE {2}]
OneSendsToTwo == [p \in Proc |-> IF p = 1 THEN {2} ELSE {}]
TwoReceives == [p \in Proc |-> IF p = 2 THEN {ReceiveAny} ELSE {}]
OnlyTwoSleeps == [p \in Proc |-> IF p = 2 THEN {3} ELSE {}]

(* Signals: 1 signals the others, which may be sending to it.              *)
OthersSendToOne == [p \in Proc |-> IF p = 1 THEN {} ELSE {1}]
OneKills == [p \in Proc |-> IF p = 1 THEN Proc \ {1} ELSE {}]

(* Everything at once: 1 and 2 wait for 3 and 4, which wait for nobody; 3  *)
(* receives from anybody, 1 and 2 send to it, and 4 sleeps.                *)
WaitOneLevel == [p \in Proc |-> CASE p = 1 -> {-1, 1, 3, 4}
                                  [] p = 2 -> {3, 4}
                                  [] OTHER -> {}]
ThreeServes == [p \in Proc |-> IF p = 3 THEN {ReceiveAny} ELSE {}]
SendToThree == [p \in Proc |-> IF p \in {1, 2} THEN {3} ELSE {}]
FourSleeps == [p \in Proc |-> IF p = 4 THEN {3} ELSE {}]
=============================================================================

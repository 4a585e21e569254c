------------------------------- MODULE Timers -------------------------------
(***************************************************************************)
(* What syssleep promises: every sleeper has a time of its own, every      *)
(* timer interrupt takes one time slice off each, and a sleeper whose time *)
(* is up wakes at that interrupt, not before and not later.                *)
(***************************************************************************)
EXTENDS Integers

CONSTANTS
    Process,    \* the processes
    Times,      \* the times slept, positive numbers
    Slice,      \* the time between two interrupts
    Awake       \* remaining[p] when p does not sleep

VARIABLE remaining      \* the time each sleeper still has to sleep

Init == remaining = [p \in Process |-> Awake]

Sleep(p) ==
    /\ remaining[p] = Awake
    /\ \E d \in Times : remaining' = [remaining EXCEPT ![p] = d]

Tick ==
    remaining' = [p \in Process |->
        IF remaining[p] = Awake \/ remaining[p] <= Slice
        THEN Awake
        ELSE remaining[p] - Slice]

Next == Tick \/ \E p \in Process : Sleep(p)

Spec == Init /\ [][Next]_remaining
=============================================================================

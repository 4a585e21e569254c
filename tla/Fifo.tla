------------------------------- MODULE Fifo -------------------------------
(***************************************************************************)
(* What the ready queue promises: a first-in first-out queue of processes, *)
(* each queued at most once, from which the processor is handed out; the   *)
(* idle process runs when nobody is queued.                                *)
(***************************************************************************)
EXTENDS Naturals, Sequences

CONSTANTS
    Process,    \* the processes that can be queued
    NoProcess   \* who runs when the queue is empty

VARIABLES
    queue,      \* the queued processes, the longest waiting one first
    running     \* who has the processor

vars == <<queue, running>>

Queued == {queue[i] : i \in 1..Len(queue)}

TypeOK ==
    /\ queue \in Seq(Process)
    /\ running \in Process \cup {NoProcess}

Init == queue = <<>> /\ running = NoProcess

Add(p) ==
    /\ p \notin Queued
    /\ queue' = Append(queue, p)
    /\ UNCHANGED running

Take ==
    IF queue = <<>>
    THEN running' = NoProcess /\ UNCHANGED queue
    ELSE running' = Head(queue) /\ queue' = Tail(queue)

Remove(p) ==
    /\ \E i \in 1..Len(queue) :
        /\ queue[i] = p
        /\ queue' = [j \in 1..(Len(queue) - 1) |-> queue[IF j < i THEN j ELSE j + 1]]
    /\ UNCHANGED running

Next == Take \/ \E p \in Process : Add(p) \/ Remove(p)

Spec == Init /\ [][Next]_vars
=============================================================================

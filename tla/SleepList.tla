----------------------------- MODULE SleepList -----------------------------
(***************************************************************************)
(* The sleep list (c/sleep.c): a delta list.  The sleepTime of a process   *)
(* is the time it sleeps on after its predecessor in the list woke up.     *)
(* The fields used here are sleepList, the head, and per PCB sleepNext,    *)
(* sleepPrev, sleepTime, eax and the state.                                *)
(***************************************************************************)
EXTENDS DispQueue

CONSTANT TIME_SLICE     \* the time between two timer interrupts

ASSUME TimeSliceAssumption == TIME_SLICE \in Nat \ {0}

Sleepers(k) == Reach(k.sleepNext, k.sleepList)

(* The walk that places a process which has `left' to sleep, from the      *)
(* member x on: either before a member that sleeps longer or at the end.   *)
Place(k, x, left) ==
    LET from[y \in Slot] == [time \in Int |->
            LET rest == time - k.sleepTime[y]
            IN  CASE k.sleepTime[y] > time -> [before |-> y, left |-> time]
                  [] k.sleepTime[y] <= time /\ k.sleepNext[y] = NULL ->
                       [after |-> y, left |-> rest]
                  [] OTHER -> from[k.sleepNext[y]][rest]]
    IN  from[x][left]

-----------------------------------------------------------------------------
(* Faulty variants, one slip each, that the properties must tell apart.    *)

\* the head keeps its time when the timer interrupts
TickWithoutTime(k) == k

\* a process appended at the end keeps the whole time it asked for
AddToSleepListUnadjusted(k, p, time) ==
    IF k.sleepList = NULL
    THEN [k EXCEPT !.sleepTime[p] = time, !.sleepNext[p] = NULL,
                   !.sleepPrev[p] = NULL, !.sleepList = p]
    ELSE LET x == TailOf(k.sleepNext, k.sleepList)
         IN  [k EXCEPT !.sleepTime[p] = time,
                       !.sleepNext = [@ EXCEPT ![x] = p, ![p] = NULL],
                       !.sleepPrev[p] = x]

\* the predecessor of a process placed between two others is not told
AddToSleepListOneSided(k, p, time) ==
    IF k.sleepList = NULL
    THEN [k EXCEPT !.sleepTime[p] = time, !.sleepNext[p] = NULL,
                   !.sleepPrev[p] = NULL, !.sleepList = p]
    ELSE LET place == Place(k, k.sleepList, time)
         IN  IF "after" \in DOMAIN place
             THEN [k EXCEPT !.sleepTime[p] = place.left,
                            !.sleepNext = [@ EXCEPT ![place.after] = p, ![p] = NULL],
                            !.sleepPrev[p] = place.after]
             ELSE LET x == place.before
                  IN  [k EXCEPT !.sleepTime = [@ EXCEPT ![p] = place.left, ![x] = @ - place.left],
                                !.sleepNext[p] = x,
                                !.sleepPrev = [@ EXCEPT ![x] = p, ![p] = k.sleepPrev[x]],
                                !.sleepList = IF k.sleepPrev[x] = NULL THEN p ELSE @]

-----------------------------------------------------------------------------
(* addToSleepList.  Whether the process goes before the head is told by    *)
(* the back link of the member it is placed before; a null one means head. *)
AddToSleepList(k, p, time) ==
    IF k.sleepList = NULL
    THEN [k EXCEPT !.sleepTime[p] = time,
                   !.sleepNext[p] = NULL,
                   !.sleepPrev[p] = NULL,
                   !.sleepList = p]
    ELSE LET place == Place(k, k.sleepList, time)
         IN  IF "after" \in DOMAIN place
             THEN [k EXCEPT !.sleepTime[p] = place.left,
                            !.sleepNext = [@ EXCEPT ![place.after] = p, ![p] = NULL],
                            !.sleepPrev[p] = place.after]
             ELSE LET x == place.before
                      b == k.sleepPrev[x]
                      k1 == [k EXCEPT !.sleepTime = [@ EXCEPT ![p] = place.left,
                                                              ![x] = @ - place.left],
                                      !.sleepNext[p] = x,
                                      !.sleepPrev[x] = p]
                  IN  IF b # NULL
                      THEN [k1 EXCEPT !.sleepPrev[p] = b, !.sleepNext[b] = p]
                      ELSE [k1 EXCEPT !.sleepList = p]

(* sleep, called for the running process.                                  *)
Sleep(k, p, milliseconds) ==
    IF milliseconds = 0
    THEN Ready([k EXCEPT !.eax[p] = 0], p)
    ELSE AddToSleepList([k EXCEPT !.state[p] = "SLEEPING"], p, milliseconds)

(* wake: the head leaves the list.  The new head keeps its back link.      *)
Wake(k) ==
    LET p == k.sleepList
    IN  Ready([k EXCEPT !.sleepList = k.sleepNext[p],
                        !.eax[p] = k.sleepTime[p],
                        !.sleepNext[p] = NULL,
                        !.sleepPrev[p] = NULL], p)

(* One turn of the loop of tick: wake the head if its time is up, and      *)
(* charge the time it overslept to the next one.                           *)
WakeHead(k) ==
    IF k.sleepList = NULL \/ k.sleepTime[k.sleepList] > 0
    THEN k
    ELSE LET timeDiff == -k.sleepTime[k.sleepList]
             k1 == Wake([k EXCEPT !.sleepTime[k.sleepList] = 0])
         IN  IF k1.sleepList = NULL
             THEN k1
             ELSE [k1 EXCEPT !.sleepTime[k1.sleepList] = @ - timeDiff]

(* The loop.  Every turn clears the link it followed, so it takes no more  *)
(* turns than there are links, and one.                                    *)
WakeExpired(k) ==
    LET turn[n \in 0..(MaxPid + 1)] == IF n = 0 THEN k ELSE WakeHead(turn[n - 1])
    IN  turn[MaxPid + 1]

Tick(k) ==
    IF k.sleepList = NULL
    THEN k
    ELSE WakeExpired([k EXCEPT !.sleepTime[k.sleepList] = @ - TIME_SLICE])

(* removeFromSleepList: the time of the process passes to the next one.    *)
RemoveFromSleepList(k, p) ==
    LET before == k.sleepPrev[p]
        after  == k.sleepNext[p]
        k1 == [k EXCEPT !.sleepNext[p] = NULL,
                        !.sleepPrev[p] = NULL,
                        !.state[p] = NULL,
                        !.eax[p] = k.sleepTime[p]]
        k2 == IF after = NULL THEN k1 ELSE [k1 EXCEPT !.sleepTime[after] = @ + k.sleepTime[p]]
    IN  IF k.state[p] # "SLEEPING" THEN k
        ELSE IF before = NULL
        THEN [k2 EXCEPT !.sleepList = after]
        ELSE IF after = NULL
        THEN [k2 EXCEPT !.sleepNext[before] = NULL]
        ELSE [k2 EXCEPT !.sleepNext[before] = after, !.sleepPrev[after] = before]
=============================================================================

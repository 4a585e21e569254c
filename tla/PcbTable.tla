------------------------------ MODULE PcbTable ------------------------------
(***************************************************************************)
(* The process table (c/pcb.c): an open addressing hash table of PCBs with *)
(* tombstones, from which create() (c/create.c) takes a slot, a pid and a  *)
(* stack and to which removeProcess() gives them back, and in which the    *)
(* timer charges the processes for their time.                             *)
(***************************************************************************)
EXTENDS Integers, FiniteSets

CONSTANTS
    PCBTABLE_SIZE,  \* 32
    Blocks,         \* how many stacks the memory has room for
    TIME_SLICE,     \* the time between two timer interrupts
    MaxTicks,       \* the bound on the number of timer interrupts
    Memories        \* what the memory behind the table may hold: sets of pids

ASSUME SizeAssumption ==
    /\ PCBTABLE_SIZE \in Nat \ {0, 1, 2}
    /\ Blocks \in Nat \ {0}
    /\ TIME_SLICE \in Nat \ {0} /\ MaxTicks \in Nat
    /\ {} \in Memories

EMPTY == -1
TOMBSTONE == -2
STOPPED == -1
READY == 10
FAILED == 0

Index == 0..(PCBTABLE_SIZE - 1)
Pid == 0..(PCBTABLE_SIZE - 1)

VARIABLES
    pid, state, memLoc, runningTime,    \* fields of every PCB; memLoc is its stack
    numRunning, lastPID,
    allocated,      \* the stacks kmalloc has given out
    created,        \* what create returned last
    fault,          \* what the kernel ran into, if anything
    ticks, born     \* how often the timer interrupted, also when a slot was taken

pcbs == <<pid, state, memLoc, runningTime>>
vars == <<pcbs, numRunning, lastPID, allocated, created, fault, ticks, born>>

LiveSlots == {s \in Index : pid[s] \notin {EMPTY, TOMBSTONE}}

-----------------------------------------------------------------------------
(* Faulty variants, one slip each, that the properties must tell apart.    *)

\* a tombstone is taken without a look at what is behind it
MetBehindNever(i, newPID, beyond) == FALSE

\* the stack is not recorded in the slot
TakeForgettingStack(id, s, block) ==
    /\ pid' = [pid EXCEPT ![s] = id]
    /\ state' = [state EXCEPT ![s] = IF id = 0 THEN @ ELSE READY]
    /\ runningTime' = [runningTime EXCEPT ![s] = 0]
    /\ numRunning' = numRunning + 1 /\ lastPID' = id + 1
    /\ allocated' = allocated \cup {block}
    /\ created' = id
    /\ born' = [born EXCEPT ![s] = ticks]
    /\ UNCHANGED <<memLoc, fault, ticks>>

\* the count is left as it was
StopUncounted(s) ==
    /\ fault = "none" /\ s \in LiveSlots /\ pid[s] # 0
    /\ pid' = [pid EXCEPT ![s] = TOMBSTONE]
    /\ allocated' = allocated \ {memLoc[s]}
    /\ UNCHANGED <<memLoc, state, runningTime, ticks, born, fault>>
    /\ UNCHANGED <<numRunning, lastPID, created>>

-----------------------------------------------------------------------------
Hash(id) == id % (PCBTABLE_SIZE - 1)

(* Indexes and pids are walked alike: from h to the end, then from 1 on    *)
(* (0 stays with the idle process), until the walk comes round.  Walk is   *)
(* what it visits, Before what it visits before i.                         *)
Walk(h) == IF h = 0 THEN Index ELSE Index \ {0}
Before(h, i) == IF h <= i THEN h..(i - 1) ELSE h..(PCBTABLE_SIZE - 1) \cup 1..(i - 1)
FirstFrom(h, S) == CHOOSE i \in S : S \cap Before(h, i) = {}

(* The scan behind a tombstone: whether newPID comes before a slot that    *)
(* was never used.  It does not stop at the end of the table; what it      *)
(* meets there first is up to the memory: newPID is met if it is in beyond.*)
MetBehind(i, newPID, beyond) ==
    LET stops == {j \in (i + 1)..(PCBTABLE_SIZE - 1) : pid[j] \in {EMPTY, newPID}}
    IN  IF stops = {} THEN newPID \in beyond
        ELSE pid[CHOOSE j \in stops : \A k \in stops : j <= k] = newPID

(* The probe for newPID ends at an unused slot, at a tombstone unless      *)
(* newPID was met behind it, or at newPID itself.  It gives the slot that  *)
(* newPID may take, NoSlot if newPID is in use, Endless if it comes round. *)
NoSlot == -1
Endless == -2

Ends(newPID, beyond) ==
    {i \in Walk(Hash(newPID)) :
        \/ pid[i] \in {EMPTY, newPID}
        \/ pid[i] = TOMBSTONE /\ ~MetBehind(i, newPID, beyond)}

Probe(newPID, beyond) ==
    LET ends == Ends(newPID, beyond)
        i == FirstFrom(Hash(newPID), ends)
    IN  IF ends = {} THEN Endless ELSE IF pid[i] = newPID THEN NoSlot ELSE i

Wrap(id) == IF id > PCBTABLE_SIZE - 1 THEN 1 ELSE id

\* a faulty variant: only the first pid is tried
NotInUseOnce(first, beyond) == {id \in {first} : Probe(id, beyond) # NoSlot}

(* getFreePCBIndex: the first pid from lastPID on that is not in use, and  *)
(* its slot.                                                               *)
NotInUse(first, beyond) == {id \in Walk(first) : Probe(id, beyond) # NoSlot}

FreeFrom(first, beyond) ==
    LET free == NotInUse(first, beyond)
        id == FirstFrom(first, free)
    IN  IF free = {} THEN <<first, NoSlot>> ELSE <<id, Probe(id, beyond)>>

GetFreePCBIndex(beyond) == FreeFrom(Wrap(lastPID), beyond)

(* getPcb: the walk does not wrap either, and does not stop at an unused   *)
(* slot that is the first.                                                 *)
GetPcb(id) ==
    LET found == {s \in Hash(id)..(PCBTABLE_SIZE - 1) :
                    pid[s] = id /\ \A j \in (Hash(id) + 1)..s : pid[j] # EMPTY}
    IN  IF found = {} THEN NoSlot ELSE CHOOSE s \in found : \A j \in found : s <= j

-----------------------------------------------------------------------------
(* memset fills the table with 0xFF.                                       *)
Init ==
    /\ pid = [s \in Index |-> EMPTY] /\ state = [s \in Index |-> STOPPED]
    /\ memLoc = [s \in Index |-> EMPTY] /\ runningTime = [s \in Index |-> EMPTY]
    /\ numRunning = 0 /\ lastPID = 0
    /\ allocated = {} /\ created = EMPTY /\ fault = "none"
    /\ ticks = 0 /\ born = [s \in Index |-> 0]

(* removeProcess frees what is recorded in the slot, and clears the pid.   *)
(* A slot that never had a stack records the address -1, whose successor   *)
(* in the list, -1 as well, is never freed: the loop has no end.           *)
Removed(s) ==
    /\ pid' = [pid EXCEPT ![s] = TOMBSTONE]
    /\ allocated' = allocated \ {memLoc[s]}
    /\ fault' = IF memLoc[s] = EMPTY THEN "hung" ELSE fault
    /\ UNCHANGED <<memLoc, state, runningTime, ticks, born>>

(* create: the slot is filled in and the process made ready; ready() leaves*)
(* the idle process alone.                                                 *)
Take(id, s, block) ==
    /\ pid' = [pid EXCEPT ![s] = id]
    /\ state' = [state EXCEPT ![s] = IF id = 0 THEN @ ELSE READY]
    /\ memLoc' = [memLoc EXCEPT ![s] = block]
    /\ runningTime' = [runningTime EXCEPT ![s] = 0]
    /\ numRunning' = numRunning + 1 /\ lastPID' = id + 1
    /\ allocated' = allocated \cup {block}
    /\ created' = id
    /\ born' = [born EXCEPT ![s] = ticks]
    /\ UNCHANGED <<fault, ticks>>

(* findFreePcb refuses when the table is full.                             *)
Refuse ==
    /\ fault = "none" /\ numRunning = PCBTABLE_SIZE
    /\ created' = FAILED
    /\ UNCHANGED <<pcbs, numRunning, lastPID, allocated, fault, ticks, born>>

(* getFreePCBIndex may not return, or return -1.                           *)
Fail(s) ==
    /\ s < 0
    /\ fault' = IF s = Endless THEN "hung" ELSE "wild"
    /\ UNCHANGED <<pcbs, numRunning, lastPID, allocated, created, ticks, born>>

(* No stack: removeProcess takes back the slot.                            *)
GiveBack(id, s) ==
    /\ Removed(s)
    /\ lastPID' = id + 1
    /\ created' = FAILED
    /\ UNCHANGED numRunning

Create(beyond) ==
    LET free == GetFreePCBIndex(beyond)
        room == 1..Blocks \ allocated
    IN  /\ fault = "none" /\ numRunning < PCBTABLE_SIZE
        /\ \/ Fail(free[2])
           \/ /\ free[2] >= 0
              /\ IF room # {}
                 THEN Take(free[1], free[2], CHOOSE b \in room : \A c \in room : b <= c)
                 ELSE GiveBack(free[1], free[2])

(* cleanup of the running process, which is any but the idle one.          *)
Stop(s) ==
    /\ fault = "none" /\ s \in LiveSlots /\ pid[s] # 0
    /\ Removed(s)
    /\ numRunning' = numRunning - 1
    /\ UNCHANGED <<lastPID, created>>

(* The slots addCPUTimes charges and getCPUtimes reports.                  *)
Accounted == {s \in Index : state[s] # STOPPED /\ pid[s] # TOMBSTONE}

AddCPUTimes ==
    /\ fault = "none" /\ ticks < MaxTicks
    /\ runningTime' = [s \in Index |-> IF s \in Accounted THEN runningTime[s] + TIME_SLICE
                                       ELSE runningTime[s]]
    /\ ticks' = ticks + 1
    /\ UNCHANGED <<pid, state, memLoc, numRunning, lastPID, allocated, created, fault, born>>

Next ==
    \/ Refuse
    \/ \E beyond \in Memories : Create(beyond)
    \/ \E s \in Index : Stop(s)
    \/ AddCPUTimes

Spec == Init /\ [][Next]_vars

-----------------------------------------------------------------------------
(* The types, and the number of running processes is what it says.         *)
TypeOK ==
    /\ pid \in [Index -> Pid \cup {EMPTY, TOMBSTONE}]
    /\ state \in [Index -> {STOPPED, READY}]
    /\ memLoc \in [Index -> 1..Blocks \cup {EMPTY}]
    /\ runningTime \in [Index -> Nat \cup {EMPTY}]
    /\ lastPID \in 0..PCBTABLE_SIZE
    /\ numRunning = Cardinality(LiveSlots)
    /\ allocated \subseteq 1..Blocks

(* No pid is given to two processes, although getFreePCBIndex looks only   *)
(* along the probe of a pid for whether it is in use, and every living     *)
(* process is found by getPcb, whose walk, unlike that probe, does not     *)
(* wrap at the end of the table, however slots were freed and taken again. *)
FoundByPid ==
    /\ \A s, t \in LiveSlots : pid[s] = pid[t] => s = t
    /\ \A s \in LiveSlots : GetPcb(pid[s]) = s

(* A table that is not full has a slot to give: the probes of              *)
(* getFreePCBIndex end, also in a table without unused slots, unless the   *)
(* memory behind the table happens to contain the pid sought for; and as   *)
(* long as one slot was never used, whatever that memory contains.         *)
SlotFound ==
    /\ numRunning < PCBTABLE_SIZE => GetFreePCBIndex({})[2] >= 0
    /\ fault # "none" => \A s \in Index : pid[s] # EMPTY

(* Every process has a stack of its own that nobody has freed.             *)
StacksOwned ==
    /\ \A s \in LiveSlots : memLoc[s] \in allocated
    /\ \A s, t \in LiveSlots : memLoc[s] = memLoc[t] => s = t

(* getCPUtimes (c/pcb.c:250) reports the living processes but the idle one *)
(* and nobody else, and to none of them more than has passed since its own *)
(* creation: nothing is left of what an earlier owner of its slot was      *)
(* charged.                                                                *)
NoTimeInherited ==
    /\ Accounted = {s \in LiveSlots : pid[s] # 0}
    /\ \A s \in Accounted : runningTime[s] <= TIME_SLICE * (ticks - born[s])

(* What is reported is called the "CPU time used in milliseconds"          *)
(* (xeroskernel.h:199).  There is one processor, so no two processes can   *)
(* have used more of it together than there was.  It does not hold:        *)
(* addCPUTimes charges everybody that lives, blocked or asleep, for every  *)
(* time slice, and CpuTime.cfg shows two processes charged for the same.   *)
ProcessorTime ==
    \A s, t \in Accounted :
        s # t => runningTime[s] + runningTime[t] <= TIME_SLICE * ticks
=============================================================================

------------------------------ MODULE Messages ------------------------------
(***************************************************************************)
(* Blocking message passing (c/msg.c and the queue operations of           *)
(* c/msgQueues.c) as operators on a kernel record.  Besides the fields of  *)
(* DispQueue they use                                                      *)
(*    pid            the pid field of every slot                           *)
(*    senderQueue    per PCB: the first process blocked sending to it      *)
(*    targetOfRecv   per PCB: whom it receives from; its own pid when it   *)
(*                   is not receiving, 0 when it receives from anybody     *)
(*    ipcArgs        per PCB: the length of the buffer in its argument     *)
(*                   list, or NULL when that list is not kept              *)
(*    eax            per PCB: the result of its last system call           *)
(*    fault          what the kernel ran into, if anything                 *)
(* The blocked senders of a process are chained through the same `next'    *)
(* field that chains the ready queue.                                      *)
(***************************************************************************)
EXTENDS DispQueue

EMPTY == -1
TOMBSTONE == -2
ReceiveAny == 0     \* the value of target_of_recv for "from anybody"
BufferAddress == 100000 \* stands for the address of any buffer

(* getPcb: the slot that holds process id, or NULL for SYSERR.  Slot and   *)
(* pid are one number for a process in the table.  A dead slot's own pid,  *)
(* TOMBSTONE, is a legal key as well: as an unsigned number it hashes to   *)
(* index 2, and the probe stops at the first slot that was never used.     *)
GetPcb(k, id) ==
    LET Found(x) == /\ x >= 2
                    /\ k.pid[x] = TOMBSTONE
                    /\ \A y \in 2..x : k.pid[y] # EMPTY
    IN  CASE id \in Slot ->
               IF k.pid[id] = id THEN id ELSE NULL
          [] id = TOMBSTONE ->
               IF \E x \in Slot : Found(x)
               THEN CHOOSE x \in Slot : Found(x) /\ \A y \in Slot : Found(y) => x <= y
               ELSE NULL
          [] OTHER -> NULL

Senders(k, r) == Reach(k.next, k.senderQueue[r])

-----------------------------------------------------------------------------
(* Faulty variants, one slip each, that the properties must tell apart.    *)

\* only the head of the sender queue is looked at
IsProcSendingAtHead(k, id, r) ==
    k.senderQueue[r] # NULL /\ (id = ReceiveAny \/ k.pid[k.senderQueue[r]] = id)

\* the sender is put in front of the other blocked senders
AddBlockedSenderAtHead(k, r, s) ==
    [k EXCEPT !.senderQueue[r] = s, !.next[s] = k.senderQueue[r]]

\* only who receives from anybody is found receiving
IsProcReceivingAnybody(k, r, s) == k.targetOfRecv[r] = ReceiveAny

\* the receiver goes on receiving after its message came
RmBlockedRecverNone(k, r) == k

\* the sender is still queued when it is made ready
RunSendKeepingSender(k, r, s) ==
    Ready(Ready([k EXCEPT !.targetOfRecv[r] = k.pid[r],
                          !.eax = [@ EXCEPT ![r] = k.ipcArgs[r], ![s] = k.ipcArgs[r]]], s), r)

-----------------------------------------------------------------------------
(* isValidBuffer.  A null buffer is passed as a negative length, too.      *)
IsValidBuffer(buffer) == buffer >= 0

(* The queue operations.                                                   *)

IsProcReceiving(k, r, s) ==
    k.targetOfRecv[r] = k.pid[s] \/ k.targetOfRecv[r] = ReceiveAny

IsProcSending(k, id, r) ==
    IF id = ReceiveAny
    THEN k.senderQueue[r] # NULL
    ELSE \E s \in Senders(k, r) : k.pid[s] = id

(* The first blocked sender keeps its own forward link, which next() has   *)
(* cleared when the process was taken off the ready queue.                 *)
AddBlockedSender(k, r, s) ==
    IF k.senderQueue[r] = NULL
    THEN [k EXCEPT !.senderQueue[r] = s]
    ELSE [k EXCEPT !.next = [@ EXCEPT ![TailOf(k.next, k.senderQueue[r])] = s, ![s] = NULL]]

RmBlockedSender(k, r, s) ==
    IF k.senderQueue[r] = s
    THEN [k EXCEPT !.senderQueue[r] = k.next[s], !.next[s] = NULL]
    ELSE IF \E x \in Senders(k, r) : k.next[x] = s
    THEN LET before == CHOOSE x \in Senders(k, r) : k.next[x] = s
         IN  [k EXCEPT !.next = [@ EXCEPT ![before] = k.next[s], ![s] = NULL]]
    ELSE k

RmBlockedRecver(k, r) == [k EXCEPT !.targetOfRecv[r] = k.pid[r]]

-----------------------------------------------------------------------------
(* transferBuffer: how much is copied.  The pid in front of the sender's   *)
(* buffer is not skipped in its arguments, so that the pid is taken for    *)
(* the buffer, and the address of the buffer for its length.  What is      *)
(* copied is whatever the low memory at that pid holds.                    *)
TransferBuffer(recvBufLen) ==
    LET sendBufLen == BufferAddress
    IN  IF recvBufLen > sendBufLen THEN sendBufLen ELSE recvBufLen

(* runSend: copy the message, take both processes out of the message       *)
(* queues, and make first the sender and then the receiver ready.  The     *)
(* copy goes through both kept argument lists; a null list sends it        *)
(* through whatever address 0 holds.                                       *)
RunSend(k, r, s) ==
    LET kept == k.ipcArgs[r] # NULL /\ k.ipcArgs[s] # NULL
        len == IF kept THEN TransferBuffer(k.ipcArgs[r]) ELSE 0
        k1 == RmBlockedRecver(RmBlockedSender(k, r, s), r)
        k2 == [k1 EXCEPT
                 !.fault = IF kept THEN @ ELSE "wild",
                 !.ipcArgs = [@ EXCEPT ![r] = NULL, ![s] = NULL],
                 !.eax = [@ EXCEPT ![r] = len, ![s] = len],
                 !.next = [@ EXCEPT ![r] = NULL, ![s] = NULL],
                 !.prev = [@ EXCEPT ![r] = NULL, ![s] = NULL]]
    IN  Ready(Ready(k2, s), r)

(* An immediate refusal: the caller goes to the back of the ready queue.   *)
Refuse(k, p, result) == [Ready(k, p) EXCEPT !.eax[p] = result]

\* a process may send to itself
SendToItself(k, p, dest, buffer) ==
    LET r == GetPcb(k, dest)
    IN  IF ~IsValidBuffer(buffer) THEN Refuse(k, p, -3)
        ELSE IF r = NULL THEN Refuse(k, p, -1)
        ELSE IF IsProcReceiving(k, r, p) THEN RunSend(k, r, p)
        ELSE [AddBlockedSender([k EXCEPT !.state[p] = "BLOCKED"], r, p) EXCEPT !.eax[p] = 0]

(* send: with the argument list kept by dispatch.                          *)
Send(k, p, dest, buffer) ==
    LET r == GetPcb(k, dest)
    IN  CASE dest = k.pid[p] -> Refuse(k, p, -2)
          [] dest # k.pid[p] /\ ~IsValidBuffer(buffer) -> Refuse(k, p, -3)
          [] dest # k.pid[p] /\ IsValidBuffer(buffer) /\ r = NULL -> Refuse(k, p, -1)
          [] OTHER ->
               IF IsProcReceiving(k, r, p)
               THEN RunSend(k, r, p)
               ELSE [AddBlockedSender([k EXCEPT !.state[p] = "BLOCKED"], r, p)
                       EXCEPT !.eax[p] = 0]

(* recv: from = 0 receives from anybody, the first blocked sender if any.  *)
Recv(k, p, from, buffer) ==
    LET s == GetPcb(k, from)
    IN  CASE from = k.pid[p] -> Refuse(k, p, -2)
          [] from # k.pid[p] /\ ~IsValidBuffer(buffer) -> Refuse(k, p, -3)
          [] from # k.pid[p] /\ IsValidBuffer(buffer) /\ from # ReceiveAny /\ s = NULL ->
               Refuse(k, p, -1)
          [] OTHER ->
               IF IsProcSending(k, from, p)
               THEN RunSend(k, p, IF from = ReceiveAny THEN k.senderQueue[p] ELSE s)
               ELSE [k EXCEPT !.state[p] = "BLOCKED",
                              !.targetOfRecv[p] = from,
                              !.eax[p] = 0]
=============================================================================

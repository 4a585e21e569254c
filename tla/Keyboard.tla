------------------------------ MODULE Keyboard ------------------------------
(***************************************************************************)
(* The keyboard driver (c/kbd.c) under the device independent calls        *)
(* (c/di_calls.c), as operators on the kernel record.  Further fields:     *)
(*    fdTab    per PCB: the descriptor table, FD_tab                       *)
(*    kbd      the static variables of the driver:                         *)
(*      state    the flags of kbd_state; EMPTY, -1, has every bit set      *)
(*      buf      kbd_buf up to kbd_buf_ind                                 *)
(*      p        the process in kbd_p, or NULL                             *)
(*      chars    its buffer up to kbd_p.i                                  *)
(*      buflen   the length of that buffer                                 *)
(*      eof      eof_val                                                   *)
(*      irq      the keyboard interrupt is enabled                         *)
(* Every call has made the process ready when it returns, unless it is a   *)
(* read that waits for more characters; its state field is not changed     *)
(* then.  The results go to eax, where dispatch() puts them.               *)
(***************************************************************************)
EXTENDS DispQueue, Sequences

CONSTANT KBD_BUF_SIZE   \* 4

ASSUME KbdBufSizeAssumption == KBD_BUF_SIZE \in Nat \ {0}

FDT_SIZE == 4
DTAB_SIZE == 2
KBD1 == 1               \* the echoing keyboard; 0 is the other one

ENTER == "ENTER"
BKSPC == "BKSPC"
NOCHAR == "NOCHAR"      \* a key that stands for no character, or its release
C_D == "C_D"            \* the initial indication of the end of the input

NotOpen == {"ECHO", "DISABLE", "EMPTY"}

InitialKbd == [state |-> NotOpen, buf |-> <<>>, p |-> NULL, chars |-> <<>>,
               buflen |-> 0, eof |-> C_D, irq |-> FALSE]

NoDescriptors == [fd \in 0..(FDT_SIZE - 1) |-> NULL]

-----------------------------------------------------------------------------
(* kbdUnblockReadProc: the read ends with the characters it has.           *)
UnblockReadProc(k) == [Ready(k, k.kbd.p) EXCEPT !.eax[k.kbd.p] = Len(k.kbd.chars)]

(* kbdActivateEOF: the read ends with 0, and the keyboard is off until it  *)
(* is opened again.                                                        *)
ActivateEOF(k) ==
    [Ready(k, k.kbd.p) EXCEPT !.eax[k.kbd.p] = 0,
                              !.kbd.state = @ \cup {"DISABLE"},
                              !.kbd.irq = FALSE]

-----------------------------------------------------------------------------
(* Faulty variants, one slip each, that the properties must tell apart.    *)

\* what was read stays in the device buffer
ShiftNone(buf, n) == buf

\* a descriptor stays in use after it was given back
ClearFDNone(k, p, fd) == k

-----------------------------------------------------------------------------
(* kbdG_open behind kbd0_open and kbd1_open, for a keyboard not yet open.  *)
KbdOpen(k, p, dev) ==
    [Ready(k, p) EXCEPT !.kbd.state = IF dev = KBD1 THEN {"ECHO"} ELSE {},
                        !.kbd.buf = <<>>,
                        !.kbd.p = NULL,
                        !.kbd.eof = C_D,
                        !.kbd.irq = TRUE]

(* fillFD and clearFD (c/pcb.c).                                           *)
FillFD(k, p, fd, dev) == [k EXCEPT !.fdTab[p][fd] = dev]
ClearFD(k, p, fd) == [k EXCEPT !.fdTab[p][fd] = NULL]

(* di_open: take the first free descriptor, and give it back if the        *)
(* keyboard is open already.                                               *)
DiOpen(k, p, dev) ==
    LET free == {fd \in DOMAIN NoDescriptors : k.fdTab[p][fd] = NULL}
        fd == CHOOSE f \in free : \A g \in free : f <= g
        k1 == FillFD(k, p, fd, dev)
    IN  IF dev >= DTAB_SIZE \/ free = {}
        THEN [Ready(k, p) EXCEPT !.eax[p] = -1]
        ELSE IF k.kbd.state # NotOpen
        THEN [ClearFD(Ready(k1, p), p, fd) EXCEPT !.eax[p] = -1]
        ELSE [KbdOpen(k1, p, dev) EXCEPT !.eax[p] = fd]

ValidFd(k, p, fd) == fd \in DOMAIN NoDescriptors /\ k.fdTab[p][fd] # NULL

(* kbdG_close.  The context of the last read stays.                        *)
KbdClose(k, p) == [Ready(k, p) EXCEPT !.kbd.state = NotOpen, !.kbd.irq = FALSE]

(* di_close.                                                               *)
DiClose(k, p, fd) ==
    IF ~ValidFd(k, p, fd)
    THEN [Ready(k, p) EXCEPT !.eax[p] = -1]
    ELSE [ClearFD(KbdClose(k, p), p, fd) EXCEPT !.eax[p] = 0]

(* kbdG_write: the keyboard cannot be written.                             *)
KbdWrite(k, p) == [Ready(k, p) EXCEPT !.eax[p] = -1]

(* di_write.                                                               *)
DiWrite(k, p, fd, valid) ==
    IF ~valid \/ ~ValidFd(k, p, fd)
    THEN [Ready(k, p) EXCEPT !.eax[p] = -1]
    ELSE KbdWrite(k, p)

(* kbdG_ioctl.                                                             *)
KbdIoctl(k, p, command, char) ==
    LET k1 == [Ready(k, p) EXCEPT !.eax[p] = 0]
    IN  CASE command = "KBD_IOCTL_EOF" -> [k1 EXCEPT !.kbd.eof = char]
          [] command = "KBD_IOCTL_OFF" -> [k1 EXCEPT !.kbd.state = @ \ {"ECHO"}]
          [] command = "KBD_IOCTL_ON" -> [k1 EXCEPT !.kbd.state = @ \cup {"ECHO"}]
          [] OTHER -> [k1 EXCEPT !.eax[p] = -1]

(* di_ioctl.                                                               *)
DiIoctl(k, p, fd, command, char) ==
    IF ~ValidFd(k, p, fd)
    THEN [Ready(k, p) EXCEPT !.eax[p] = -1]
    ELSE KbdIoctl(k, p, command, char)

-----------------------------------------------------------------------------
(* The loop of kbdBufferTransfer that moves the rest of the device buffer  *)
(* to its beginning.                                                       *)
Shift(buf, n) == SubSeq(buf, n + 1, Len(buf))

(* kbdBufferTransfer: move characters from the device buffer to the reader *)
(* up to the first that ends a line or the input.  At the end of the input *)
(* the device buffer stays as it is.                                       *)
BufferTransfer(k) ==
    LET room == IF k.kbd.buflen < Len(k.kbd.buf) THEN k.kbd.buflen ELSE Len(k.kbd.buf)
        ends == {j \in 1..room : k.kbd.buf[j] \in {ENTER, k.kbd.eof}}
        n == IF ends = {} THEN room ELSE CHOOSE j \in ends : \A i \in ends : j <= i
        k1 == [k EXCEPT !.kbd.chars = SubSeq(k.kbd.buf, 1, n)]
        k2 == IF ends # {} /\ k.kbd.buf[n] = ENTER THEN UnblockReadProc(k1) ELSE k1
    IN  IF ends # {} /\ k.kbd.buf[n] = k.kbd.eof
        THEN ActivateEOF(k2)
        ELSE [k2 EXCEPT !.kbd.buf = Shift(@, n),
                        !.eax[k.kbd.p] = n]

\* the end of the input is forgotten between two reads
KbdReadDespiteEOF(k, p, buflen) ==
    LET k1 == BufferTransfer([k EXCEPT !.kbd.p = p, !.kbd.chars = <<>>, !.kbd.buflen = buflen])
    IN  IF Len(k1.kbd.chars) = buflen THEN UnblockReadProc(k1) ELSE k1

(* kbdG_read.  A buffer that is just full ends the read once more.         *)
KbdRead(k, p, buflen) ==
    LET k1 == [k EXCEPT !.kbd.p = p, !.kbd.chars = <<>>, !.kbd.buflen = buflen]
        k2 == BufferTransfer(k1)
    IN  IF "DISABLE" \in k.kbd.state
        THEN ActivateEOF(k1)
        ELSE IF Len(k2.kbd.chars) = buflen
        THEN UnblockReadProc(k2)
        ELSE k2

(* di_read.                                                                *)
DiRead(k, p, fd, valid, buflen) ==
    IF ~valid \/ ~ValidFd(k, p, fd)
    THEN [Ready(k, p) EXCEPT !.eax[p] = -1]
    ELSE KbdRead(k, p, buflen)

-----------------------------------------------------------------------------
(* kbdWriteBuffer: what a key does to a buffer that holds size characters. *)
WriteBuffer(buf, size, key) ==
    CASE key = BKSPC -> SubSeq(buf, 1, Len(buf) - 1)
      [] key \notin {BKSPC, NOCHAR} /\ Len(buf) < size -> Append(buf, key)
      [] OTHER -> buf

\* the full buffer is noticed after the end of the input
KbdISRFullLast(k, key) ==
    LET k1 == [k EXCEPT !.kbd.chars = WriteBuffer(@, k.kbd.buflen, key)]
        k2 == IF key = k.kbd.eof THEN ActivateEOF(k1)
              ELSE IF key = ENTER THEN UnblockReadProc(k1) ELSE k1
    IN  IF k.kbd.p = NULL
        THEN [k EXCEPT !.kbd.buf = WriteBuffer(@, KBD_BUF_SIZE, key)]
        ELSE IF Len(k1.kbd.chars) = k.kbd.buflen THEN UnblockReadProc(k2) ELSE k2

(* handleKbdISR: the key goes to the process in kbd_p, whether its read    *)
(* still waits or ended long ago, and to the device buffer if there has    *)
(* been no read since the keyboard was opened.                             *)
KbdISR(k, key) ==
    LET k1 == [k EXCEPT !.kbd.chars = WriteBuffer(@, k.kbd.buflen, key)]
        k2 == IF Len(k1.kbd.chars) = k.kbd.buflen THEN UnblockReadProc(k1) ELSE k1
    IN  IF k.kbd.p = NULL
        THEN [k EXCEPT !.kbd.buf = WriteBuffer(@, KBD_BUF_SIZE, key)]
        ELSE IF key = k.kbd.eof /\ key # BKSPC
        THEN ActivateEOF(k2)
        ELSE IF key = ENTER
        THEN UnblockReadProc(k2)
        ELSE k2
=============================================================================

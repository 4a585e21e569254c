--------------------------- MODULE SysCallProofs ---------------------------
(***************************************************************************)
(* A system call that is not interrupted in one of its windows gets its    *)
(* own answer, for any processes and any choice of stubs.  The invariant   *)
(* follows the call through the three shared variables, the registers and  *)
(* the PCB: a window is entered running and is left uncut only by the      *)
(* process that entered it, so nobody else can have written the statics.   *)
(***************************************************************************)
EXTENDS SysCall, TLAPS

Labels == {"out", "va_start", "number", "clear", "load number", "load args", "int",
           "store result", "load result", "ret"}

Numbers == {Number(Stubs[c].number) : c \in Calls}

(* The types TypeOK leaves out.                                            *)
ControlOK ==
    /\ pc \in [Slot -> Labels] /\ pc[Idle] = "out"
    /\ call \in [Slot -> Calls \cup {"none"}]
    /\ cut \in [Slot -> BOOLEAN]
    /\ \A p \in Proc : pc[p] # "out" => call[p] \in Calls

(* Once a process is past va_start the argument pointers in use are those  *)
(* of processes, and who waits has left a call number and its arguments.   *)
ArgumentsOwned ==
    /\ \A p \in Proc : pc[p] \notin {"out", "va_start"} => args \in Proc
    /\ \A p \in Proc : pc[p] = "int" => edx[p] \in Proc
    /\ \A p \in Slot : pending[p] # Zero =>
         p \in Proc /\ pc[p] = "store result" /\ pending[p] \in Numbers /\ arguments[p] \in Proc

Sent(p) == Number(Stubs[call[p]].number)

(* On the way in, the statics and registers of an undisturbed call hold    *)
(* its own number and its own arguments, and so does its PCB while it      *)
(* waits.                                                                  *)
HandedOver(p) ==
    /\ pc[p] \in Windows => process = p
    /\ pc[p] \in Windows \ {"load result"} => args = p
    /\ pc[p] \in {"clear", "load number"} => call_number = Sent(p)
    /\ pc[p] \in {"load args", "int"} => eax[p] = Sent(p)
    /\ pc[p] = "int" => edx[p] = p
    /\ pending[p] # Zero => pending[p] = Sent(p) /\ arguments[p] = p

(* On the way out its own answer is where the next switch and the next     *)
(* instruction find it.                                                    *)
HandedBack(p) ==
    /\ pc[p] \in {"store result", "load result", "ret"} /\ pending[p] = Zero =>
         cpu_eax[p] = OwnAnswer(p) /\ (process = p => eax[p] = OwnAnswer(p))
    /\ pc[p] = "load result" => ret_val = OwnAnswer(p)
    /\ pc[p] = "out" => got[p] = OwnAnswer(p)

Undisturbed(p) ==
    call[p] \in Calls /\ ~cut[p] =>
        HandedOver(p) /\ (Stubs[call[p]].returns => HandedBack(p))

IInv == TypeOK /\ ControlOK /\ ArgumentsOwned /\ \A p \in Proc : Undisturbed(p)

-----------------------------------------------------------------------------
(* The words a call leaves anywhere are told apart by what they stand for. *)
LEMMA WordFacts ==
    /\ Zero \in Word
    /\ Numbers \subseteq Word
    /\ \A n \in Numbers : n # Zero /\ IsNumber(n)
    /\ \A p, q \in Proc : \A n \in Numbers : Result(p, n[2], q) \in Word
    /\ \A w \in Word : IsNumber(w) => w \in Numbers
  <1>1. \A n \in Numbers : n # Zero /\ IsNumber(n)
    BY DEF Numbers, Number, Zero, IsNumber
  <1>2. \A p, q \in Proc : \A n \in Numbers : Result(p, n[2], q) \in Word
    BY DEF Numbers, Number, Word
  <1>3. \A w \in Word : IsNumber(w) => w \in Numbers
    BY DEF Word, IsNumber, Zero, Result, Numbers
  <1> QED
    BY <1>1, <1>2, <1>3 DEF Word, Numbers

(* What an undisturbed call is told apart by: its number is no result.     *)
LEMMA SentFacts ==
    ASSUME NEW p, call[p] \in Calls
    PROVE  /\ Sent(p) \in Numbers /\ IsNumber(Sent(p)) /\ Sent(p) # Zero
           /\ Sent(p)[2] = Stubs[call[p]].number
  BY WordFacts DEF Sent, Numbers, Number

(* Every stub that returns a value makes a request that is answered.       *)
LEMMA ReturningIsAnswered ==
    \A c \in Calls : Stubs[c].returns => Answers(Stubs[c].number)
  <1> DEFINE Fine(stubs) == \A c \in DOMAIN stubs : stubs[c].returns => Answers(stubs[c].number)
  <1>1. Fine(ProcessStubs)
    BY DEF ProcessStubs, Stub, Answers
  <1>2. Fine(BlockingStubs)
    BY DEF BlockingStubs, Stub, Answers
  <1>3. Fine(DeviceStubs)
    BY DEF DeviceStubs, Stub, Answers
  <1>4. Fine(SignalStubs)
    BY DEF SignalStubs, Stub, Answers
  <1> QED
    BY <1>1, <1>2, <1>3, <1>4, CallsAssumption DEF Stubs

-----------------------------------------------------------------------------
(* A process that never called a stub is undisturbed and has no answer due.*)
LEMMA InitInvariant == Init => IInv
  <1> SUFFICES ASSUME Init PROVE IInv
    OBVIOUS
  <1>1. TypeOK
    BY WordFacts DEF Init, TypeOK, Blocked, Slot
  <1>2. ControlOK /\ ArgumentsOwned
    BY DEF Init, ControlOK, ArgumentsOwned, Labels, Slot
  <1>3. \A p \in Proc : Undisturbed(p)
    <2>1. "none" \notin Calls
      BY CallsAssumption
         DEF Stubs, ProcessStubs, BlockingStubs, DeviceStubs, SignalStubs
    <2> QED
      BY <2>1 DEF Init, Undisturbed, Slot
  <1> QED
    BY <1>1, <1>2, <1>3 DEF IInv

(* What one process does outside the kernel is nothing to an undisturbed   *)
(* call of another: that one is in none of its windows.                    *)
LEMMA OtherUndisturbed ==
    ASSUME IInv, NEW p \in Proc, p # process, process' = process,
           eax'[p] = eax[p], edx'[p] = edx[p], UNCHANGED saved,
           pc'[p] = pc[p], call'[p] = call[p], got'[p] = got[p], cut'[p] = cut[p]
    PROVE  Undisturbed(p)'
  BY DEF IInv, Undisturbed, HandedOver, HandedBack, Windows, Sent, OwnAnswer, saved

(* Each instruction outside the kernel preserves the invariant, va_start to *)
(* int on the way in, the two moves of ret_val on the way out.             *)
LEMMA EnterStep ==
    ASSUME IInv, NEW c \in Calls, Enter(c)
    PROVE  IInv'
  <1>0. process \in Proc /\ process' = process
    BY DEF Enter, Executes, IInv, TypeOK, Slot
  <1>1. TypeOK'
    BY WordFacts DEF Enter, IInv, TypeOK, Blocked, saved, statics
  <1>2. ControlOK'
    BY DEF Enter, Executes, IInv, ControlOK, Slot, Labels
  <1>3. ArgumentsOwned'
    BY DEF Enter, Executes, IInv, ControlOK, ArgumentsOwned, Slot, saved, statics
  <1>4. ASSUME NEW p \in Proc PROVE Undisturbed(p)'
    <2>1. CASE p = process
      BY <2>1
         DEF Enter, Executes, IInv, ControlOK, ArgumentsOwned, Undisturbed, HandedOver,
             HandedBack, Windows, Slot, saved
    <2>2. CASE p # process
      BY <2>2, OtherUndisturbed DEF Enter, Executes
    <2> QED
      BY <2>1, <2>2
  <1> QED
    BY <1>1, <1>2, <1>3, <1>4 DEF IInv

LEMMA VaStartStep ==
    ASSUME IInv, VaStart
    PROVE  IInv'
  <1>0. process \in Proc /\ process' = process
    BY DEF VaStart, Executes, IInv, TypeOK, Slot
  <1>1. TypeOK'
    BY DEF VaStart, IInv, TypeOK, Blocked, saved
  <1>2. ControlOK'
    BY DEF VaStart, Executes, IInv, ControlOK, Slot, Labels
  <1>3. ArgumentsOwned'
    BY <1>0 DEF VaStart, Executes, IInv, ControlOK, ArgumentsOwned, Slot, saved
  <1>4. ASSUME NEW p \in Proc PROVE Undisturbed(p)'
    <2>1. CASE p = process
      BY <2>1
         DEF VaStart, Executes, IInv, ControlOK, Undisturbed, HandedOver, HandedBack,
             Sent, Slot, saved
    <2>2. CASE p # process
      BY <2>2, OtherUndisturbed DEF VaStart, Executes
    <2> QED
      BY <2>1, <2>2
  <1> QED
    BY <1>1, <1>2, <1>3, <1>4 DEF IInv

LEMMA SetNumberStep ==
    ASSUME IInv, SetNumber
    PROVE  IInv'
  <1>0. process \in Proc /\ process' = process
    BY DEF SetNumber, Executes, IInv, TypeOK, Slot
  <1>1. TypeOK'
    BY <1>0, WordFacts
       DEF SetNumber, Executes, IInv, TypeOK, ControlOK, Blocked, saved, Numbers
  <1>2. ControlOK'
    BY DEF SetNumber, Executes, IInv, ControlOK, Slot, Labels
  <1>3. ArgumentsOwned'
    BY DEF SetNumber, Executes, IInv, ControlOK, ArgumentsOwned, Slot, saved
  <1>4. ASSUME NEW p \in Proc PROVE Undisturbed(p)'
    <2>1. CASE p = process
      BY <2>1
         DEF SetNumber, Executes, IInv, ControlOK, Undisturbed, HandedOver, HandedBack,
             Windows, Sent, Slot, saved
    <2>2. CASE p # process
      BY <2>2, OtherUndisturbed DEF SetNumber, Executes
    <2> QED
      BY <2>1, <2>2
  <1> QED
    BY <1>1, <1>2, <1>3, <1>4 DEF IInv

LEMMA ClearResultStep ==
    ASSUME IInv, ClearResult
    PROVE  IInv'
  <1>0. process \in Proc /\ process' = process
    BY DEF ClearResult, Executes, IInv, TypeOK, Slot
  <1>1. TypeOK'
    BY WordFacts DEF ClearResult, IInv, TypeOK, Blocked, saved
  <1>2. ControlOK'
    BY DEF ClearResult, Executes, IInv, ControlOK, Slot, Labels
  <1>3. ArgumentsOwned'
    BY DEF ClearResult, Executes, IInv, ControlOK, ArgumentsOwned, Slot, saved
  <1>4. ASSUME NEW p \in Proc PROVE Undisturbed(p)'
    <2>1. CASE p = process
      BY <2>1
         DEF ClearResult, Executes, IInv, ControlOK, Undisturbed, HandedOver,
             HandedBack, Windows, Sent, Slot, saved
    <2>2. CASE p # process
      BY <2>2, OtherUndisturbed DEF ClearResult, Executes, IInv, ControlOK, Slot
    <2> QED
      BY <2>1, <2>2
  <1> QED
    BY <1>1, <1>2, <1>3, <1>4 DEF IInv

LEMMA LoadNumberStep ==
    ASSUME IInv, LoadNumber
    PROVE  IInv'
  <1>0. process \in Proc /\ process' = process
    BY DEF LoadNumber, Executes, IInv, TypeOK, Slot
  <1>1. TypeOK'
    BY DEF LoadNumber, IInv, TypeOK, Blocked, saved, statics
  <1>2. ControlOK'
    BY DEF LoadNumber, Executes, IInv, ControlOK, Slot, Labels
  <1>3. ArgumentsOwned'
    BY DEF LoadNumber, Executes, IInv, ControlOK, ArgumentsOwned, Slot, saved, statics
  <1>4. ASSUME NEW p \in Proc PROVE Undisturbed(p)'
    <2>1. CASE p = process
      BY <2>1
         DEF LoadNumber, Executes, IInv, TypeOK, ControlOK, Undisturbed, HandedOver,
             HandedBack, Windows, Sent, saved, statics
    <2>2. CASE p # process
      BY <2>2, OtherUndisturbed DEF LoadNumber, Executes, IInv, TypeOK, ControlOK, Slot
    <2> QED
      BY <2>1, <2>2
  <1> QED
    BY <1>1, <1>2, <1>3, <1>4 DEF IInv

LEMMA LoadArgsStep ==
    ASSUME IInv, LoadArgs
    PROVE  IInv'
  <1>0. process \in Proc /\ process' = process
    BY DEF LoadArgs, Executes, IInv, TypeOK, Slot
  <1>1. TypeOK'
    BY DEF LoadArgs, IInv, TypeOK, Blocked, saved, statics
  <1>2. ControlOK'
    BY DEF LoadArgs, Executes, IInv, ControlOK, Slot, Labels
  <1>3. ArgumentsOwned'
    BY DEF LoadArgs, Executes, IInv, TypeOK, ControlOK, ArgumentsOwned, Slot, saved,
       statics
  <1>4. ASSUME NEW p \in Proc PROVE Undisturbed(p)'
    <2>1. CASE p = process
      BY <2>1
         DEF LoadArgs, Executes, IInv, TypeOK, ControlOK, Undisturbed, HandedOver,
             HandedBack, Windows, Sent, saved, statics
    <2>2. CASE p # process
      BY <2>2, OtherUndisturbed DEF LoadArgs, Executes, IInv, TypeOK, ControlOK, Slot
    <2> QED
      BY <2>1, <2>2
  <1> QED
    BY <1>1, <1>2, <1>3, <1>4 DEF IInv

LEMMA StoreResultStep ==
    ASSUME IInv, StoreResult
    PROVE  IInv'
  <1>0. process \in Proc /\ process' = process
    BY DEF StoreResult, Executes, IInv, TypeOK, Slot
  <1>1. TypeOK'
    BY DEF StoreResult, IInv, TypeOK, Blocked, saved
  <1>2. ControlOK'
    BY DEF StoreResult, Executes, IInv, ControlOK, Slot, Labels
  <1>3. ArgumentsOwned'
    BY DEF StoreResult, Executes, IInv, TypeOK, ControlOK, ArgumentsOwned, Blocked,
       Slot, saved
  <1>4. ASSUME NEW p \in Proc PROVE Undisturbed(p)'
    <2>1. CASE p = process
      BY <2>1
         DEF StoreResult, Executes, IInv, TypeOK, ControlOK, Undisturbed, HandedOver,
             HandedBack, OwnAnswer, Blocked, saved
    <2>2. CASE p # process
      BY <2>2, OtherUndisturbed DEF StoreResult, Executes, IInv, ControlOK, Slot
    <2> QED
      BY <2>1, <2>2
  <1> QED
    BY <1>1, <1>2, <1>3, <1>4 DEF IInv

LEMMA LoadResultStep ==
    ASSUME IInv, LoadResult
    PROVE  IInv'
  <1>0. process \in Proc /\ process' = process
    BY DEF LoadResult, Executes, IInv, TypeOK, Slot
  <1>1. TypeOK'
    BY DEF LoadResult, IInv, TypeOK, Blocked, saved, statics
  <1>2. ControlOK'
    BY DEF LoadResult, Executes, IInv, ControlOK, Slot, Labels
  <1>3. ArgumentsOwned'
    BY DEF LoadResult, Executes, IInv, ControlOK, ArgumentsOwned, Slot, saved, statics
  <1>4. ASSUME NEW p \in Proc PROVE Undisturbed(p)'
    <2>1. CASE p = process
      BY <2>1
         DEF LoadResult, Executes, IInv, TypeOK, ControlOK, Undisturbed, HandedOver,
             HandedBack, Windows, Sent, OwnAnswer, saved
    <2>2. CASE p # process
      BY <2>2, OtherUndisturbed DEF LoadResult, Executes, IInv, TypeOK, ControlOK, Slot
    <2> QED
      BY <2>1, <2>2
  <1> QED
    BY <1>1, <1>2, <1>3, <1>4 DEF IInv

LEMMA ReturnStep ==
    ASSUME IInv, Return
    PROVE  IInv'
  <1>0. process \in Proc /\ process' = process
    BY DEF Return, Executes, IInv, TypeOK, Slot
  <1>1. TypeOK'
    BY WordFacts DEF Return, IInv, TypeOK, Blocked, saved, statics
  <1>2. ControlOK'
    BY DEF Return, Executes, IInv, ControlOK, Slot
  <1>3. ArgumentsOwned'
    BY DEF Return, Executes, IInv, ControlOK, ArgumentsOwned, Slot, saved, statics
  <1>4. ASSUME NEW p \in Proc PROVE Undisturbed(p)'
    <2>1. CASE p = process
      BY <2>1
         DEF Return, Executes, IInv, TypeOK, ControlOK, ArgumentsOwned, Undisturbed,
             HandedOver, HandedBack, Windows, OwnAnswer, Slot, saved
    <2>2. CASE p # process
      BY <2>2, OtherUndisturbed DEF Return, Executes
    <2> QED
      BY <2>1, <2>2
  <1> QED
    BY <1>1, <1>2, <1>3, <1>4 DEF IInv

-----------------------------------------------------------------------------
(* The kernel runs next a process that is not blocked, or the idle one.    *)
LEMMA CandidateFacts ==
    ASSUME NEW blocked, NEW q \in Candidates(blocked)
    PROVE  q \in Slot /\ q \notin blocked \cap Proc
  BY CallsAssumption DEF Candidates, Slot

(* Whoever is answered while it waits gets its own answer if undisturbed,  *)
(* and nobody else's result changes.                                       *)
LEMMA AnsweredFacts ==
    ASSUME IInv, NEW woken \in SUBSET Blocked
    PROVE  /\ Answered(woken) \in [Slot -> Word]
           /\ \A q \in Slot \ woken : Answered(woken)[q] = cpu_eax[q]
           /\ \A q \in woken : call[q] \in Calls /\ ~cut[q] => Answered(woken)[q] = OwnAnswer(q)
  <1>1. \A q \in woken : q \in Proc /\ q \in Slot /\ pending[q] \in Numbers /\ arguments[q] \in Proc
    BY DEF IInv, ArgumentsOwned, Blocked, Slot
  <1>2. Answered(woken) \in [Slot -> Word]
    BY <1>1, WordFacts DEF Answered, IInv, TypeOK
  <1>3. ASSUME NEW q \in woken, call[q] \in Calls, ~cut[q]
        PROVE  Answered(woken)[q] = OwnAnswer(q)
    BY <1>1, <1>3, SentFacts DEF Answered, IInv, Undisturbed, HandedOver, Blocked, OwnAnswer
  <1> QED
    BY <1>1, <1>2, <1>3 DEF Answered

(* An interrupt outside the windows leaves an undisturbed call undisturbed:*)
(* the caller's result is in its PCB, where the switch back finds it.      *)
LEMMA InterruptStep ==
    ASSUME IInv, Interrupt
    PROVE  IInv'
  <1>1. PICK woken \in SUBSET Blocked :
          /\ pending' = [q \in Slot |-> IF q \in woken THEN Zero ELSE pending[q]]
          /\ \E q \in Candidates(Blocked \ woken) : SwitchTo(q, Answered(woken))
    BY DEF Interrupt
  <1>2. /\ process' \in Slot /\ process' \notin Blocked \ woken
        /\ cpu_eax' = Answered(woken) /\ eax' = [eax EXCEPT ![process'] = cpu_eax'[process']]
    BY <1>1, CandidateFacts DEF SwitchTo, Restored, Blocked
  <1>3. /\ cpu_eax' \in [Slot -> Word]
        /\ \A q \in Slot \ woken : cpu_eax'[q] = cpu_eax[q]
        /\ \A q \in woken : call[q] \in Calls /\ ~cut[q] => cpu_eax'[q] = OwnAnswer(q)
    BY <1>2, AnsweredFacts
  <1>4. \A q \in Slot : pending'[q] = IF q \in woken THEN Zero ELSE pending[q]
    BY <1>1
  <1>5. TypeOK'
    BY <1>1, <1>2, <1>3, WordFacts DEF Interrupt, IInv, TypeOK, Blocked, statics
  <1>6. ControlOK'
    BY DEF Interrupt, IInv, ControlOK
  <1>7. ArgumentsOwned'
    BY DEF Interrupt, IInv, ArgumentsOwned, statics
  <1>8. ASSUME NEW p \in Proc PROVE Undisturbed(p)'
    <2> SUFFICES ASSUME call[p] \in Calls, ~cut'[p]
                 PROVE  HandedOver(p)' /\ (Stubs[call[p]].returns => HandedBack(p)')
      BY DEF Interrupt, Undisturbed
    <2>1. ~cut[p] /\ pc[p] \notin Windows
      BY DEF Interrupt, IInv, ControlOK, Undisturbed, HandedOver, Slot
    <2>2. HandedOver(p) /\ (Stubs[call[p]].returns => HandedBack(p))
      BY <2>1 DEF IInv, Undisturbed
    <2>3. HandedOver(p)'
      BY <2>1, <2>2 DEF Interrupt, HandedOver, Windows, Sent, Slot
    <2>4. ASSUME Stubs[call[p]].returns PROVE HandedBack(p)'
      <3>1. pc'[p] \in {"store result", "ret"} /\ pending'[p] = Zero => cpu_eax'[p] = OwnAnswer(p)
        BY <1>3, <1>4, <2>1, <2>2, <2>4 DEF Interrupt, HandedBack, Slot
      <3>2. process' = p => eax'[p] = cpu_eax'[p]
        BY <1>2 DEF IInv, TypeOK, Slot
      <3> QED
        BY <2>1, <2>2, <2>4, <3>1, <3>2 DEF Interrupt, HandedBack, Windows, OwnAnswer
    <2> QED
      BY <2>3, <2>4
  <1> QED
    BY <1>5, <1>6, <1>7, <1>8 DEF IInv

(* What a call does to the PCBs: the caller is answered from its own       *)
(* arguments or left waiting with its own number, those woken are          *)
(* answered, the others are let alone.                                     *)
LEMMA ServeFacts ==
    ASSUME IInv, process \in Proc, edx[process] \in Proc,
           NEW n \in Numbers, NEW woken \in SUBSET Blocked, Serve(n[2], woken)
    PROVE  /\ process' \in Slot /\ process' \notin {q \in Proc : pending'[q] # Zero}
           /\ eax' = [eax EXCEPT ![process'] = cpu_eax'[process']]
           /\ cpu_eax' \in [Slot -> Word] /\ pending' \in [Slot -> Word]
           /\ \A q \in Slot \ (woken \cup {process}) :
                cpu_eax'[q] = cpu_eax[q] /\ pending'[q] = pending[q]
           /\ \A q \in woken :
                pending'[q] = Zero /\ (call[q] \in Calls /\ ~cut[q] => cpu_eax'[q] = OwnAnswer(q))
           /\ \/ pending'[process] = n
              \/ /\ pending'[process] = Zero
                 /\ Answers(n[2]) => cpu_eax'[process] = Result(process, n[2], edx[process])
  <1> DEFINE p == process
             number == n[2]
             mine == Result(p, number, Kept(p)[p])
             others == Blocked \ woken
             answered == Answered(woken)
             results == IF Answers(number) THEN [answered EXCEPT ![p] = mine] ELSE answered
             Freed == [q \in Slot |-> IF q \in woken THEN Zero ELSE pending[q]]
  <1>1. /\ p \in Slot /\ p \notin woken /\ woken \subseteq Proc /\ pending[p] = Zero
        /\ mine = Result(p, number, edx[p]) /\ mine \in Word /\ Number(number) = n
        /\ Zero \in Word /\ n \in Word
    BY WordFacts DEF IInv, TypeOK, Blocked, Kept, Number, Numbers
  <1>2. /\ answered \in [Slot -> Word]
        /\ \A q \in Slot \ woken : answered[q] = cpu_eax[q]
        /\ \A q \in woken : call[q] \in Calls /\ ~cut[q] => answered[q] = OwnAnswer(q)
    BY AnsweredFacts
  <1>3. Freed \in [Slot -> Word]
    BY <1>1 DEF IInv, TypeOK
  <1> HIDE DEF answered
  <1>4. CASE /\ pending' = Freed
             /\ \E q \in IF CallsNext(number) THEN Candidates(others) ELSE {p} : SwitchTo(q, results)
    <2>1. process' \in Slot /\ process' \notin others
      BY <1>1, <1>4, CandidateFacts DEF SwitchTo, Blocked
    <2>2. cpu_eax' = results /\ eax' = [eax EXCEPT ![process'] = cpu_eax'[process']]
      BY <1>4 DEF SwitchTo, Restored
    <2>3. process' \notin {q \in Proc : pending'[q] # Zero}
      BY <1>4, <2>1 DEF Blocked, Slot
    <2>4. /\ results \in [Slot -> Word]
          /\ \A q \in Slot \ {p} : results[q] = answered[q]
          /\ Answers(number) => results[p] = mine
      BY <1>1, <1>2
    <2> HIDE DEF results
    <2> QED
      BY <1>1, <1>2, <1>3, <1>4, <2>1, <2>2, <2>3, <2>4 DEF Slot
  <1>5. CASE /\ pending' = [Freed EXCEPT ![p] = Number(number)]
             /\ \E q \in Candidates(others \cup {p}) : SwitchTo(q, [answered EXCEPT ![p] = Zero])
    <2>1. process' \in Slot /\ process' \notin others \cup {p}
      BY <1>5, CandidateFacts DEF SwitchTo, Blocked
    <2>2. cpu_eax' = [answered EXCEPT ![p] = Zero] /\ eax' = [eax EXCEPT ![process'] = cpu_eax'[process']]
      BY <1>5 DEF SwitchTo, Restored
    <2>3. process' \notin {q \in Proc : pending'[q] # Zero}
      BY <1>5, <2>1 DEF Blocked, Slot
    <2> QED
      BY <1>1, <1>2, <1>3, <1>5, <2>1, <2>2, <2>3 DEF Slot
  <1> QED
    BY <1>4, <1>5 DEF Serve, answered

(* A trap whose %eax holds no call number switches straight back.  Only a  *)
(* disturbed call can get there.                                           *)
LEMMA TrapStep ==
    ASSUME IInv, Trap
    PROVE  IInv'
  <1> DEFINE p == process
  <1>1. /\ p \in Proc /\ p \in Slot /\ pc[p] = "int" /\ edx[p] \in Proc /\ pending[p] = Zero
        /\ pc' = [pc EXCEPT ![p] = "store result"] /\ call[p] \in Calls
        /\ arguments' = [arguments EXCEPT ![p] = edx[p]]
        /\ UNCHANGED <<statics, edx, call, got, cut>>
    BY DEF Trap, Executes, Kept, IInv, TypeOK, ControlOK, ArgumentsOwned, Slot
  <1>2. ControlOK'
    BY <1>1 DEF IInv, ControlOK, Labels, Slot
  <1>3. \A q \in Proc : ~cut[q] /\ call[q] \in Calls /\ q # p => pc[q] \notin Windows
    BY DEF IInv, Undisturbed, HandedOver
  <1>4. CASE ~IsNumber(eax[p])
    <2>1. process' = p /\ UNCHANGED <<pending, cpu_eax>> /\ eax' = [eax EXCEPT ![p] = cpu_eax[p]]
      BY <1>4 DEF Trap, SwitchTo, Restored
    <2>2. cut[p]
      <3>1. IsNumber(Sent(p))
        BY <1>1, SentFacts
      <3>2. ~cut[p] => eax[p] = Sent(p)
        BY <1>1 DEF IInv, Undisturbed, HandedOver
      <3> QED
        BY <1>4, <3>1, <3>2
    <2>3. TypeOK'
      BY <1>1, <2>1 DEF IInv, TypeOK, Blocked, statics
    <2>4. ArgumentsOwned'
      BY <1>1, <2>1 DEF IInv, TypeOK, ControlOK, ArgumentsOwned, statics, Slot
    <2>5. ASSUME NEW q \in Proc PROVE Undisturbed(q)'
      <3>1. CASE q = p
        BY <1>1, <2>2, <3>1 DEF Undisturbed
      <3>2. CASE q # p
        BY <1>1, <2>1, <3>2
           DEF IInv, TypeOK, ControlOK, Undisturbed, HandedOver, HandedBack, Sent,
               OwnAnswer, statics, Slot
      <3> QED
        BY <3>1, <3>2
    <2> QED
      BY <1>2, <2>3, <2>4, <2>5 DEF IInv
  <1>5. CASE IsNumber(eax[p])
    <2> DEFINE n == eax[p]
    <2>1. n \in Numbers
      BY <1>5, WordFacts DEF IInv, TypeOK
    <2>2. PICK woken \in SUBSET Blocked : Serve(n[2], woken)
      BY <1>5 DEF Trap
    <2>3. /\ process' \in Slot /\ process' \notin {q \in Proc : pending'[q] # Zero}
          /\ eax' = [eax EXCEPT ![process'] = cpu_eax'[process']]
          /\ cpu_eax' \in [Slot -> Word] /\ pending' \in [Slot -> Word]
          /\ \A q \in Slot \ (woken \cup {p}) : cpu_eax'[q] = cpu_eax[q] /\ pending'[q] = pending[q]
          /\ \A q \in woken :
               pending'[q] = Zero /\ (call[q] \in Calls /\ ~cut[q] => cpu_eax'[q] = OwnAnswer(q))
          /\ \/ pending'[p] = n
             \/ pending'[p] = Zero /\ (Answers(n[2]) => cpu_eax'[p] = Result(p, n[2], edx[p]))
      BY <1>1, <2>1, <2>2, ServeFacts
    <2>4. TypeOK'
      BY <1>1, <2>3 DEF IInv, TypeOK, Blocked, statics
    <2>5. ArgumentsOwned'
      <3>1. ASSUME NEW q \in Slot, pending'[q] # Zero
            PROVE  q \in Proc /\ pc'[q] = "store result" /\ pending'[q] \in Numbers /\ arguments'[q] \in Proc
        BY <1>1, <2>1, <2>3, <3>1 DEF IInv, TypeOK, ControlOK, ArgumentsOwned, Slot
      <3> QED
        BY <1>1, <3>1 DEF IInv, ControlOK, ArgumentsOwned, statics, Slot
    <2>6. ASSUME NEW q \in Proc PROVE Undisturbed(q)'
      <3> SUFFICES ASSUME call[q] \in Calls, ~cut[q]
                   PROVE  HandedOver(q)' /\ (Stubs[call[q]].returns => HandedBack(q)')
        BY <1>1 DEF Undisturbed
      <3>1. HandedOver(q) /\ (Stubs[call[q]].returns => HandedBack(q))
        BY DEF IInv, Undisturbed
      <3>2. process' = q => eax'[q] = cpu_eax'[q]
        BY <2>3 DEF IInv, TypeOK, Slot
      <3>3. CASE q = p
        <4>1. n = Sent(q) /\ edx[q] = q /\ n[2] = Stubs[call[q]].number
          BY <1>1, <3>1, <3>3, SentFacts DEF HandedOver
        <4>2. HandedOver(q)'
          BY <1>1, <2>3, <3>3, <4>1
             DEF HandedOver, Windows, Sent, IInv, TypeOK, ControlOK
        <4>3. ASSUME Stubs[call[q]].returns, pending'[q] = Zero
              PROVE  cpu_eax'[q] = OwnAnswer(q)
          BY <2>1, <2>3, <3>3, <4>1, <4>3, WordFacts, ReturningIsAnswered DEF OwnAnswer
        <4> QED
          BY <1>1, <3>2, <3>3, <4>2, <4>3 DEF HandedBack, OwnAnswer, IInv, ControlOK
      <3>4. CASE q # p
        <4>1. pc'[q] = pc[q] /\ pc[q] \notin Windows
          BY <1>1, <1>3, <3>4 DEF IInv, ControlOK, Slot
        <4>2. HandedOver(q)'
          BY <1>1, <2>3, <3>1, <4>1 DEF HandedOver, Windows, Sent, IInv, TypeOK, Slot
        <4>3. ASSUME Stubs[call[q]].returns PROVE HandedBack(q)'
          BY <1>1, <2>3, <3>1, <3>2, <4>1, <4>3 DEF HandedBack, OwnAnswer, Windows, Slot
        <4> QED
          BY <4>2, <4>3
      <3> QED
        BY <3>3, <3>4
    <2> QED
      BY <1>2, <2>4, <2>5, <2>6 DEF IInv
  <1> QED
    BY <1>4, <1>5

-----------------------------------------------------------------------------
(* The invariant holds for any processes and any stubs.                    *)
THEOREM CallInvariant == Spec => []IInv
  <1>1. Init => IInv
    BY InitInvariant
  <1>2. IInv /\ [Next]_vars => IInv'
    <2> SUFFICES ASSUME IInv, [Next]_vars PROVE IInv'
      OBVIOUS
    <2>1. CASE Next
      BY <2>1, EnterStep, VaStartStep, SetNumberStep, ClearResultStep, LoadNumberStep,
         LoadArgsStep, TrapStep, StoreResultStep, LoadResultStep, ReturnStep,
         InterruptStep
         DEF Next
    <2>2. CASE UNCHANGED vars
      BY <2>2
         DEF vars, statics, saved, IInv, TypeOK, Blocked, ControlOK, ArgumentsOwned,
             Undisturbed, HandedOver, HandedBack, Sent, OwnAnswer
    <2> QED
      BY <2>1, <2>2
  <1> QED
    BY <1>1, <1>2, PTL DEF Spec

(* The registers, the statics and the PCB fields hold the words they may.  *)
THEOREM TypeCorrect == Spec => []TypeOK
  BY CallInvariant, PTL DEF IInv

(* c/syscall.c:20: a call that is not interrupted between va_start and     *)
(* int, nor between storing and loading ret_val, returns the answer to     *)
(* itself, whatever the others do meanwhile.                               *)
THEOREM OwnAnswerReturned == Spec => []UndisturbedCallReturns
  <1>1. IInv => UndisturbedCallReturns
    BY DEF IInv, Undisturbed, HandedBack, UndisturbedCallReturns, Finished
  <1> QED
    BY <1>1, CallInvariant, PTL

=============================================================================

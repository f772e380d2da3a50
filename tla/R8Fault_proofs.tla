--------------------------- MODULE R8Fault_proofs ---------------------------
(***************************************************************************)
(* Proofs about R8Fault, for any tasks, interrupts and number of starts    *)
(* and anything that cold DDR may hold.  What makes the record of a masked *)
(* death and the count of starts right is who can still execute at each    *)
(* point: once a CPU exception is taken nobody else does, and while        *)
(* start-up is under way no task does.                                     *)
(***************************************************************************)
EXTENDS R8Fault, SequenceTheorems, TLAPS

Dying   == {"enter", "args", "name", "type", "disarm", "mask", "spin"}
Booted  == at[Boot] = "up"
Working == {"args", "name", "type"}

(* Who executes, and where the others are.                                 *)
ControlInv ==
  /\ at[Boot] \in {"read", "clear", "fill", "magic", "up"}
  /\ \A t \in Task : at[t] \in {"run", "pump"} \cup Dying
  /\ \A x \in Masked : at[x] \in {"run", "refresh"} \cup Dying
  /\ \A x \in Exception : at[x] # "run" <=> cur = x
  /\ at["stack_overflow"] # "run" => cur \in Masked
  /\ cur = "stack_overflow" => at[cur] # "run"
  /\ cur = Boot => ~Booted
  /\ ~Booted => cur \in Exception \cup {Boot}
                /\ \A t \in Task : at[t] = "run"
  /\ \A a \in Cause : at[a] \in Dying \cup {"refresh"} => a \in died

(* What start-up leaves of an old record, and of cold DDR.                 *)
BootInv ==
  /\ cur = Boot /\ at[Boot] \in {"fill", "magic"} =>
       ~box.magic /\ box.fault_type = NoOne
  /\ Booted => box.magic /\ box.fault_type \in died \cup {NoOne}

(* The words of a record, while it is written and when its type shows.     *)
RecordInv ==
  /\ RecordComplete
  /\ \A a \in Cause :
       /\ at[a] \in Working => box.magic
       /\ at[a] \in {"name", "type"} => box.fault_args # NoOne
       /\ at[a] = "type" => box.fault_task # NoOne

(* Nobody else writes into the record of a masked death.                   *)
WholeInv ==
  /\ MaskedRecordIsWhole
  /\ cur \in Task => box.fault_type \notin Masked
  /\ cur \in Masked =>
       /\ at[cur] \in Working => box.fault_type = NoOne
       /\ at[cur] \in {"name", "type"} => box.fault_args = cur
       /\ at[cur] = "type" => box.fault_task = cur

(* The count on its way through the register of start-up.                  *)
CountInv ==
  /\ boots < starts
  /\ box.magic => box.boot_count <= (IF Booted THEN starts ELSE starts - 1)
  /\ cur = Boot /\ at[Boot] = "magic" => box.boot_count = boots + 1
  /\ ~lost /\ Booted => box.boot_count = starts
  /\ ~lost /\ cur = Boot /\ at[Boot] \in {"clear", "fill", "magic"} =>
       boots = starts - 1
  /\ ~lost /\ cur = Boot /\ at[Boot] = "read" =>
       IF box.magic THEN box.boot_count = starts - 1 ELSE starts = 1

(* Behind the disarming the outputs stay off.                              *)
OutputsInv == cur \in Masked /\ at[cur] \in {"mask", "spin"} => ~outputs

(* Behind the refresh the words are those of the abort; guard and epilogue *)
(* disagree only while an interrupt is between the two, with interrupts    *)
(* masked.                                                                 *)
EpilogueInv ==
  /\ cur = "data_abort" /\ at[cur] \in Dying /\ Booted =>
       box.epi_icciar = epi_id /\ box.fault_irq = irq_last
  /\ cur \in Task /\ iMask /\ irq # <<>> => irq_last = Head(irq)
  /\ irq_last # epi_id =>
       /\ cur # Boot
       /\ cur \in Task => iMask
       /\ irq # <<>> /\ Head(irq) = irq_last

IInv == /\ TypeOK
        /\ ControlInv
        /\ BootInv
        /\ RecordInv
        /\ WholeInv
        /\ CountInv
        /\ OutputsInv
        /\ EpilogueInv

-----------------------------------------------------------------------------
(* The type of the box, as TypeOK has it.                                  *)
BoxSet ==
  [magic : BOOLEAN, boot_count : Garbage \cup 0 .. MaxStarts,
   fault_type : Cause \cup {NoOne, Rubbish}, fault_args : Cause \cup {NoOne},
   fault_task : Cause \cup {NoOne},
   irq_last : Irq \cup {NoOne}, epi_icciar : Irq \cup {NoOne},
   fault_irq : Irq \cup {NoOne}]

(* The names are all different.                                            *)
LEMMA Names ==
  /\ Cause = Task \cup Masked
  /\ Masked = {"data_abort", "prefetch", "undef", "stack_overflow"}
  /\ Exception = {"data_abort", "prefetch", "undef"}
  /\ NoOne \notin Cause /\ Rubbish \notin Cause /\ NoOne # Rubbish
  /\ Boot = "boot" /\ Boot \notin Cause /\ Boot # NoOne
  /\ Task \cap Masked = {}
BY FaultAssumption DEF Cause, Masked, Exception, Boot

(* Cold DDR: no magic, any count, perhaps rubbish for a type.              *)
LEMMA ColdProps ==
  ASSUME NEW b \in ColdBox
  PROVE  /\ b \in BoxSet
         /\ ~b.magic /\ b.fault_type \in {NoOne, Rubbish}
         /\ b.fault_args = NoOne /\ b.fault_task = NoOne
<1>1. PICK left \in Garbage \X {NoOne, Rubbish} :
        b = [Cleared EXCEPT !.boot_count = left[1], !.fault_type = left[2]]
  BY DEF ColdBox
<1>2. QED
  BY <1>1, FaultAssumption DEF Cleared, BoxSet

(* The initial state satisfies the inductive invariant.                    *)
LEMMA InitInv == Init => IInv
<1> SUFFICES ASSUME Init PROVE IInv
  OBVIOUS
<1>1. TypeOK
  <2>1. box \in BoxSet
    BY ColdProps DEF Init
  <2>2. at \in [Cause \cup {Boot} -> Points]
    BY DEF Init, Booting, Points
  <2>3. irq \in Seq(Irq)
    BY DEF Init
  <2>4. starts \in 1 .. MaxStarts /\ boots \in 0 .. MaxStarts
    BY FaultAssumption DEF Init
  <2>5. QED
    BY <2>1, <2>2, <2>3, <2>4 DEF Init, TypeOK, BoxSet
<1>2. ControlInv
  BY Names DEF Init, Booting, ControlInv, Booted, Dying
<1>3. BootInv
  BY DEF Init, Booting, BootInv, Booted
<1>4. RecordInv
  BY ColdProps DEF Init, Booting, RecordInv, RecordComplete, Working
<1>5. WholeInv
  BY Names, ColdProps DEF Init, WholeInv, MaskedRecordIsWhole
<1>6. CountInv
  BY ColdProps DEF Init, Booting, CountInv, Booted
<1>7. OutputsInv
  BY DEF Init, OutputsInv
<1>8. EpilogueInv
  BY Names DEF Init, EpilogueInv
<1>9. QED
  BY <1>1, <1>2, <1>3, <1>4, <1>5, <1>6, <1>7, <1>8 DEF IInv

(* Start-up takes the count only from a box with its magic.                *)
LEMMA ReadBootCountKeeps ==
  ASSUME IInv, ReadBootCount PROVE IInv'
<1> USE DEF IInv, hist, sram
<1>1. TypeOK'
  BY FaultAssumption DEF ReadBootCount, Goto, Points, TypeOK, CountInv
<1>2. ControlInv'
  BY Names DEF ReadBootCount, Goto, ControlInv, Booted
<1>3. BootInv'
  BY DEF ReadBootCount, Goto, BootInv, Booted
<1>4. RecordInv'
  BY Names DEF ReadBootCount, Goto, RecordInv, RecordComplete
<1>5. WholeInv'
  BY Names DEF ReadBootCount, WholeInv, MaskedRecordIsWhole
<1>6. CountInv'
  BY FaultAssumption DEF ReadBootCount, Goto, TypeOK, CountInv, Booted
<1>7. OutputsInv'
  BY Names DEF ReadBootCount, OutputsInv
<1>8. EpilogueInv'
  BY Names DEF ReadBootCount, EpilogueInv
<1>9. QED
  BY <1>1, <1>2, <1>3, <1>4, <1>5, <1>6, <1>7, <1>8 DEF IInv

(* While start-up clears the box nobody is writing a record.               *)
LEMMA ClearBoxKeeps ==
  ASSUME IInv, ClearBox PROVE IInv'
<1> USE DEF IInv, hist, sram
<1>1. TypeOK'
  BY FaultAssumption DEF ClearBox, Goto, Cleared, Points, TypeOK
<1>2. ControlInv'
  BY Names DEF ClearBox, Goto, ControlInv, Booted
<1>3. BootInv'
  BY DEF ClearBox, Goto, Cleared, BootInv, Booted
<1>4. RecordInv'
  BY Names
  DEF ClearBox, Goto, Cleared, ControlInv, RecordInv, RecordComplete, Working
<1>5. WholeInv'
  BY Names DEF ClearBox, Cleared, WholeInv, MaskedRecordIsWhole
<1>6. CountInv'
  BY DEF ClearBox, Goto, Cleared, CountInv, Booted
<1>7. OutputsInv'
  BY Names DEF ClearBox, OutputsInv
<1>8. EpilogueInv'
  BY Names DEF ClearBox, EpilogueInv
<1>9. QED
  BY <1>1, <1>2, <1>3, <1>4, <1>5, <1>6, <1>7, <1>8 DEF IInv

(* The count fits: there are at most MaxStarts starts.                     *)
LEMMA FillBoxKeeps ==
  ASSUME IInv, FillBox PROVE IInv'
<1> USE DEF IInv, hist, sram
<1>1. TypeOK'
  <2>1. boots + 1 \in 0 .. MaxStarts
    BY FaultAssumption DEF TypeOK, CountInv
  <2>2. box' \in BoxSet
    BY <2>1 DEF FillBox, TypeOK, BoxSet
  <2>3. at' \in [Cause \cup {Boot} -> Points]
    BY DEF FillBox, Goto, TypeOK, Points
  <2>4. QED
    BY <2>2, <2>3 DEF FillBox, TypeOK, BoxSet
<1>2. ControlInv'
  BY Names DEF FillBox, Goto, ControlInv, Booted
<1>3. BootInv'
  BY DEF FillBox, Goto, BootInv, Booted
<1>4. RecordInv'
  BY Names DEF FillBox, Goto, RecordInv, RecordComplete
<1>5. WholeInv'
  BY Names DEF FillBox, WholeInv, MaskedRecordIsWhole
<1>6. CountInv'
  BY DEF FillBox, Goto, TypeOK, BootInv, CountInv
<1>7. OutputsInv'
  BY Names DEF FillBox, OutputsInv
<1>8. EpilogueInv'
  BY Names DEF FillBox, EpilogueInv
<1>9. QED
  BY <1>1, <1>2, <1>3, <1>4, <1>5, <1>6, <1>7, <1>8 DEF IInv

(* The magic shows a box without a fault.                                  *)
LEMMA WriteMagicKeeps ==
  ASSUME NEW t \in Task, IInv, WriteMagic(t) PROVE IInv'
<1> USE DEF IInv, hist, sram
<1>1. TypeOK'
  BY Names DEF WriteMagic, Goto, Points, TypeOK
<1>2. ControlInv'
  BY Names DEF WriteMagic, Goto, TypeOK, ControlInv, Booted
<1>3. BootInv'
  BY Names DEF WriteMagic, BootInv
<1>4. RecordInv'
  BY DEF WriteMagic, Goto, BootInv, RecordInv, RecordComplete
<1>5. WholeInv'
  BY Names DEF WriteMagic, BootInv, WholeInv, MaskedRecordIsWhole
<1>6. CountInv'
  BY DEF WriteMagic, Goto, TypeOK, CountInv, Booted
<1>7. OutputsInv'
  BY Names DEF WriteMagic, OutputsInv
<1>8. EpilogueInv'
  BY Names DEF WriteMagic, EpilogueInv
<1>9. QED
  BY <1>1, <1>2, <1>3, <1>4, <1>5, <1>6, <1>7, <1>8 DEF IInv

(* Tasks follow tasks.                                                     *)
LEMMA PreemptKeeps ==
  ASSUME NEW t \in Task, IInv, Preempt(t) PROVE IInv'
<1> USE DEF IInv, hist, sram
<1>1. TypeOK'
  BY Names DEF Preempt, TypeOK
<1>2. RecordInv'
  BY DEF Preempt, RecordInv, RecordComplete
<1>3. ControlInv'
  BY Names DEF Preempt, ControlInv, Booted
<1>4. BootInv'
  BY Names DEF Preempt, ControlInv, BootInv
<1>5. WholeInv'
  BY Names DEF Preempt, WholeInv, MaskedRecordIsWhole
<1>6. CountInv'
  BY Names DEF Preempt, CountInv, Booted
<1>7. OutputsInv'
  BY Names DEF Preempt, OutputsInv
<1>8. EpilogueInv'
  BY Names DEF Preempt, EpilogueInv
<1>9. QED
  BY <1>1, <1>2, <1>3, <1>4, <1>5, <1>6, <1>7, <1>8 DEF IInv

(* An interrupt leaves the box alone: where it is taken guard and epilogue *)
(* agree,                                                                  *)
LEMMA InterruptKeeps ==
  ASSUME NEW i \in Irq, IInv, IRQ_Handler(i) PROVE IInv'
<1> USE DEF IInv, hist, sram
<1>1. TypeOK'
  BY DEF IRQ_Handler, TypeOK
<1>2. ControlInv' /\ BootInv' /\ RecordInv' /\ WholeInv'
      /\ CountInv' /\ OutputsInv'
  BY DEF IRQ_Handler, ControlInv, BootInv, RecordInv, RecordComplete, WholeInv,
         MaskedRecordIsWhole, CountInv, OutputsInv, Booted
<1>3. EpilogueInv'
  BY Names DEF IRQ_Handler, EpilogueInv
<1>4. QED
  BY <1>1, <1>2, <1>3 DEF IInv

(* the guard masks what would come between it and its epilogue,            *)
LEMMA GuardKeeps ==
  ASSUME IInv, r8_irq_guard PROVE IInv'
<1> USE DEF IInv, hist, sram
<1>1. TypeOK'
  BY DEF r8_irq_guard, TypeOK
<1>2. ControlInv' /\ BootInv' /\ RecordInv' /\ WholeInv'
      /\ CountInv' /\ OutputsInv'
  BY DEF r8_irq_guard, ControlInv, BootInv, RecordInv, RecordComplete,
         WholeInv, MaskedRecordIsWhole, CountInv, OutputsInv, Booted
<1>3. EpilogueInv'
  BY Names DEF r8_irq_guard, EpilogueInv
<1>4. QED
  BY <1>1, <1>2, <1>3 DEF IInv

(* and the epilogue is that of the last guard.                             *)
LEMMA EpilogueKeeps ==
  ASSUME IInv, Epilogue PROVE IInv'
<1> USE DEF IInv, hist, sram
<1>1. TypeOK'
  <2>1. Head(irq) \in Irq /\ Tail(irq) \in Seq(Irq)
    BY DEF Epilogue, TypeOK
  <2>2. QED
    BY <2>1 DEF Epilogue, TypeOK
<1>2. ControlInv' /\ BootInv' /\ RecordInv' /\ WholeInv'
      /\ CountInv' /\ OutputsInv'
  BY DEF Epilogue, ControlInv, BootInv, RecordInv, RecordComplete, WholeInv,
         MaskedRecordIsWhole, CountInv, OutputsInv, Booted
<1>3. EpilogueInv'
  BY Names DEF Epilogue, EpilogueInv
<1>4. QED
  BY <1>1, <1>2, <1>3 DEF IInv

(* The pump writes none of the words of the record.                        *)
LEMMA PumpIrqLastKeeps ==
  ASSUME IInv, PumpIrqLast PROVE IInv'
<1> USE DEF IInv, hist, sram
<1>1. TypeOK'
  BY DEF PumpIrqLast, Set, Goto, Points, TypeOK
<1>2. ControlInv'
  BY Names DEF PumpIrqLast, Goto, ControlInv, Booted, Dying
<1>3. BootInv'
  BY DEF PumpIrqLast, Set, ControlInv, BootInv
<1>4. RecordInv'
  BY DEF PumpIrqLast, Set, Goto, ControlInv, BootInv, RecordInv, RecordComplete
<1>5. WholeInv'
  BY Names DEF PumpIrqLast, Set, WholeInv, MaskedRecordIsWhole
<1>6. CountInv'
  BY DEF PumpIrqLast, Set, Goto, CountInv, Booted
<1>7. OutputsInv'
  BY Names DEF PumpIrqLast, OutputsInv
<1>8. EpilogueInv'
  BY Names DEF PumpIrqLast, EpilogueInv
<1>9. QED
  BY <1>1, <1>2, <1>3, <1>4, <1>5, <1>6, <1>7, <1>8 DEF IInv

(* The same holds of its second half.                                      *)
LEMMA PumpEpilogueKeeps ==
  ASSUME IInv, PumpEpilogue PROVE IInv'
<1> USE DEF IInv, hist, sram
<1>1. TypeOK'
  BY DEF PumpEpilogue, Set, Goto, Points, TypeOK
<1>2. ControlInv'
  BY Names DEF PumpEpilogue, Goto, ControlInv, Booted, Dying
<1>3. BootInv'
  BY DEF PumpEpilogue, Set, ControlInv, BootInv
<1>4. RecordInv'
  BY Names DEF PumpEpilogue, Set, Goto, ControlInv, RecordInv, RecordComplete
<1>5. WholeInv'
  BY Names DEF PumpEpilogue, Set, WholeInv, MaskedRecordIsWhole
<1>6. CountInv'
  BY DEF PumpEpilogue, Set, Goto, CountInv, Booted
<1>7. OutputsInv'
  BY Names DEF PumpEpilogue, OutputsInv
<1>8. EpilogueInv'
  BY Names DEF PumpEpilogue, EpilogueInv
<1>9. QED
  BY <1>1, <1>2, <1>3, <1>4, <1>5, <1>6, <1>7, <1>8 DEF IInv

(* Only a task starts the outputs.                                         *)
LEMMA ArmOutputsKeeps ==
  ASSUME IInv, ArmOutputs PROVE IInv'
<1> USE DEF IInv, hist, sram
<1>1. TypeOK'
  BY DEF ArmOutputs, TypeOK
<1>2. ControlInv' /\ BootInv' /\ RecordInv' /\ WholeInv'
      /\ CountInv' /\ EpilogueInv'
  BY DEF ArmOutputs, ControlInv, BootInv, RecordInv, RecordComplete, WholeInv,
         MaskedRecordIsWhole, CountInv, EpilogueInv, Booted
<1>3. OutputsInv'
  BY DEF ArmOutputs, OutputsInv
<1>4. QED
  BY <1>1, <1>2, <1>3 DEF IInv

(* A task begins to die.                                                   *)
LEMMA MallocFailedKeeps ==
  ASSUME IInv, vApplicationMallocFailedHook PROVE IInv'
<1> USE DEF IInv, hist, sram
<1>1. TypeOK'
  BY Names DEF vApplicationMallocFailedHook, Goto, Points, TypeOK
<1>2. ControlInv'
  BY DEF vApplicationMallocFailedHook, Goto, ControlInv, Booted, Dying
<1>3. BootInv'
  BY DEF vApplicationMallocFailedHook, ControlInv, BootInv
<1>4. RecordInv'
  BY DEF vApplicationMallocFailedHook, Goto, ControlInv, BootInv, RecordInv,
         RecordComplete
<1>5. WholeInv'
  BY Names DEF vApplicationMallocFailedHook, WholeInv, MaskedRecordIsWhole
<1>6. CountInv'
  BY DEF vApplicationMallocFailedHook, Goto, CountInv, Booted
<1>7. OutputsInv'
  BY Names DEF vApplicationMallocFailedHook, OutputsInv
<1>8. EpilogueInv'
  BY Names DEF vApplicationMallocFailedHook, EpilogueInv
<1>9. QED
  BY <1>1, <1>2, <1>3, <1>4, <1>5, <1>6, <1>7, <1>8 DEF IInv

(* The first masked death but for the exceptions.                          *)
LEMMA StackOverflowKeeps ==
  ASSUME IInv, vApplicationStackOverflowHook PROVE IInv'
<1> USE DEF IInv, hist, sram
<1>1. TypeOK'
  BY Names DEF vApplicationStackOverflowHook, Goto, Points, TypeOK
<1>2. ControlInv'
  BY Names
  DEF vApplicationStackOverflowHook, Goto, TypeOK, ControlInv, Booted, Dying
<1>3. BootInv'
  BY Names DEF vApplicationStackOverflowHook, ControlInv, BootInv
<1>4. RecordInv'
  BY DEF vApplicationStackOverflowHook, Goto, ControlInv, BootInv, RecordInv,
         RecordComplete
<1>5. WholeInv'
  BY Names
  DEF vApplicationStackOverflowHook, Goto, TypeOK, WholeInv,
      MaskedRecordIsWhole, Working
<1>6. CountInv'
  BY Names DEF vApplicationStackOverflowHook, Goto, CountInv, Booted
<1>7. OutputsInv'
  BY Names DEF vApplicationStackOverflowHook, Goto, TypeOK, OutputsInv
<1>8. EpilogueInv'
  BY DEF vApplicationStackOverflowHook, EpilogueInv
<1>9. QED
  BY <1>1, <1>2, <1>3, <1>4, <1>5, <1>6, <1>7, <1>8 DEF IInv

(* A CPU exception ends the execution of everybody else.                   *)
LEMMA TakeExceptionKeeps ==
  ASSUME NEW x \in Exception, IInv, TakeException(x) PROVE IInv'
<1> USE DEF IInv, hist, sram
<1>1. TypeOK'
  BY Names DEF TakeException, Goto, Points, TypeOK
<1>2. ControlInv'
  BY Names DEF TakeException, Goto, TypeOK, ControlInv, Booted, Dying
<1>3. BootInv'
  BY Names DEF TakeException, Goto, BootInv, Booted
<1>4. RecordInv'
  BY DEF TakeException, Goto, RecordInv, RecordComplete, Working
<1>5. WholeInv'
  BY Names
  DEF TakeException, Goto, TypeOK, WholeInv, MaskedRecordIsWhole, Working
<1>6. CountInv'
  BY Names DEF TakeException, Goto, CountInv, Booted
<1>7. OutputsInv'
  BY Names DEF TakeException, Goto, TypeOK, OutputsInv
<1>8. EpilogueInv'
  BY Names DEF TakeException, Goto, TypeOK, EpilogueInv, Dying
<1>9. QED
  BY <1>1, <1>2, <1>3, <1>4, <1>5, <1>6, <1>7, <1>8 DEF IInv

(* The refresh copies the words of guard and epilogue.                     *)
LEMMA RefreshKeeps ==
  ASSUME IInv, RefreshFromSram PROVE IInv'
<1> USE DEF IInv, hist, sram
<1>0. /\ \A w \in {"magic", "boot_count", "fault_type", "fault_args", "fault_task"} :
           box'[w] = box[w]
      /\ box.magic => box'.epi_icciar = epi_id /\ box'.fault_irq = irq_last
  BY DEF RefreshFromSram, Set, TypeOK
<1>1. TypeOK'
  BY DEF RefreshFromSram, Set, Goto, Points, TypeOK
<1>2. ControlInv'
  BY DEF RefreshFromSram, Goto, ControlInv, Booted, Dying
<1>3. BootInv'
  BY <1>0 DEF RefreshFromSram, Goto, BootInv, Booted
<1>4. RecordInv'
  BY <1>0 DEF RefreshFromSram, Goto, RecordInv, RecordComplete, Working
<1>5. WholeInv'
  BY <1>0 DEF RefreshFromSram, Goto, WholeInv, MaskedRecordIsWhole, Working
<1>6. CountInv'
  BY <1>0 DEF RefreshFromSram, Goto, CountInv, Booted
<1>7. OutputsInv'
  BY DEF RefreshFromSram, Goto, OutputsInv
<1>8. EpilogueInv'
  BY <1>0, Names
  DEF RefreshFromSram, Goto, TypeOK, BootInv, EpilogueInv, Booted
<1>9. QED
  BY <1>1, <1>2, <1>3, <1>4, <1>5, <1>6, <1>7, <1>8 DEF IInv

(* A box without its magic holds no record that is being written.          *)
LEMMA EnterFaultKeeps ==
  ASSUME IInv, EnterFault PROVE IInv'
<1> USE DEF IInv, hist, sram
<1>1. TypeOK'
  <2>1. box' \in BoxSet
    <3>1. 0 \in 0 .. MaxStarts
      BY FaultAssumption
    <3>2. [Cleared EXCEPT !.magic = TRUE] \in BoxSet
      BY <3>1 DEF BoxSet, Cleared
    <3>3. QED
      BY <3>2 DEF EnterFault, TypeOK, BoxSet
  <2>2. at' \in [Cause \cup {Boot} -> Points]
    BY DEF EnterFault, Goto, TypeOK, Points
  <2>3. QED
    BY <2>1, <2>2 DEF EnterFault, TypeOK, BoxSet
<1>2. ControlInv'
  BY DEF EnterFault, Goto, ControlInv, Booted, Dying
<1>3. BootInv'
  BY DEF EnterFault, Goto, BootInv, Booted
<1>4. RecordInv'
  BY DEF EnterFault, Goto, Cleared, RecordInv, RecordComplete, Working
<1>5. WholeInv'
  BY Names
  DEF EnterFault, Goto, Cleared, WholeInv, MaskedRecordIsWhole, Working
<1>6. CountInv'
  BY DEF EnterFault, Goto, Cleared, TypeOK, BootInv, CountInv, Booted
<1>7. OutputsInv'
  BY DEF EnterFault, Goto, OutputsInv
<1>8. EpilogueInv'
  BY Names DEF EnterFault, Goto, ControlInv, BootInv, EpilogueInv, Booted
<1>9. QED
  BY <1>1, <1>2, <1>3, <1>4, <1>5, <1>6, <1>7, <1>8 DEF IInv

(* The arguments come first,                                               *)
LEMMA WriteArgsKeeps ==
  ASSUME IInv, WriteArgs PROVE IInv'
<1> USE DEF IInv, hist, sram
<1>1. TypeOK'
  BY DEF WriteArgs, Goto, Points, TypeOK
<1>2. ControlInv'
  BY DEF WriteArgs, Goto, ControlInv, Booted, Dying
<1>3. BootInv'
  BY DEF WriteArgs, Goto, BootInv, Booted
<1>4. RecordInv'
  BY Names DEF WriteArgs, Goto, RecordInv, RecordComplete, Working
<1>5. WholeInv'
  BY Names DEF WriteArgs, Goto, WholeInv, MaskedRecordIsWhole, Working
<1>6. CountInv'
  BY DEF WriteArgs, Goto, CountInv, Booted
<1>7. OutputsInv'
  BY DEF WriteArgs, Goto, OutputsInv
<1>8. EpilogueInv'
  BY Names DEF WriteArgs, Goto, ControlInv, EpilogueInv, Booted
<1>9. QED
  BY <1>1, <1>2, <1>3, <1>4, <1>5, <1>6, <1>7, <1>8 DEF IInv

(* then the name,                                                          *)
LEMMA WriteNameKeeps ==
  ASSUME IInv, WriteName PROVE IInv'
<1> USE DEF IInv, hist, sram
<1>1. TypeOK'
  BY DEF WriteName, Goto, Points, TypeOK
<1>2. ControlInv'
  BY DEF WriteName, Goto, ControlInv, Booted, Dying
<1>3. BootInv'
  BY DEF WriteName, Goto, BootInv, Booted
<1>4. RecordInv'
  BY Names DEF WriteName, RecordInv, RecordComplete, Working
<1>5. WholeInv'
  BY Names DEF WriteName, WholeInv, MaskedRecordIsWhole, Working
<1>6. CountInv'
  BY DEF WriteName, Goto, CountInv, Booted
<1>7. OutputsInv'
  BY DEF WriteName, Goto, OutputsInv
<1>8. EpilogueInv'
  BY Names DEF WriteName, Goto, ControlInv, EpilogueInv, Booted
<1>9. QED
  BY <1>1, <1>2, <1>3, <1>4, <1>5, <1>6, <1>7, <1>8 DEF IInv

(* then the type, when the rest is there.                                  *)
LEMMA WriteTypeKeeps ==
  ASSUME IInv, WriteType PROVE IInv'
<1> USE DEF IInv, hist, sram
<1>1. TypeOK'
  BY DEF WriteType, Goto, Points, TypeOK
<1>2. ControlInv'
  BY DEF WriteType, Goto, ControlInv, Booted, Dying
<1>3. BootInv'
  BY Names DEF WriteType, Goto, ControlInv, BootInv, Booted
<1>4. RecordInv'
  BY DEF WriteType, RecordInv, RecordComplete, Working
<1>5. WholeInv'
  BY Names DEF WriteType, Goto, TypeOK, WholeInv, MaskedRecordIsWhole, Working
<1>6. CountInv'
  BY DEF WriteType, Goto, CountInv, Booted
<1>7. OutputsInv'
  BY DEF WriteType, Goto, OutputsInv
<1>8. EpilogueInv'
  BY Names DEF WriteType, Goto, ControlInv, EpilogueInv, Booted
<1>9. QED
  BY <1>1, <1>2, <1>3, <1>4, <1>5, <1>6, <1>7, <1>8 DEF IInv

(* The outputs go off before the core goes dark.                           *)
LEMMA DisarmKeeps ==
  ASSUME IInv, r8_disarm_outputs PROVE IInv'
<1> USE DEF IInv, hist, sram
<1>1. TypeOK'
  <2>1. at' \in [Cause \cup {Boot} -> Points]
    BY DEF r8_disarm_outputs, Goto, TypeOK, Points
  <2>2. QED
    BY <2>1 DEF r8_disarm_outputs, TypeOK
<1>2. ControlInv'
  BY DEF r8_disarm_outputs, Goto, ControlInv, Booted, Dying
<1>3. BootInv'
  BY DEF r8_disarm_outputs, Goto, BootInv, Booted
<1>4. RecordInv'
  BY DEF r8_disarm_outputs, Goto, RecordInv, RecordComplete, Working
<1>5. WholeInv'
  BY DEF r8_disarm_outputs, Goto, WholeInv, MaskedRecordIsWhole, Working
<1>6. CountInv'
  BY DEF r8_disarm_outputs, Goto, CountInv, Booted
<1>7. OutputsInv'
  BY DEF r8_disarm_outputs, OutputsInv
<1>8. EpilogueInv'
  BY Names DEF r8_disarm_outputs, Goto, ControlInv, EpilogueInv, Booted
<1>9. QED
  BY <1>1, <1>2, <1>3, <1>4, <1>5, <1>6, <1>7, <1>8 DEF IInv

(* The hooks mask behind the disarming, when no interrupt is on top.       *)
LEMMA DisableKeeps ==
  ASSUME IInv, cur \in Task => irq = <<>>, DisableInterrupts PROVE IInv'
<1> USE DEF IInv, hist, sram
<1>1. TypeOK'
  BY DEF DisableInterrupts, Goto, Points, TypeOK
<1>2. ControlInv'
  BY DEF DisableInterrupts, Goto, ControlInv, Booted, Dying
<1>3. BootInv'
  BY DEF DisableInterrupts, Goto, BootInv, Booted
<1>4. RecordInv'
  BY DEF DisableInterrupts, Goto, RecordInv, RecordComplete, Working
<1>5. WholeInv'
  BY DEF DisableInterrupts, Goto, WholeInv, MaskedRecordIsWhole, Working
<1>6. CountInv'
  BY DEF DisableInterrupts, Goto, CountInv, Booted
<1>7. OutputsInv'
  BY DEF DisableInterrupts, OutputsInv
<1>8. EpilogueInv'
  BY Names DEF DisableInterrupts, Goto, ControlInv, EpilogueInv, Booted
<1>9. QED
  BY <1>1, <1>2, <1>3, <1>4, <1>5, <1>6, <1>7, <1>8 DEF IInv

(* A restart that was not cut short finds an exact count.                  *)
LEMMA WarmRestartKeeps ==
  ASSUME IInv, WarmRestart PROVE IInv'
<1> USE DEF IInv, hist, sram
<1>1. TypeOK'
  BY FaultAssumption DEF WarmRestart, RestartCore, Booting, Points, TypeOK
<1>2. ControlInv'
  BY Names DEF WarmRestart, RestartCore, Booting, ControlInv, Booted, Dying
<1>3. BootInv'
  BY DEF WarmRestart, RestartCore, Booting, BootInv, Booted
<1>4. RecordInv'
  BY Names
  DEF WarmRestart, RestartCore, Booting, ControlInv, RecordInv, RecordComplete
<1>5. WholeInv'
  BY Names DEF WarmRestart, RestartCore, WholeInv, MaskedRecordIsWhole
<1>6. CountInv'
  <2>1. at'[Boot] = "read" /\ cur' = Boot
    BY DEF WarmRestart, RestartCore, Booting
  <2>2. ~lost' => ~lost /\ Booted
    BY DEF WarmRestart, Booted
  <2>3. box.boot_count \in Nat
    <3>1. box.boot_count \in Garbage \/ box.boot_count \in 0 .. MaxStarts
      BY DEF TypeOK
    <3>2. \A n \in Garbage : n \in Nat
      BY FaultAssumption
    <3>3. \A n \in 0 .. MaxStarts : n \in Nat
      BY FaultAssumption
    <3>4. QED
      BY <3>1, <3>2, <3>3
  <2>4. starts' = starts + 1 /\ boots' = 0 /\ box' = box
    BY DEF WarmRestart, RestartCore
  <2>5. boots' < starts' /\ (box.magic => box.boot_count < starts')
    BY <2>3, <2>4, FaultAssumption DEF TypeOK, CountInv
  <2>6. ~lost' => box.magic /\ box.boot_count = starts' - 1
    BY <2>2, <2>3, <2>4, FaultAssumption DEF TypeOK, CountInv, BootInv
  <2>7. QED
    BY <2>1, <2>3, <2>4, <2>5, <2>6, FaultAssumption
    DEF CountInv, Booted, TypeOK
<1>7. OutputsInv'
  BY Names DEF WarmRestart, RestartCore, OutputsInv
<1>8. EpilogueInv'
  BY Names DEF WarmRestart, RestartCore, EpilogueInv
<1>9. QED
  BY <1>1, <1>2, <1>3, <1>4, <1>5, <1>6, <1>7, <1>8 DEF IInv

(* Cold DDR has no magic.                                                  *)
LEMMA PowerCycleKeeps ==
  ASSUME IInv, PowerCycle PROVE IInv'
<1> USE DEF IInv, hist, sram
<1>1. TypeOK'
  <2>1. box' \in BoxSet
    BY ColdProps DEF PowerCycle
  <2>2. at' \in [Cause \cup {Boot} -> Points]
    BY DEF PowerCycle, RestartCore, Booting, Points
  <2>3. irq' \in Seq(Irq)
    BY DEF PowerCycle, RestartCore
  <2>4. starts' \in 1 .. MaxStarts /\ boots' \in 0 .. MaxStarts
    BY FaultAssumption DEF PowerCycle, RestartCore
  <2>5. QED
    BY <2>1, <2>2, <2>3, <2>4 DEF PowerCycle, RestartCore, TypeOK, BoxSet
<1>2. ControlInv'
  BY Names DEF PowerCycle, RestartCore, Booting, ControlInv, Booted, Dying
<1>3. BootInv'
  BY DEF PowerCycle, RestartCore, Booting, BootInv, Booted
<1>4. RecordInv'
  BY ColdProps
  DEF PowerCycle, RestartCore, Booting, RecordInv, RecordComplete, Working
<1>5. WholeInv'
  BY Names, ColdProps
  DEF PowerCycle, RestartCore, WholeInv, MaskedRecordIsWhole
<1>6. CountInv'
  BY ColdProps DEF PowerCycle, RestartCore, Booting, CountInv, Booted
<1>7. OutputsInv'
  BY DEF PowerCycle, OutputsInv
<1>8. EpilogueInv'
  BY Names DEF PowerCycle, RestartCore, EpilogueInv
<1>9. QED
  BY <1>1, <1>2, <1>3, <1>4, <1>5, <1>6, <1>7, <1>8 DEF IInv

(* Nothing happens.                                                        *)
LEMMA StutterKeeps ==
  ASSUME IInv, UNCHANGED vars PROVE IInv'
<1> USE DEF IInv, hist, sram
<1>1. TypeOK'
  BY DEF vars, TypeOK
<1>2. ControlInv' /\ BootInv' /\ RecordInv' /\ WholeInv'
      /\ CountInv' /\ OutputsInv' /\ EpilogueInv'
  BY DEF vars, ControlInv, BootInv, RecordInv, RecordComplete, WholeInv,
         MaskedRecordIsWhole, CountInv, OutputsInv, EpilogueInv, Booted
<1>3. QED
  BY <1>1, <1>2 DEF IInv

(* Every step keeps the inductive invariant.                               *)
LEMMA StepInv == IInv /\ [Next]_vars => IInv'
<1> SUFFICES ASSUME IInv, [Next]_vars PROVE IInv'
  OBVIOUS
<1>1. CASE BootStep
  BY <1>1, ReadBootCountKeeps, ClearBoxKeeps, FillBoxKeeps, WriteMagicKeeps
  DEF BootStep
<1>2. CASE TaskStep
  BY <1>2, PreemptKeeps, InterruptKeeps, GuardKeeps, EpilogueKeeps,
     PumpIrqLastKeeps, PumpEpilogueKeeps, ArmOutputsKeeps DEF TaskStep
<1>3. CASE Fatal
  BY <1>3, MallocFailedKeeps, StackOverflowKeeps, TakeExceptionKeeps DEF Fatal
<1>4. CASE DeathStep
  BY <1>4, RefreshKeeps, EnterFaultKeeps, WriteArgsKeeps, WriteNameKeeps,
     WriteTypeKeeps, DisarmKeeps, DisableKeeps DEF DeathStep
<1>5. CASE WarmRestart \/ PowerCycle
  BY <1>5, WarmRestartKeeps, PowerCycleKeeps
<1>6. CASE UNCHANGED vars
  BY <1>6, StutterKeeps
<1>7. QED
  BY <1>1, <1>2, <1>3, <1>4, <1>5, <1>6 DEF Next

-----------------------------------------------------------------------------
(* The theorems.                                                           *)

(* Who executes, what the box holds and what is still to be written agree, *)
(* over all deaths, restarts and power cycles.                             *)
THEOREM InductiveInvariant == Spec => []IInv
<1>1. Init => IInv
  BY InitInv
<1>2. IInv /\ [Next]_vars => IInv'
  BY StepInv
<1>3. QED
  BY <1>1, <1>2, PTL DEF Spec

(* The box, the counts and the program points keep their types: the count  *)
(* of starts never leaves its range, whatever cold DDR held.               *)
THEOREM TypeCorrect == Spec => []TypeOK
<1>1. IInv => TypeOK
  BY DEF IInv
<1>2. QED
  BY <1>1, InductiveInvariant, PTL

(* A reader on Linux never sees a fault type without the record it stands  *)
(* for.                                                                    *)
THEOREM RecordIsComplete == Spec => []RecordComplete
<1>1. IInv => RecordComplete
  BY DEF IInv, RecordInv
<1>2. QED
  BY <1>1, InductiveInvariant, PTL

(* The record of a CPU exception or a stack overflow has one writer.       *)
THEOREM MaskedRecordsAreWhole == Spec => []MaskedRecordIsWhole
<1>1. IInv => MaskedRecordIsWhole
  BY DEF IInv, WholeInv
<1>2. QED
  BY <1>1, InductiveInvariant, PTL

(* No cause of death survives start-up.                                    *)
THEOREM CausesAreOfThisStart == Spec => []CauseIsOfThisStart
<1>1. IInv => CauseIsOfThisStart
  BY Names, FaultAssumption DEF IInv, BootInv, Booted, CauseIsOfThisStart
<1>2. QED
  BY <1>1, InductiveInvariant, PTL

(* The box never claims more starts than there were, and is exact when no  *)
(* start was cut short.                                                    *)
THEOREM BootCountIsHonest == Spec => []BootCountHonest
<1>1. IInv => BootCountHonest
  BY DEF IInv, CountInv, BootInv, Booted, TypeOK, BootCountHonest
<1>2. QED
  BY <1>1, InductiveInvariant, PTL

(* A core that has gone dark in a masked death drives no outputs.          *)
THEOREM MaskedDeathsAreSafe == Spec => []MaskedDeathIsSafe
<1>1. IInv => MaskedDeathIsSafe
  BY DEF IInv, OutputsInv, Dark, MaskedDeathIsSafe
<1>2. QED
  BY <1>1, InductiveInvariant, PTL

(* After a data abort the box tells the last guard and the last epilogue, *)
(* and the interrupt that the abort cut off between them if they differ.   *)
THEOREM LastInterruptIsTold == Spec => []LastInterruptTold
<1>1. IInv => LastInterruptTold
  BY DEF IInv, EpilogueInv, Booted, Dying, Dark, LastInterruptTold
<1>2. QED
  BY <1>1, InductiveInvariant, PTL

-----------------------------------------------------------------------------
(* The firmware and its box do what CoreBox allows.                        *)

(* Nobody has died as long as start-up runs.                               *)
AliveInv == cur = Boot => died = {}

(* What a reader sees, and what is behind it, does not change.             *)
SeenStill ==
  /\ box'.magic = box.magic
  /\ box'.fault_type # NoOne <=> box.fault_type # NoOne
  /\ Life' = Life

(* Only a start makes start-up run.                                        *)
LEMMA StepAlive == IInv /\ AliveInv /\ [Next]_vars => AliveInv'
<1> SUFFICES ASSUME IInv, AliveInv, [Next]_vars PROVE AliveInv'
  OBVIOUS
<1> USE DEF hist, sram
<1>1. CASE BootStep
  BY <1>1, Names
  DEF BootStep, ReadBootCount, ClearBox, FillBox, WriteMagic, AliveInv
<1>2. CASE TaskStep
  BY <1>2, Names
  DEF TaskStep, Preempt, IRQ_Handler, r8_irq_guard, Epilogue, PumpIrqLast,
      PumpEpilogue, ArmOutputs, AliveInv
<1>3. CASE Fatal
  BY <1>3, Names
  DEF Fatal, vApplicationMallocFailedHook, vApplicationStackOverflowHook,
      TakeException, AliveInv
<1>4. CASE DeathStep
  BY <1>4, Names
  DEF DeathStep, RefreshFromSram, EnterFault, WriteArgs, WriteName, WriteType,
      r8_disarm_outputs, DisableInterrupts, AliveInv
<1>5. CASE WarmRestart \/ PowerCycle
  BY <1>5 DEF WarmRestart, PowerCycle, RestartCore, AliveInv
<1>6. CASE UNCHANGED vars
  BY <1>6 DEF vars, AliveInv
<1>7. QED
  BY <1>1, <1>2, <1>3, <1>4, <1>5, <1>6 DEF Next

(* The life of a core that has come up, and of one that has not.           *)
LEMMA LifeUp ==
  ASSUME IInv, Booted
  PROVE  /\ box.magic
         /\ Life = IF box.fault_type # NoOne THEN "dead" ELSE "up"
BY DEF IInv, BootInv, Booted, Life

LEMMA LifeStarting ==
  ASSUME AliveInv, IInv, cur = Boot
  PROVE  Life = "boot"
BY DEF AliveInv, IInv, ControlInv, Booted, Life

(* Whoever executes the code of a death has died, and is not start-up.     *)
LEMMA TheDyingHaveDied ==
  ASSUME IInv, cur \in Cause, at[cur] \in Dying \cup {"refresh"}
  PROVE  cur \in died /\ cur # Boot
BY Names DEF IInv, ControlInv

(* Nobody but start-up moves its point or its box.                         *)
LEMMA SameBoxSame ==
  ASSUME box'.magic = box.magic, box'.fault_type = box.fault_type,
         died' = died, at'[Boot] = "up" <=> at[Boot] = "up"
  PROVE  SeenStill
BY DEF SeenStill, Life

(* Start-up wipes the box and brings the magic.                            *)
LEMMA BootSeen == IInv /\ AliveInv /\ BootStep => SeenStill \/ Seen!Next
<1> SUFFICES ASSUME IInv, AliveInv, BootStep PROVE SeenStill \/ Seen!Next
  OBVIOUS
<1>0. /\ at \in [Cause \cup {Boot} -> Points] /\ Boot \in Cause \cup {Boot}
      /\ box \in BoxSet
      /\ cur = Boot /\ died = {} /\ Life = "boot"
  BY LifeStarting
  DEF IInv, TypeOK, BoxSet, AliveInv, BootStep, ReadBootCount, ClearBox, FillBox,
      WriteMagic
<1>1. CASE ReadBootCount
  BY <1>0, <1>1, SameBoxSame DEF ReadBootCount, Goto, hist
<1>2. CASE ClearBox
  <2>1. ~box'.magic /\ box'.fault_type = NoOne /\ died' = {} /\ at'[Boot] = "fill"
    BY <1>0, <1>2 DEF ClearBox, Cleared, Goto, hist
  <2>2. Life' = "boot"
    BY <2>1 DEF Life
  <2>3. QED
    BY <1>0, <2>1, <2>2 DEF Seen!Next, Seen!Wipe
<1>3. CASE FillBox
  <2>1. /\ box'.magic = box.magic /\ box'.fault_type = box.fault_type
        /\ died' = died /\ at[Boot] = "fill" /\ at'[Boot] = "magic"
    BY <1>0, <1>3 DEF FillBox, Goto, hist, BoxSet
  <2>2. QED
    BY <2>1, SameBoxSame
<1>4. ASSUME NEW t \in Task, WriteMagic(t) PROVE Seen!Next
  <2>1. box'.magic /\ box'.fault_type = NoOne /\ at'[Boot] = "up"
    BY <1>0, <1>4 DEF WriteMagic, Goto, BoxSet, IInv, BootInv
  <2>2. Life' = "up"
    BY <2>1 DEF Life
  <2>3. QED
    BY <1>0, <2>1, <2>2 DEF Seen!Next, Seen!Ready
<1>5. QED
  BY <1>1, <1>2, <1>3, <1>4 DEF BootStep

(* The firmware at work shows nothing.                                     *)
LEMMA TaskSeen == IInv /\ TaskStep => SeenStill
<1> SUFFICES ASSUME IInv, TaskStep PROVE SeenStill
  OBVIOUS
<1>0. /\ at \in [Cause \cup {Boot} -> Points] /\ box \in BoxSet
      /\ cur \in Task /\ cur # Boot
  BY Names
  DEF IInv, TypeOK, BoxSet, TaskStep, Preempt, IRQ_Handler, r8_irq_guard, Epilogue,
      PumpIrqLast, PumpEpilogue, ArmOutputs
<1>1. died' = died /\ at'[Boot] = at[Boot]
  BY <1>0
  DEF TaskStep, Preempt, IRQ_Handler, r8_irq_guard, Epilogue, PumpIrqLast,
      PumpEpilogue, ArmOutputs, Goto, hist
<1>2. box'.magic = box.magic /\ box'.fault_type = box.fault_type
  BY <1>0
  DEF TaskStep, Preempt, IRQ_Handler, r8_irq_guard, Epilogue, PumpIrqLast,
      PumpEpilogue, ArmOutputs, Set, BoxSet
<1>3. QED
  BY <1>1, <1>2, SameBoxSame

(* The beginning of a death shows nothing; an exception in start-up leaves *)
(* the core dead with the record of an earlier start, if that is in a warm *)
(* box.                                                                    *)
LEMMA FatalSeen == IInv /\ AliveInv /\ Fatal => SeenStill \/ Seen!Next
<1> SUFFICES ASSUME IInv, AliveInv, Fatal PROVE SeenStill \/ Seen!Next
  OBVIOUS
<1>0. box' = box /\ died' # {} /\ at'[Boot] = at[Boot]
  <2>1. at \in [Cause \cup {Boot} -> Points] /\ Boot \notin Cause
    BY Names DEF IInv, TypeOK
  <2>2. PICK a \in Cause :
          \E p : at' = [at EXCEPT ![a] = p] /\ died' = died \cup {a} /\ box' = box
    BY Names
    DEF Fatal, vApplicationMallocFailedHook, vApplicationStackOverflowHook,
        TakeException, Goto
  <2>3. QED
    BY <2>1, <2>2
<1>1. CASE Booted
  <2>1. /\ box.magic
        /\ Life = IF box.fault_type # NoOne THEN "dead" ELSE "up"
    BY <1>1, LifeUp
  <2>2. Life' = IF box.fault_type # NoOne THEN "dead" ELSE "up"
    BY <1>0, <1>1, <2>1 DEF Life, Booted
  <2>3. QED
    BY <1>0, <2>1, <2>2 DEF SeenStill
<1>2. CASE ~Booted
  <2>1. cur = Boot
    BY <1>2, Names
    DEF IInv, ControlInv, Fatal, vApplicationMallocFailedHook,
        vApplicationStackOverflowHook, TakeException
  <2>2. Life = "boot"
    BY <2>1, LifeStarting
  <2>3. CASE box.magic /\ box.fault_type # NoOne
    <3>1. Life' = "dead"
      BY <1>0, <2>3 DEF Life
    <3>2. QED
      BY <1>0, <2>2, <2>3, <3>1 DEF Seen!Next, Seen!Record
  <2>4. CASE ~(box.magic /\ box.fault_type # NoOne)
    <3>1. Life' = "boot"
      BY <1>0, <1>2, <2>4 DEF Life, Booted
    <3>2. QED
      BY <1>0, <2>2, <3>1 DEF SeenStill
  <2>5. QED
    BY <2>3, <2>4
<1>3. QED
  BY <1>1, <1>2

(* A death shows with the type word.                                       *)
LEMMA DeathSeen == IInv /\ DeathStep => SeenStill \/ Seen!Next
<1> SUFFICES ASSUME IInv, DeathStep PROVE SeenStill \/ Seen!Next
  OBVIOUS
<1>0. /\ at \in [Cause \cup {Boot} -> Points] /\ box \in BoxSet
      /\ cur \in Cause /\ at[cur] \in Dying \cup {"refresh"}
  BY Names
  DEF IInv, TypeOK, BoxSet, DeathStep, RefreshFromSram, EnterFault, WriteArgs,
      WriteName, WriteType, r8_disarm_outputs, DisableInterrupts, Dying
<1>1. cur \in died /\ cur # Boot /\ cur # NoOne
  BY <1>0, TheDyingHaveDied, Names
<1>2. died' = died /\ at'[Boot] = at[Boot]
  BY <1>0, <1>1
  DEF DeathStep, RefreshFromSram, EnterFault, WriteArgs, WriteName, WriteType,
      r8_disarm_outputs, DisableInterrupts, Goto, hist
<1>3. CASE \/ RefreshFromSram \/ WriteArgs \/ WriteName
           \/ r8_disarm_outputs \/ DisableInterrupts
  <2>1. box'.magic = box.magic /\ box'.fault_type = box.fault_type
    BY <1>0, <1>3
    DEF RefreshFromSram, WriteArgs, WriteName, r8_disarm_outputs,
        DisableInterrupts, Set, BoxSet
  <2>2. QED
    BY <1>2, <2>1, SameBoxSame
<1>4. CASE EnterFault /\ box.magic
  BY <1>2, <1>4, SameBoxSame DEF EnterFault
<1>5. CASE EnterFault /\ ~box.magic
  <2>1. box'.magic /\ box'.fault_type = NoOne
    BY <1>5 DEF EnterFault, Cleared
  <2>2. ~Booted
    BY <1>5, LifeUp
  <2>3. Life = "boot" /\ Life' = "boot"
    BY <1>2, <1>5, <2>1, <2>2 DEF Life, Booted
  <2>4. QED
    BY <1>5, <2>1, <2>3 DEF Seen!Next, Seen!Stamp
<1>6. CASE WriteType
  <2>1. box.magic
    BY <1>0, <1>6 DEF WriteType, IInv, RecordInv, Working
  <2>2. box'.magic /\ box'.fault_type # NoOne
    BY <1>0, <1>1, <1>6, <2>1 DEF WriteType, BoxSet
  <2>3. Life' = "dead" /\ Life \in {"boot", "up", "dead"}
    BY <1>1, <1>2, <2>2 DEF Life
  <2>4. CASE Life = "dead"
    BY <2>1, <2>2, <2>3, <2>4 DEF Life, SeenStill
  <2>5. CASE Life \in {"boot", "up"}
    BY <2>2, <2>3, <2>5 DEF Seen!Next, Seen!Record
  <2>6. QED
    BY <2>3, <2>4, <2>5
<1>7. QED
  BY <1>3, <1>4, <1>5, <1>6 DEF DeathStep

(* A start, with or without power, is the beginning of another life.       *)
LEMMA StartSeen == WarmRestart \/ PowerCycle => Seen!Next
<1> SUFFICES ASSUME WarmRestart \/ PowerCycle PROVE Seen!Next
  OBVIOUS
<1>1. Life' = "boot"
  <2>1. died' = {} /\ at'[Boot] = "read"
    BY DEF WarmRestart, PowerCycle, RestartCore, Booting
  <2>2. QED
    BY <2>1 DEF Life
<1>2. CASE WarmRestart
  BY <1>1, <1>2 DEF WarmRestart, Seen!Next, Seen!Begin
<1>3. CASE PowerCycle
  BY <1>1, <1>3, ColdProps DEF PowerCycle, Seen!Next, Seen!Power
<1>4. QED
  BY <1>2, <1>3

(* The firmware implements CoreBox: for any tasks, interrupts and number   *)
(* of starts and whatever cold DDR holds, what Linux reads in the box      *)
(* follows the life of the core.                                           *)
THEOREM BoxKeepsItsPromise == Spec => RefinesCoreBox
<1>1. Init => Seen!Init /\ AliveInv
  <2>1. Init => Life = "boot" /\ died = {}
    BY DEF Init, Booting, Life
  <2>2. Init => ~box.magic
    BY ColdProps DEF Init
  <2>3. QED
    BY <2>1, <2>2 DEF Seen!Init, AliveInv
<1>2. SeenStill => UNCHANGED Seen!vars
  BY DEF SeenStill, Seen!vars
<1>3. UNCHANGED vars => SeenStill
  BY DEF vars, hist, SeenStill, Life
<1>4. IInv /\ AliveInv /\ [Next]_vars => [Seen!Next]_Seen!vars
  BY <1>2, <1>3, BootSeen, TaskSeen, FatalSeen, DeathSeen, StartSeen DEF Next
<1>5. IInv /\ AliveInv /\ [Next]_vars => AliveInv'
  BY StepAlive
<1>6. QED
  BY <1>1, <1>4, <1>5, InductiveInvariant, PTL DEF Spec, RefinesCoreBox, Seen!Spec

(* So a reader that knows what the core does knows what the box says: no   *)
(* fault and a magic once it is up, both once its death is recorded.       *)
THEOREM BoxIsTruthful == Spec => []Seen!Truthful
<1>1. Seen!Init => Seen!Truthful
  BY DEF Seen!Init, Seen!Truthful
<1>2. Seen!Truthful /\ [Seen!Next]_Seen!vars => Seen!Truthful'
  BY DEF Seen!Truthful, Seen!vars, Seen!Next, Seen!Stop, Seen!Begin, Seen!Run,
         Seen!Wipe, Seen!Ready, Seen!Stamp, Seen!Record, Seen!Power
<1>3. QED
  BY <1>1, <1>2, BoxKeepsItsPromise, PTL DEF RefinesCoreBox, Seen!Spec

-----------------------------------------------------------------------------
(* A masked death is short.                                                *)

(* Steps that a masked death has left; an exception that hits a stack      *)
(* overflow has its own way to go.                                         *)
DeathLeft ==
  (IF at[cur] = "refresh" THEN 7 ELSE IF at[cur] = "enter" THEN 6
   ELSE IF at[cur] = "args" THEN 5 ELSE IF at[cur] = "name" THEN 4
   ELSE IF at[cur] = "type" THEN 3 ELSE IF at[cur] = "disarm" THEN 2
   ELSE IF at[cur] = "mask" THEN 1 ELSE 0)
  + (IF cur = "stack_overflow" THEN 8 ELSE 0)

(* While a masked death is under way only a start stops it.                *)
DeathGoesOn ==
  cur \in Masked =>
    \/ cur' = Boot
    \/ cur' \in Masked /\ DeathLeft' < DeathLeft

(* Who dies masked is at one of these points.                              *)
LEMMA MaskedPoints ==
  ASSUME IInv, cur \in Masked
  PROVE  at[cur] \in Dying \cup {"refresh"}
BY Names DEF IInv, ControlInv

(* With interrupts masked nothing executes but the death, or an exception  *)
(* that hits it.                                                           *)
LEMMA MaskedStep ==
  ASSUME IInv, cur \in Masked, Next
  PROVE  \/ cur' = Boot
         \/ cur' \in Masked /\ DeathLeft' < DeathLeft
<1>0. /\ at \in [Cause \cup {Boot} -> Points]
      /\ cur \in Cause \cup {Boot} /\ cur # Boot /\ cur \notin Task
      /\ at[cur] \in Dying \cup {"refresh"}
  BY MaskedPoints, Names DEF IInv, TypeOK
<1>1. CASE BootStep
  BY <1>0, <1>1 DEF BootStep, ReadBootCount, ClearBox, FillBox, WriteMagic
<1>2. CASE TaskStep
  BY <1>0, <1>2
  DEF TaskStep, Preempt, IRQ_Handler, r8_irq_guard, Epilogue, PumpIrqLast,
      PumpEpilogue, ArmOutputs
<1>3. CASE Fatal
  <2>1. ~vApplicationMallocFailedHook /\ ~vApplicationStackOverflowHook
    BY <1>0 DEF vApplicationMallocFailedHook, vApplicationStackOverflowHook
  <2>2. PICK x \in Exception : TakeException(x)
    BY <1>3, <2>1 DEF Fatal
  <2>3. cur = "stack_overflow" /\ at[cur] # "spin"
    BY <2>2, Names DEF TakeException
  <2>4. /\ cur' = x /\ x \in Masked /\ x # "stack_overflow"
        /\ at'[x] \in {"refresh", "enter"}
    BY <1>0, <2>2, Names DEF TakeException, Goto
  <2>5. DeathLeft' \in 0 .. 7
    BY <2>4 DEF DeathLeft
  <2>6. DeathLeft \in 9 .. 15
    BY <1>0, <2>3 DEF DeathLeft, Dying
  <2>7. QED
    BY <2>4, <2>5, <2>6
<1>4. CASE DeathStep
  <2>1. cur' = cur
    BY <1>4
    DEF DeathStep, RefreshFromSram, EnterFault, WriteArgs, WriteName, WriteType,
        r8_disarm_outputs, DisableInterrupts
  <2>2. \/ at[cur] = "refresh" /\ at'[cur] = "enter"
        \/ at[cur] = "enter" /\ at'[cur] \in {"args", "disarm"}
        \/ at[cur] = "args" /\ at'[cur] = "name"
        \/ at[cur] = "name" /\ at'[cur] = "type"
        \/ at[cur] = "type" /\ at'[cur] = "disarm"
        \/ at[cur] = "disarm" /\ at'[cur] \in {"mask", "spin"}
        \/ at[cur] = "mask" /\ at'[cur] = "spin"
    BY <1>0, <1>4
    DEF DeathStep, RefreshFromSram, EnterFault, WriteArgs, WriteName, WriteType,
        r8_disarm_outputs, DisableInterrupts, Goto
  <2>3. DeathLeft' < DeathLeft
    BY <2>1, <2>2 DEF DeathLeft
  <2>4. QED
    BY <2>1, <2>3
<1>5. CASE WarmRestart \/ PowerCycle
  BY <1>5 DEF WarmRestart, PowerCycle, RestartCore
<1>6. QED
  BY <1>1, <1>2, <1>3, <1>4, <1>5 DEF Next

(* The part of DeathGetsSafe that needs no fairness: each step of a CPU    *)
(* exception or of a stack overflow takes it nearer to its end, whether it *)
(* finds a fault recorded already or not, nothing gets in between but a    *)
(* start or an exception that hits a stack overflow, and behind the        *)
(* disarming the outputs are off (r8_blackbox.c:112-136, 550-650).         *)
THEOREM MaskedDeathIsShort ==
  Spec => /\ [][DeathGoesOn]_vars
          /\ [](cur \in Masked /\ at[cur] \in {"mask", "spin"} => ~outputs)
<1>1. IInv /\ [Next]_vars => [DeathGoesOn]_vars
  BY MaskedStep DEF DeathGoesOn
<1>2. IInv => (cur \in Masked /\ at[cur] \in {"mask", "spin"} => ~outputs)
  BY DEF IInv, OutputsInv
<1>3. QED
  BY <1>1, <1>2, InductiveInvariant, PTL DEF Spec
=============================================================================

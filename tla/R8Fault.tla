------------------------------ MODULE R8Fault ------------------------------
(***************************************************************************)
(* The black box of the CR8 firmware and the paths that write a cause of   *)
(* death into it (blackbox/r8_blackbox.c, blackbox/r8_blackbox.h), on one  *)
(* core and over restarts of that core.                                    *)
(*                                                                         *)
(* The box lives in DDR and survives a restart.  It is written by the      *)
(* start-up code, by a pump that a task calls, and by whoever dies: a task *)
(* in vApplicationMallocFailedHook, which can be preempted until it masks  *)
(* interrupts; the stack-overflow hook, which the kernel calls with        *)
(* interrupts masked (from vTaskSwitchContext, itself called by            *)
(* SVC_Handler and IRQ_Handler); and the CPU exceptions, which mask        *)
(* interrupts and can hit anywhere.  Nobody who dies comes back.           *)
(*                                                                         *)
(* The words of a record are abstracted to the one who wrote them.         *)
(***************************************************************************)
EXTENDS Integers, FiniteSets, Sequences

CONSTANTS
  Task,       \* the FreeRTOS tasks
  Irq,        \* INTIDs, as the guard and the epilogue record them
  NoOne,      \* nothing: no cause of death, no interrupt
  Garbage,    \* what cold DDR may hold instead of a boot count
  Rubbish,    \* what cold DDR may hold instead of a cause of death
  MaxStarts   \* bound: starts of the core since DDR was cold

(* The ones who record a death with interrupts masked.                     *)
Exception == {"data_abort", "prefetch", "undef"}
Masked    == Exception \cup {"stack_overflow"}
Boot      == "boot"
Cause     == Task \cup Masked

ASSUME FaultAssumption ==
  /\ Task \cap (Masked \cup {Boot, NoOne, Rubbish}) = {}
  /\ NoOne \notin Masked \cup {Boot, Rubbish} \cup Irq
  /\ Rubbish \notin Masked \cup {Boot}
  /\ Garbage \subseteq Nat
  /\ MaxStarts \in Nat \ {0}

VARIABLES
  box,       \* r8_blackbox_t in DDR
  cur,       \* who executes: Boot, a task, or one that died
  at,        \* where each of them executes
  boots,     \* local of r8_blackbox_init
  iMask,     \* interrupts masked
  irq,       \* the interrupts taken and not ended, innermost first
  irq_last,  \* g_r8_irq_last, in SRAM
  epi_id,    \* g_r8_epi[7], the INTID of the last epilogue, in SRAM
  outputs,   \* the PWM hardware drives its outputs
  starts,    \* history: starts since DDR was cold
  lost,      \* history: a start ended before its magic was written
  died       \* history: those who started to die in this start

sram == <<irq_last, epi_id>>
hist == <<starts, lost, died>>
vars == <<box, cur, at, boots, iMask, irq, sram, outputs, hist>>

(* memset of the whole box.                                                *)
Cleared == [magic |-> FALSE, boot_count |-> 0, fault_type |-> NoOne,
            fault_args |-> NoOne, fault_task |-> NoOne,
            irq_last |-> NoOne, epi_icciar |-> NoOne, fault_irq |-> NoOne]

-----------------------------------------------------------------------------
(* Start-up: r8_blackbox_init.                                             *)

Goto(a, p) == at' = [at EXCEPT ![a] = p]

(* Fault: the count is kept whatever the magic says.                       *)
ReadBootCount_NoMagic ==
  /\ cur = Boot /\ at[Boot] = "read"
  /\ boots' = box.boot_count
  /\ Goto(Boot, "clear")
  /\ UNCHANGED <<box, cur, iMask, irq, sram, outputs, hist>>

ReadBootCount ==
  /\ cur = Boot /\ at[Boot] = "read"
  /\ boots' = IF box.magic THEN box.boot_count ELSE 0
  /\ Goto(Boot, "clear")
  /\ UNCHANGED <<box, cur, iMask, irq, sram, outputs, hist>>

(* Fault: a warm box is not cleared, as a firmware would do that wants to  *)
(* keep the counters.                                                      *)
ClearBox_ColdOnly ==
  /\ cur = Boot /\ at[Boot] = "clear"
  /\ box' = IF box.magic THEN box ELSE Cleared
  /\ Goto(Boot, "fill")
  /\ UNCHANGED <<cur, boots, iMask, irq, sram, outputs, hist>>

(* memset: until the magic is back the count is only in a register.        *)
ClearBox ==
  /\ cur = Boot /\ at[Boot] = "clear"
  /\ box' = Cleared
  /\ Goto(Boot, "fill")
  /\ UNCHANGED <<cur, boots, iMask, irq, sram, outputs, hist>>

FillBox ==
  /\ cur = Boot /\ at[Boot] = "fill"
  /\ box' = [box EXCEPT !.boot_count = boots + 1]
  /\ Goto(Boot, "magic")
  /\ UNCHANGED <<cur, boots, iMask, irq, sram, outputs, hist>>

(* The magic word is written last; then the scheduler starts.              *)
WriteMagic(t) ==
  /\ cur = Boot /\ at[Boot] = "magic"
  /\ box' = [box EXCEPT !.magic = TRUE]
  /\ Goto(Boot, "up")
  /\ cur' = t
  /\ iMask' = FALSE
  /\ UNCHANGED <<boots, irq, sram, outputs, hist>>

-----------------------------------------------------------------------------
(* The firmware at work.                                                   *)

Preempt(t) ==
  /\ cur \in Task /\ ~iMask /\ irq = <<>>
  /\ t # cur
  /\ cur' = t
  /\ UNCHANGED <<box, at, boots, iMask, irq, sram, outputs, hist>>

(* An interrupt is taken: its ISR runs with interrupts enabled, so that    *)
(* another one can be taken on top.                                        *)
IRQ_Handler(i) ==
  /\ cur \in Task /\ ~iMask
  /\ \A n \in DOMAIN irq : irq[n] # i
  /\ irq' = <<i>> \o irq
  /\ UNCHANGED <<box, cur, at, boots, iMask, sram, outputs, hist>>

(* The ISR is back, bsp_common_interrupt_handler has masked interrupts, and *)
(* vApplicationIRQHandler calls the guard, which notes the INTID.           *)
r8_irq_guard ==
  /\ cur \in Task /\ ~iMask /\ irq # <<>>
  /\ irq_last' = Head(irq)
  /\ iMask' = TRUE
  /\ UNCHANGED <<box, cur, at, boots, irq, epi_id, outputs, hist>>

(* Still masked, IRQ_Handler ends the interrupt, notes its INTID again and  *)
(* returns to what it interrupted.  A task that has masked interrupts has   *)
(* none to end.                                                             *)
Epilogue ==
  /\ cur \in Task /\ iMask /\ irq # <<>>
  /\ epi_id' = Head(irq)
  /\ irq' = Tail(irq)
  /\ iMask' = FALSE
  /\ UNCHANGED <<box, cur, at, boots, irq_last, outputs, hist>>

(* R8_BB_SET is a no-op while the magic is missing.                        *)
Set(b, field, value) == IF b.magic THEN [b EXCEPT ![field] = value] ELSE b

(* r8_blackbox_pump, called by a task: irq_last first, epi_icciar later.   *)
PumpIrqLast ==
  /\ cur \in Task /\ irq = <<>>
  /\ at[cur] = "run"
  /\ box' = Set(box, "irq_last", irq_last)
  /\ Goto(cur, "pump")
  /\ UNCHANGED <<cur, boots, iMask, irq, sram, outputs, hist>>

PumpEpilogue ==
  /\ cur \in Task /\ irq = <<>>
  /\ at[cur] = "pump"
  /\ box' = Set(box, "epi_icciar", epi_id)
  /\ Goto(cur, "run")
  /\ UNCHANGED <<cur, boots, iMask, irq, sram, outputs, hist>>

(* A PWM command from Linux starts the outputs.                            *)
ArmOutputs ==
  /\ cur \in Task /\ irq = <<>>
  /\ at[cur] = "run"
  /\ outputs' = TRUE
  /\ UNCHANGED <<box, cur, at, boots, iMask, irq, sram, hist>>

-----------------------------------------------------------------------------
(* Dying.                                                                  *)

(* pvPortMalloc fails in the running task, outside any critical section.   *)
vApplicationMallocFailedHook ==
  /\ cur \in Task /\ irq = <<>>
  /\ at[cur] = "run"
  /\ Goto(cur, "enter")
  /\ died' = died \cup {cur}
  /\ UNCHANGED <<box, cur, boots, iMask, irq, sram, outputs, starts, lost>>

(* vTaskSwitchContext finds the stack of the outgoing task overrun.        *)
vApplicationStackOverflowHook ==
  /\ cur \in Task /\ ~iMask /\ irq = <<>>
  /\ cur' = "stack_overflow"
  /\ Goto("stack_overflow", "enter")
  /\ iMask' = TRUE
  /\ died' = died \cup {"stack_overflow"}
  /\ UNCHANGED <<box, boots, irq, sram, outputs, starts, lost>>

(* A CPU exception hits the running code, be it start-up, a task, an       *)
(* interrupt or a hook that is dying already.                              *)
TakeException(x) ==
  /\ cur \notin Exception
  /\ at[cur] # "spin"
  /\ cur' = x
  /\ Goto(x, IF x = "data_abort" THEN "refresh" ELSE "enter")
  /\ iMask' = TRUE
  /\ died' = died \cup {x}
  /\ UNCHANGED <<box, boots, irq, sram, outputs, starts, lost>>

(* Fault: the abort handler leaves the copies of the pump in the box.      *)
Refresh_Nothing ==
  /\ cur = "data_abort" /\ at[cur] = "refresh"
  /\ Goto(cur, "enter")
  /\ UNCHANGED <<box, cur, boots, iMask, irq, sram, outputs, hist>>

(* Abort_Handler reads the diagnostics from SRAM again before it records   *)
(* the fault: the epilogue words over the copies of the pump, the INTID of *)
(* the last guard into a word of its own.                                  *)
RefreshFromSram ==
  /\ cur = "data_abort" /\ at[cur] = "refresh"
  /\ box' = Set(Set(box, "epi_icciar", epi_id), "fault_irq", irq_last)
  /\ Goto(cur, "enter")
  /\ UNCHANGED <<cur, boots, iMask, irq, sram, outputs, hist>>

(* Fault: an uninitialised box gets its magic but is not cleared.          *)
EnterFault_NotCleared ==
  /\ cur \in Cause /\ at[cur] = "enter"
  /\ box' = [box EXCEPT !.magic = TRUE]
  /\ Goto(cur, IF box'.fault_type = NoOne THEN "args" ELSE "disarm")
  /\ UNCHANGED <<cur, boots, iMask, irq, sram, outputs, hist>>

(* r8_blackbox_fault: an uninitialised box is cleared and gets its magic,  *)
(* and the count of starts is gone; only the first fault is recorded.      *)
EnterFault ==
  /\ cur \in Cause /\ at[cur] = "enter"
  /\ box' = IF box.magic THEN box ELSE [Cleared EXCEPT !.magic = TRUE]
  /\ Goto(cur, IF box'.fault_type = NoOne THEN "args" ELSE "disarm")
  /\ UNCHANGED <<cur, boots, iMask, irq, sram, outputs, hist>>

(* Fault: the type is written with the arguments, ahead of the name.       *)
WriteArgs_WithType ==
  /\ cur \in Cause /\ at[cur] = "args"
  /\ box' = [box EXCEPT !.fault_args = cur, !.fault_type = cur]
  /\ Goto(cur, "name")
  /\ UNCHANGED <<cur, boots, iMask, irq, sram, outputs, hist>>

WriteArgs ==
  /\ cur \in Cause /\ at[cur] = "args"
  /\ box' = [box EXCEPT !.fault_args = cur]
  /\ Goto(cur, "name")
  /\ UNCHANGED <<cur, boots, iMask, irq, sram, outputs, hist>>

WriteName ==
  /\ cur \in Cause /\ at[cur] = "name"
  /\ box' = [box EXCEPT !.fault_task = cur]
  /\ Goto(cur, "type")
  /\ UNCHANGED <<cur, boots, iMask, irq, sram, outputs, hist>>

(* The type is written last.                                               *)
WriteType ==
  /\ cur \in Cause /\ at[cur] = "type"
  /\ box' = [box EXCEPT !.fault_type = cur]
  /\ Goto(cur, "disarm")
  /\ UNCHANGED <<cur, boots, iMask, irq, sram, outputs, hist>>

(* Fault: the outputs are left alone when the fault was not the first.     *)
Disarm_FirstOnly ==
  /\ cur \in Cause /\ at[cur] = "disarm"
  /\ outputs' = IF box.fault_type = cur THEN FALSE ELSE outputs
  /\ Goto(cur, IF cur \in Exception THEN "spin" ELSE "mask")
  /\ UNCHANGED <<box, cur, boots, iMask, irq, sram, hist>>

(* r8_disarm_outputs; the exception handlers then spin at once.            *)
r8_disarm_outputs ==
  /\ cur \in Cause /\ at[cur] = "disarm"
  /\ outputs' = FALSE
  /\ Goto(cur, IF cur \in Exception THEN "spin" ELSE "mask")
  /\ UNCHANGED <<box, cur, boots, iMask, irq, sram, hist>>

(* taskDISABLE_INTERRUPTS, then the hooks spin.                            *)
DisableInterrupts ==
  /\ cur \in Cause /\ at[cur] = "mask"
  /\ iMask' = TRUE
  /\ Goto(cur, "spin")
  /\ UNCHANGED <<box, cur, boots, irq, sram, outputs, hist>>

-----------------------------------------------------------------------------
(* Linux, or the power supply, starts the core again.  Its registers and   *)
(* SRAM are lost; DDR keeps the box, unless the power was cut; the PWM     *)
(* hardware goes on as it was, unless the power was cut.                   *)
Booting == [a \in Cause \cup {Boot} |-> IF a = Boot THEN "read" ELSE "run"]

RestartCore ==
  /\ cur' = Boot
  /\ at' = Booting
  /\ boots' = 0
  /\ iMask' = TRUE
  /\ irq' = <<>>
  /\ irq_last' = NoOne
  /\ epi_id' = NoOne
  /\ died' = {}

ColdBox == {[Cleared EXCEPT !.boot_count = left[1], !.fault_type = left[2]] :
              left \in Garbage \X {NoOne, Rubbish}}

WarmRestart ==
  /\ starts < MaxStarts
  /\ RestartCore
  /\ starts' = starts + 1
  /\ lost' = (lost \/ at[Boot] # "up")
  /\ UNCHANGED <<box, outputs>>

PowerCycle ==
  /\ RestartCore
  /\ box' \in ColdBox
  /\ outputs' = FALSE
  /\ starts' = 1
  /\ lost' = FALSE

Init ==
  /\ box \in ColdBox
  /\ cur = Boot
  /\ at = Booting
  /\ boots = 0
  /\ iMask = TRUE
  /\ irq = <<>> /\ irq_last = NoOne /\ epi_id = NoOne
  /\ outputs = FALSE
  /\ starts = 1 /\ lost = FALSE /\ died = {}

BootStep == ReadBootCount \/ ClearBox \/ FillBox \/ \E t \in Task : WriteMagic(t)

(* A task that dies in the malloc hook waits for the interrupts on top.    *)
DeathStep ==
  /\ cur \in Task => irq = <<>>
  /\ \/ RefreshFromSram \/ EnterFault \/ WriteArgs \/ WriteName \/ WriteType
     \/ r8_disarm_outputs \/ DisableInterrupts

TaskStep ==
  \/ \E t \in Task : Preempt(t)
  \/ \E i \in Irq : IRQ_Handler(i)
  \/ r8_irq_guard \/ Epilogue
  \/ PumpIrqLast \/ PumpEpilogue
  \/ ArmOutputs

Fatal ==
  \/ vApplicationMallocFailedHook
  \/ vApplicationStackOverflowHook
  \/ \E x \in Exception : TakeException(x)

Next == BootStep \/ TaskStep \/ Fatal \/ DeathStep \/ WarmRestart \/ PowerCycle

Spec == Init /\ [][Next]_vars

(* The core executes.  Nothing is assumed of tasks that can be preempted:  *)
(* which of them runs is for the scheduler to say.                         *)
FairSpec == Spec /\ WF_vars(cur \notin Task /\ (BootStep \/ DeathStep))
-----------------------------------------------------------------------------
(* Properties.                                                             *)

Points == {"read", "clear", "fill", "magic", "up", "run", "pump", "refresh",
           "enter", "args", "name", "type", "disarm", "mask", "spin"}

(* The type of the state.                                                  *)
TypeOK ==
  /\ box \in [magic : BOOLEAN, boot_count : Garbage \cup 0 .. MaxStarts,
              fault_type : Cause \cup {NoOne, Rubbish}, fault_args : Cause \cup {NoOne},
              fault_task : Cause \cup {NoOne},
              irq_last : Irq \cup {NoOne}, epi_icciar : Irq \cup {NoOne},
              fault_irq : Irq \cup {NoOne}]
  /\ cur \in Cause \cup {Boot}
  /\ at \in [Cause \cup {Boot} -> Points]
  /\ boots \in 0 .. MaxStarts
  /\ iMask \in BOOLEAN
  /\ irq \in Seq(Irq)
  /\ irq_last \in Irq \cup {NoOne} /\ epi_id \in Irq \cup {NoOne}
  /\ outputs \in BOOLEAN
  /\ starts \in 1 .. MaxStarts
  /\ lost \in BOOLEAN
  /\ died \subseteq Cause

Dark == cur \in Cause /\ at[cur] = "spin"

(* A reader on Linux that finds a fault type finds the rest of the record  *)
(* as well, at every moment, whatever preempted the one who wrote it       *)
(* (r8_blackbox.c:104).                                                    *)
RecordComplete ==
  box.magic /\ box.fault_type # NoOne =>
    box.fault_args # NoOne /\ box.fault_task # NoOne

(* The record of a CPU exception or of a stack overflow is all its own: no *)
(* other fault can write between its words.                                *)
MaskedRecordIsWhole ==
  box.fault_type \in Masked =>
    box.fault_args = box.fault_type /\ box.fault_task = box.fault_type

(* After start-up a recorded cause of death is one of this start, never    *)
(* one that was left in DDR.                                               *)
CauseIsOfThisStart ==
  box.magic /\ cur # Boot /\ box.fault_type # NoOne /\ at[Boot] = "up" =>
    box.fault_type \in died

(* The boot count never claims more starts than there were, and is exact   *)
(* as long as no start ended before its magic was written: what cold DDR   *)
(* holds never gets into it.                                               *)
BootCountHonest ==
  box.magic /\ at[Boot] = "up" =>
    /\ box.boot_count <= starts
    /\ ~lost => box.boot_count = starts

(* When the core has stopped in a CPU exception or a stack overflow the    *)
(* PWM outputs are off, also if that was not the first fault.              *)
MaskedDeathIsSafe == Dark /\ cur \in Masked => ~outputs

(* After a data abort the box tells which interrupt ended last and which   *)
(* was noted last at the moment of the abort, whatever the pump had left   *)
(* there; when the two differ, the abort cut an interrupt off between its  *)
(* guard and its epilogue, and it is the one of fault_irq                  *)
(* (r8_blackbox.h:207-211, r8_blackbox.c:584, :589).                       *)
LastInterruptTold ==
  Dark /\ cur = "data_abort" /\ at[Boot] = "up" =>
    /\ box.epi_icciar = epi_id /\ box.fault_irq = irq_last
    /\ box.epi_icciar # box.fault_irq =>
         irq # <<>> /\ Head(irq) = box.fault_irq

(* What the core does, as far as a reader of the box can tell.             *)
Life == IF died # {} /\ box.magic /\ box.fault_type # NoOne THEN "dead"
        ELSE IF at[Boot] = "up" THEN "up" ELSE "boot"

Seen == INSTANCE CoreBox WITH
          life <- Life, magic <- box.magic, fault <- box.fault_type # NoOne

(* What Linux sees of the box follows the life of the core: once the       *)
(* firmware is up the magic stays and the fault word is empty until there  *)
(* is a death, a recorded death stays recorded until the next start, and   *)
(* only start-up empties the box (r8_blackbox.c:46-128 against the looks   *)
(* of start-cr8.sh).                                                       *)
RefinesCoreBox == Seen!Spec

(* A masked fault gets the outputs off, unless the core is started again.  *)
DeathGetsSafe ==
  cur \in Masked ~> (cur = Boot \/ ~outputs)

(* Only the first fault is recorded, so that the real cause of death does  *)
(* not disappear (r8_blackbox.c:83-84).                                    *)
FirstFaultKept ==
  [][box.magic /\ box.fault_type # NoOne /\ died' # {} =>
       box'.fault_type = box.fault_type]_vars

(* The first thing any fault does is to bring the PWM to a safe state      *)
(* (r8_blackbox.c:8).                                                      *)
DisarmsFirst ==
  box.magic /\ box.fault_type \in died => ~outputs

(* After a data abort the reader of the box calls the last epilogue and    *)
(* the last guard one interrupt exactly when they were                     *)
(* (bb.py:251-255, r8_blackbox.h:208-210); it looks at irq_last.           *)
VerdictIsTrue ==
  Dark /\ cur = "data_abort" /\ at[Boot] = "up" =>
    (box.epi_icciar = box.irq_last <=> epi_id = irq_last)
=============================================================================

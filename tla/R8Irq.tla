------------------------------- MODULE R8Irq -------------------------------
(***************************************************************************)
(* The interrupt path of the CR8 FreeRTOS port: the assembly IRQ_Handler   *)
(* and SVC_Handler (fsp-patches/portASM.asm), the C handler they call      *)
(* (fsp-patches/port.c) and the nesting dispatcher                         *)
(* bsp_common_interrupt_handler (fsp-patches/bsp_irq.c), over an           *)
(* interrupt controller that is external to the repository.                *)
(*                                                                         *)
(* One core.  What interleaves is the running code with the interrupts     *)
(* that arrive while the CPSR I bit is clear: anywhere in task code that   *)
(* is not in a critical section, and between __enable_irq and              *)
(* __disable_irq of the dispatcher.  A program point (pc) is kept for each *)
(* place where an interrupt, or the controller, can make a difference:     *)
(*   boot     xPortStartScheduler, before the first task is restored       *)
(*   task     task code (SYS mode)                                         *)
(*   get      IRQ_Handler, about to call FreeRTOS_GetActiveIRQ             *)
(*   handler  about to call vApplicationIRQHandler                         *)
(*   call     dispatcher, interrupts enabled, about to call the ISR        *)
(*   isr, bad in the ISR, in r8_bad_intid                                  *)
(*   ret      dispatcher, the ISR has returned, interrupts still enabled   *)
(*   epi      IRQ_Handler after vApplicationIRQHandler, about to mask and  *)
(*            to end the interrupt                                         *)
(*   pop      IRQ_Handler after FreeRTOS_EndOfInterrupt                    *)
(* The data of the register file is abstracted to its owner: r4 (standing  *)
(* for every register a callee preserves) holds the task whose code runs,  *)
(* or the INTID that the activation of IRQ_Handler is serving.  The link   *)
(* register of SVC mode holds a program point.                             *)
(***************************************************************************)
EXTENDS Integers, Sequences, FiniteSets

CONSTANTS
  Task,              \* the FreeRTOS tasks
  NoTask,            \* owner of the FPU registers before any task used them
  IntId,             \* the INTIDs the controller can signal
  Prio,              \* their priorities: a smaller number is more urgent
  PrioLevels,        \* priorities the GIC implements: (priority << 4) in 8 bits
  InterruptableNum,  \* BSP_PRV_INTERRUPTABLE_NUM, entries of the nesting array
  VectorMax,         \* BSP_ICU_VECTOR_MAX_ENTRIES
  CortexEntries,     \* BSP_CORTEX_VECTOR_TABLE_ENTRIES
  SpuriousId,        \* BSP_GIC_SPECIAL_ID, what ICCIAR reads with nothing to serve
  CFrameWords,       \* words the dispatcher and the ISR may have on the stack
  MaxCritical        \* bound: nested critical sections of one task

ASSUME ConfigAssumption ==
  /\ PrioLevels \in Nat \ {0}
  /\ InterruptableNum \in Nat
  /\ PrioLevels <= InterruptableNum
  /\ VectorMax \in Nat /\ CortexEntries \in Nat

ASSUME IdAssumption ==
  /\ IntId \subseteq Nat
  /\ \A i \in IntId : i >= CortexEntries        \* only shared peripherals
  /\ SpuriousId \in Nat \ IntId
  /\ Prio \in [IntId -> 0 .. PrioLevels - 1]

ASSUME TaskAssumption ==
  /\ NoTask \notin Task
  /\ Task \cap (IntId \cup {SpuriousId}) = {}
  /\ MaxCritical \in Nat
  /\ CFrameWords \subseteq Nat

VARIABLES
  pc,        \* where the core executes
  mode,      \* the mode bits of the CPSR that matter here
  iMask,     \* the I bit of the CPSR: interrupts masked
  lrSvc,     \* lr of SVC mode
  r4,        \* a callee-saved register, as its owner
  irqStack,  \* stack of IRQ mode: <<return address, SPSR>> pairs
  svcStack,  \* stack of SVC mode: register frames and C frames
  ulPortInterruptNesting,
  ulPortYieldRequired,
  ulCriticalNesting,
  ulPortTaskHasFPUContext,
  dregs,     \* the FPU register file, as its owner
  pxCurrentTCB,
  ctx,       \* the context at the top of each task's own stack
  g_current_interrupt_num,
  g_current_interrupt_pointer,
  pending,   \* controller: signalled and not yet acknowledged
  active,    \* controller: acknowledged and not yet ended
  opened,    \* history: critical sections each task has opened itself
  usesFPU    \* history: tasks that called vPortTaskUsesFPU

cpu    == <<pc, mode, iMask, lrSvc, r4>>
stacks == <<irqStack, svcStack>>
nest   == <<g_current_interrupt_num, g_current_interrupt_pointer>>
gic    == <<pending, active>>
task   == <<ulCriticalNesting, ulPortTaskHasFPUContext, dregs, pxCurrentTCB, ctx>>
hist   == <<opened, usesFPU>>
vars   == <<cpu, stacks, nest, gic, task, hist,
            ulPortInterruptNesting, ulPortYieldRequired>>

TaskPoint   == {"task"}
AsmPoint    == {"get", "handler", "epi", "pop"}
IsrPoint    == {"call", "isr", "bad", "ret"}
Point       == {"boot"} \cup TaskPoint \cup AsmPoint \cup IsrPoint

Top(s)  == s[Len(s)]
Drop(s) == SubSeq(s, 1, Len(s) - 1)

(* sp of SVC mode, in words pushed below __SvcStackLimit (8-byte aligned). *)
spSvc == IF svcStack = <<>> THEN 0 ELSE Top(svcStack).at + Top(svcStack).words

Frame(lr, words) == [r4 |-> r4, lr |-> lr, at |-> spSvc, words |-> words]

-----------------------------------------------------------------------------
(* The interrupt controller (GICv1, external).  It signals an interrupt    *)
(* that is strictly more urgent than everything active; acknowledging      *)
(* takes the most urgent one, or returns the spurious INTID when the       *)
(* interrupt that was signalled has been withdrawn in the meantime.        *)

Preempts(i) == \A a \in active : Prio[i] < Prio[a]

Signalled == \E i \in pending : Preempts(i)

MostUrgent == {i \in pending : /\ Preempts(i)
                               /\ \A j \in pending : Prio[i] <= Prio[j]}

Raise(i) ==
  /\ i \notin pending
  /\ pending' = pending \cup {i}
  /\ UNCHANGED <<cpu, stacks, nest, active, task, hist,
                 ulPortInterruptNesting, ulPortYieldRequired>>

(* A level interrupt is deasserted, or software clears its pending bit.    *)
Withdraw(i) ==
  /\ i \in pending
  /\ pending' = pending \ {i}
  /\ UNCHANGED <<cpu, stacks, nest, active, task, hist,
                 ulPortInterruptNesting, ulPortYieldRequired>>

-----------------------------------------------------------------------------
(* portSAVE_CONTEXT and portRESTORE_CONTEXT: what they push on and pop     *)
(* from the stack of the task, the FPU registers only when the task has    *)
(* an FPU context.                                                         *)

Context(ret, retMode, retMask, reg) ==
  [ret |-> ret, mode |-> retMode, i |-> retMask, r4 |-> reg,
   crit |-> ulCriticalNesting, fpu |-> ulPortTaskHasFPUContext,
   dregs |-> IF ulPortTaskHasFPUContext THEN dregs ELSE NoTask]

SaveContext(c) == ctx' = [ctx EXCEPT ![pxCurrentTCB] = c]

(* Fault: the count of critical sections is not part of the context.       *)
RestoreContext_SharedNesting(t, c) ==
  /\ pxCurrentTCB' = t
  /\ pc' = c.ret /\ mode' = c.mode /\ iMask' = c.i /\ r4' = c.r4
  /\ ulCriticalNesting' = IF pc = "boot" THEN 0 ELSE ulCriticalNesting
  /\ ulPortTaskHasFPUContext' = c.fpu
  /\ dregs' = IF c.fpu THEN c.dregs ELSE dregs

(* c is the context of t: what is read back may be what was just saved.    *)
RestoreContext(t, c) ==
  /\ pxCurrentTCB' = t
  /\ pc' = c.ret
  /\ mode' = c.mode
  /\ iMask' = c.i
  /\ r4' = c.r4
  /\ ulCriticalNesting' = c.crit
  /\ ulPortTaskHasFPUContext' = c.fpu
  /\ dregs' = IF c.fpu THEN c.dregs ELSE dregs

(* vTaskSwitchContext belongs to the FreeRTOS kernel: it may select any    *)
(* task, the one that was running included.                                *)
vTaskSwitchContext(t) == t \in Task

-----------------------------------------------------------------------------
(* Task code.                                                              *)

xPortStartScheduler ==
  /\ pc = "boot"
  /\ RestoreContext(pxCurrentTCB, ctx[pxCurrentTCB])
  /\ UNCHANGED <<lrSvc, stacks, nest, gic, ctx, hist,
                 ulPortInterruptNesting, ulPortYieldRequired>>

vPortEnterCritical ==
  /\ pc = "task"
  /\ opened[pxCurrentTCB] < MaxCritical
  /\ iMask' = TRUE
  /\ ulCriticalNesting' = ulCriticalNesting + 1
  /\ opened' = [opened EXCEPT ![pxCurrentTCB] = @ + 1]
  /\ UNCHANGED <<pc, mode, lrSvc, r4, stacks, nest, gic, usesFPU,
                 ulPortTaskHasFPUContext, dregs, pxCurrentTCB, ctx,
                 ulPortInterruptNesting, ulPortYieldRequired>>

(* Called by a task that has a critical section open.                      *)
vPortExitCritical ==
  /\ pc = "task"
  /\ opened[pxCurrentTCB] > 0
  /\ opened' = [opened EXCEPT ![pxCurrentTCB] = @ - 1]
  /\ \/ /\ ulCriticalNesting > 0
        /\ ulCriticalNesting' = ulCriticalNesting - 1
        /\ iMask' = (iMask /\ ulCriticalNesting # 1)
     \/ /\ ulCriticalNesting = 0
        /\ UNCHANGED <<ulCriticalNesting, iMask>>
  /\ UNCHANGED <<pc, mode, lrSvc, r4, stacks, nest, gic, usesFPU,
                 ulPortTaskHasFPUContext, dregs, pxCurrentTCB, ctx,
                 ulPortInterruptNesting, ulPortYieldRequired>>

(* The task registers for an FPU context and uses the FPU from then on.    *)
vPortTaskUsesFPU ==
  /\ pc = "task"
  /\ pxCurrentTCB \notin usesFPU
  /\ ulPortTaskHasFPUContext' = TRUE
  /\ dregs' = pxCurrentTCB
  /\ usesFPU' = usesFPU \cup {pxCurrentTCB}
  /\ UNCHANGED <<cpu, stacks, nest, gic, opened,
                 ulCriticalNesting, pxCurrentTCB, ctx,
                 ulPortInterruptNesting, ulPortYieldRequired>>

(* portYIELD: SVC_Handler saves the task and restores the selected one.    *)
SVC_Handler(t) ==
  /\ pc = "task"
  /\ LET c == Context("task", mode, iMask, r4) IN
     /\ SaveContext(c)
     /\ vTaskSwitchContext(t)
     /\ RestoreContext(t, IF t = pxCurrentTCB THEN c ELSE ctx[t])
  /\ lrSvc' = "task"
  /\ UNCHANGED <<stacks, nest, gic, hist,
                 ulPortInterruptNesting, ulPortYieldRequired>>

-----------------------------------------------------------------------------
(* IRQ_Handler, up to the call of FreeRTOS_GetActiveIRQ.                   *)

(* Seven registers, the alignment correction and its own word.             *)
RegisterWords == 7 + ((spSvc + 7) % 2) + 1

IRQ_Handler ==
  /\ ~iMask
  /\ Signalled
  /\ irqStack' = Append(irqStack, [ret |-> pc, mode |-> mode, i |-> iMask])
  /\ svcStack' = Append(svcStack, Frame(lrSvc, RegisterWords))
  /\ ulPortInterruptNesting' = ulPortInterruptNesting + 1
  /\ pc' = "get"
  /\ mode' = "SVC"
  /\ iMask' = TRUE
  /\ UNCHANGED <<lrSvc, r4, nest, gic, task, hist, ulPortYieldRequired>>

(* Fault: the highest pending interrupt is read (ICCHPIR), and not         *)
(* acknowledged.                                                           *)
GetActiveIRQ_Peek ==
  /\ pc = "get"
  /\ \/ r4' \in MostUrgent
     \/ MostUrgent = {} /\ r4' = SpuriousId
  /\ pc' = "handler"
  /\ lrSvc' = "handler"
  /\ UNCHANGED <<mode, iMask, stacks, nest, gic, task, hist,
                 ulPortInterruptNesting, ulPortYieldRequired>>

FreeRTOS_GetActiveIRQ ==
  /\ pc = "get"
  /\ \/ \E i \in MostUrgent :
          /\ r4' = i
          /\ pending' = pending \ {i}
          /\ active' = active \cup {i}
     \/ /\ MostUrgent = {}
        /\ r4' = SpuriousId
        /\ UNCHANGED gic
  /\ pc' = "handler"
  /\ lrSvc' = "handler"
  /\ UNCHANGED <<mode, iMask, stacks, nest, task, hist,
                 ulPortInterruptNesting, ulPortYieldRequired>>

(* Fault: the pointer is incremented before the entry is written.          *)
EnterDispatcher_PreIncrement(words) ==
  /\ pc = "handler"
  /\ r4 # SpuriousId
  /\ svcStack' = Append(svcStack, Frame("epi", words))
  /\ g_current_interrupt_num' =
       [g_current_interrupt_num EXCEPT ![g_current_interrupt_pointer + 1] =
          r4 - CortexEntries]
  /\ g_current_interrupt_pointer' = g_current_interrupt_pointer + 1
  /\ iMask' = FALSE
  /\ lrSvc' = "epi"
  /\ pc' = "call"
  /\ UNCHANGED <<mode, r4, irqStack, gic, task, hist,
                 ulPortInterruptNesting, ulPortYieldRequired>>

(* vApplicationIRQHandler calls bsp_common_interrupt_handler, which        *)
(* records the interrupt and enables interrupts.                           *)
EnterDispatcher(words) ==
  /\ pc = "handler"
  /\ r4 # SpuriousId
  /\ svcStack' = Append(svcStack, Frame("epi", words))
  /\ g_current_interrupt_num' =
       [g_current_interrupt_num EXCEPT ![g_current_interrupt_pointer] =
          r4 - CortexEntries]
  /\ g_current_interrupt_pointer' = g_current_interrupt_pointer + 1
  /\ iMask' = FALSE
  /\ lrSvc' = "epi"
  /\ pc' = "call"
  /\ UNCHANGED <<mode, r4, irqStack, gic, task, hist,
                 ulPortInterruptNesting, ulPortYieldRequired>>

(* Fault: the pointer is decremented outside the test for the special ID.  *)
SkipSpurious_Decrements ==
  /\ pc = "handler"
  /\ r4 = SpuriousId
  /\ lrSvc' = "epi"
  /\ pc' = "epi"
  /\ g_current_interrupt_pointer' = g_current_interrupt_pointer - 1
  /\ UNCHANGED <<mode, iMask, r4, stacks, g_current_interrupt_num, gic, task,
                 hist, ulPortInterruptNesting, ulPortYieldRequired>>

(* The special INTID is not dispatched: the handler returns at once.       *)
SkipSpurious ==
  /\ pc = "handler"
  /\ r4 = SpuriousId
  /\ lrSvc' = "epi"
  /\ pc' = "epi"
  /\ UNCHANGED <<mode, iMask, r4, stacks, nest, gic, task, hist,
                 ulPortInterruptNesting, ulPortYieldRequired>>

(* Fault: the vector table is indexed with whatever ICCIAR returned.       *)
Dispatched_Unchecked(id) == TRUE

Dispatched(id) == id < VectorMax

(* g_vector_table[gic_intid](), or r8_bad_intid for an INTID out of range. *)
CallIsr ==
  /\ pc = "call"
  /\ pc' = IF Dispatched(r4) THEN "isr" ELSE "bad"
  /\ lrSvc' = "ret"
  /\ UNCHANGED <<mode, iMask, r4, stacks, nest, gic, task, hist,
                 ulPortInterruptNesting, ulPortYieldRequired>>

(* SysTick_Handler when xTaskIncrementTick asks for a switch; any other    *)
(* ISR through portYIELD_FROM_ISR.                                         *)
RequestYield ==
  /\ pc = "isr"
  /\ ulPortYieldRequired' = TRUE
  /\ UNCHANGED <<cpu, stacks, nest, gic, task, hist, ulPortInterruptNesting>>

(* The ISR returns to wherever its link register says.                     *)
IsrReturn ==
  /\ pc \in {"isr", "bad"}
  /\ pc' = lrSvc
  /\ UNCHANGED <<mode, iMask, lrSvc, r4, stacks, nest, gic, task, hist,
                 ulPortInterruptNesting, ulPortYieldRequired>>

(* Fault: the entry of the nesting array is never given back.              *)
LeaveDispatcher_KeepsEntry ==
  /\ pc = "ret"
  /\ iMask' = TRUE
  /\ svcStack' = Drop(svcStack)
  /\ pc' = Top(svcStack).lr
  /\ r4' = Top(svcStack).r4
  /\ UNCHANGED <<mode, lrSvc, irqStack, nest, gic, task,
                 hist, ulPortInterruptNesting, ulPortYieldRequired>>

(* __disable_irq, the pointer goes back, and the C frames are unwound.     *)
LeaveDispatcher ==
  /\ pc = "ret"
  /\ iMask' = TRUE
  /\ g_current_interrupt_pointer' = g_current_interrupt_pointer - 1
  /\ svcStack' = Drop(svcStack)
  /\ pc' = Top(svcStack).lr
  /\ r4' = Top(svcStack).r4
  /\ UNCHANGED <<mode, lrSvc, irqStack, g_current_interrupt_num, gic, task,
                 hist, ulPortInterruptNesting, ulPortYieldRequired>>

(* Fault: no ICCEOIR for an interrupt that was not dispatched.             *)
EndOfInterrupt_OnlyDispatched ==
  /\ pc = "epi"
  /\ iMask' = TRUE
  /\ active' = IF r4 # SpuriousId /\ Dispatched(r4) THEN active \ {r4} ELSE active
  /\ lrSvc' = "pop"
  /\ pc' = "pop"
  /\ UNCHANGED <<mode, r4, stacks, nest, pending, task, hist,
                 ulPortInterruptNesting, ulPortYieldRequired>>

(* CPSID i, then ICCEOIR is written with the INTID that was acknowledged;  *)
(* the controller ignores the spurious one.                                *)
FreeRTOS_EndOfInterrupt ==
  /\ pc = "epi"
  /\ iMask' = TRUE
  /\ active' = active \ {r4}
  /\ lrSvc' = "pop"
  /\ pc' = "pop"
  /\ UNCHANGED <<mode, r4, stacks, nest, pending, task, hist,
                 ulPortInterruptNesting, ulPortYieldRequired>>

(* Faults: the nesting count is not looked at, as it once was; or it is    *)
(* looked at before it has been decremented.                               *)
SwitchBeforeExit_AnyLevel  == ulPortYieldRequired
SwitchBeforeExit_OffByOne  == ulPortInterruptNesting = 0 /\ ulPortYieldRequired

(* The epilogue decides: switch only in the outermost activation.          *)
SwitchBeforeExit == ulPortInterruptNesting = 1 /\ ulPortYieldRequired

(* POP {r0-r4, r12, lr}: the link register comes back with the others.     *)
(* Fault: it is not saved, as it once was not.                             *)
RestoredLink_NotSaved == lrSvc
RestoredLink == Top(svcStack).lr

exit_without_switch ==
  /\ pc = "pop"
  /\ ~SwitchBeforeExit
  /\ ulPortInterruptNesting' = ulPortInterruptNesting - 1
  /\ r4' = Top(svcStack).r4
  /\ lrSvc' = RestoredLink
  /\ svcStack' = Drop(svcStack)
  /\ pc' = Top(irqStack).ret
  /\ mode' = Top(irqStack).mode
  /\ iMask' = Top(irqStack).i
  /\ irqStack' = Drop(irqStack)
  /\ UNCHANGED <<nest, gic, task, hist, ulPortYieldRequired>>

(* Fault: the decrement stands after the branch to this path.              *)
switch_before_exit_KeepsCount(t) ==
  /\ pc = "pop"
  /\ SwitchBeforeExit
  /\ ulPortYieldRequired' = FALSE
  /\ lrSvc' = RestoredLink
  /\ svcStack' = Drop(svcStack)
  /\ irqStack' = Drop(irqStack)
  /\ LET f == Top(irqStack)
         c == Context(f.ret, f.mode, f.i, Top(svcStack).r4) IN
     /\ SaveContext(c)
     /\ vTaskSwitchContext(t)
     /\ RestoreContext(t, IF t = pxCurrentTCB THEN c ELSE ctx[t])
  /\ UNCHANGED <<nest, gic, hist, ulPortInterruptNesting>>

switch_before_exit(t) ==
  /\ pc = "pop"
  /\ SwitchBeforeExit
  /\ ulPortInterruptNesting' = ulPortInterruptNesting - 1
  /\ ulPortYieldRequired' = FALSE
  /\ lrSvc' = RestoredLink
  /\ svcStack' = Drop(svcStack)
  /\ irqStack' = Drop(irqStack)
  /\ LET f == Top(irqStack)
         c == Context(f.ret, f.mode, f.i, Top(svcStack).r4) IN
     /\ SaveContext(c)
     /\ vTaskSwitchContext(t)
     /\ RestoreContext(t, IF t = pxCurrentTCB THEN c ELSE ctx[t])
  /\ UNCHANGED <<nest, gic, hist>>

-----------------------------------------------------------------------------
(* pxPortInitialiseStack: every task starts in SYS mode, interrupts        *)
(* enabled, outside any critical section and without an FPU context.       *)
InitialContext(t) ==
  [ret |-> "task", mode |-> "SYS", i |-> FALSE, r4 |-> t,
   crit |-> 0, fpu |-> FALSE, dregs |-> NoTask]

(* portCRITICAL_NESTING_INITIAL_VALUE, larger than any real nesting.       *)
InitialCriticalNesting == 9999

Init ==
  /\ pc = "boot" /\ mode = "SVC" /\ iMask = TRUE
  /\ lrSvc = "boot" /\ r4 = NoTask
  /\ irqStack = <<>> /\ svcStack = <<>>
  /\ ulPortInterruptNesting = 0
  /\ ulPortYieldRequired = FALSE
  /\ ulCriticalNesting = InitialCriticalNesting
  /\ ulPortTaskHasFPUContext = FALSE
  /\ dregs = NoTask
  /\ pxCurrentTCB \in Task
  /\ ctx = [t \in Task |-> InitialContext(t)]
  /\ g_current_interrupt_num = [k \in 0 .. InterruptableNum - 1 |-> 0]
  /\ g_current_interrupt_pointer = 0
  /\ pending = {} /\ active = {}
  /\ opened = [t \in Task |-> 0]
  /\ usesFPU = {}

Device == \E i \in IntId : Raise(i) \/ Withdraw(i)

TaskStep ==
  \/ xPortStartScheduler
  \/ vPortEnterCritical
  \/ vPortExitCritical
  \/ vPortTaskUsesFPU
  \/ \E t \in Task : SVC_Handler(t)

(* The steps of an activation of IRQ_Handler that do not wait for anything *)
(* but the core.                                                           *)
HandlerStep ==
  \/ FreeRTOS_GetActiveIRQ
  \/ \E w \in CFrameWords : EnterDispatcher(w)
  \/ SkipSpurious
  \/ CallIsr
  \/ IsrReturn
  \/ LeaveDispatcher
  \/ FreeRTOS_EndOfInterrupt
  \/ exit_without_switch
  \/ \E t \in Task : switch_before_exit(t)

Next == Device \/ TaskStep \/ IRQ_Handler \/ HandlerStep \/ RequestYield

Spec == Init /\ [][Next]_vars

(* The core keeps executing (WF), takes a signalled interrupt when it is   *)
(* unmasked again and again (SF: the exception is taken at the next        *)
(* instruction), and a task that opened a critical section gets to close   *)
(* it.                                                                     *)
Fairness ==
  /\ WF_vars(HandlerStep)
  /\ WF_vars(xPortStartScheduler)
  /\ SF_vars(IRQ_Handler)
  /\ SF_vars(vPortExitCritical)

FairSpec == Spec /\ Fairness
-----------------------------------------------------------------------------
(* Properties.                                                             *)

Reg == Task \cup IntId \cup {NoTask, SpuriousId}

FrameSet == [r4 : Reg, lr : Point, at : Nat, words : Nat]

ContextSet == [ret : {"task"}, mode : {"SYS", "SVC"}, i : BOOLEAN, r4 : Reg,
               crit : Nat, fpu : BOOLEAN, dregs : Task \cup {NoTask}]

(* The type of the state.                                                  *)
TypeOK ==
  /\ pc \in Point
  /\ mode \in {"SYS", "SVC"}
  /\ iMask \in BOOLEAN
  /\ lrSvc \in Point
  /\ r4 \in Reg
  /\ irqStack \in Seq([ret : Point, mode : {"SYS", "SVC"}, i : BOOLEAN])
  /\ svcStack \in Seq(FrameSet)
  /\ ulPortInterruptNesting \in Nat
  /\ ulPortYieldRequired \in BOOLEAN
  /\ ulCriticalNesting \in Nat
  /\ ulPortTaskHasFPUContext \in BOOLEAN
  /\ dregs \in Task \cup {NoTask}
  /\ pxCurrentTCB \in Task
  /\ ctx \in [Task -> ContextSet]
  /\ g_current_interrupt_num \in [0 .. InterruptableNum - 1 -> Int]
  /\ g_current_interrupt_pointer \in Nat
  /\ pending \subseteq IntId
  /\ active \subseteq IntId
  /\ opened \in [Task -> Nat]
  /\ usesFPU \subseteq Task

(* INTID recorded in the k-th entry of the nesting array, from 1.          *)
Recorded(k) == g_current_interrupt_num[k - 1] + CortexEntries

(* A task always executes in its own context: its registers, its own count *)
(* of critical sections, interrupts masked exactly while it has one open,  *)
(* and its own FPU registers if it registered for them -- whatever         *)
(* interrupts and switches came in between (portSAVE_CONTEXT and           *)
(* portRESTORE_CONTEXT against portENTER/EXIT_CRITICAL).                   *)
TaskContextIntact ==
  pc = "task" =>
    /\ r4 = pxCurrentTCB
    /\ mode = "SYS"
    /\ ulCriticalNesting = opened[pxCurrentTCB]
    /\ iMask <=> opened[pxCurrentTCB] > 0
    /\ ulPortTaskHasFPUContext <=> pxCurrentTCB \in usesFPU
    /\ pxCurrentTCB \in usesFPU => dregs = pxCurrentTCB

(* While a task executes nothing of an interrupt is left behind: both      *)
(* stacks are empty, both nesting counts are zero and no interrupt is      *)
(* active in the controller, which would block everything less urgent.     *)
NothingLeftBehind ==
  pc = "task" =>
    /\ irqStack = <<>> /\ svcStack = <<>>
    /\ ulPortInterruptNesting = 0
    /\ g_current_interrupt_pointer = 0
    /\ active = {}

(* A switch asked for by an ISR at any depth happens before a task         *)
(* executes one more instruction: the nested exits leave the request for   *)
(* the outermost one, and the outermost one does not miss it.              *)
YieldServedBeforeTask == pc = "task" => ~ulPortYieldRequired

(* An ISR that was interrupted continues as if nothing had happened: it    *)
(* returns into the dispatcher (lr_svc, portASM.asm:194-201), its register *)
(* still holds its own INTID and the nesting array names that INTID, which *)
(* is the most urgent active one.                                          *)
IsrContextIntact ==
  pc \in IsrPoint =>
    /\ r4 \in active
    /\ \A a \in active \ {r4} : Prio[r4] < Prio[a]
    /\ g_current_interrupt_pointer > 0
    /\ Recorded(g_current_interrupt_pointer) = r4
    /\ pc \in {"isr", "bad"} => lrSvc = "ret"

(* What is saved as the context of a task is that task in SYS mode and     *)
(* never an ISR in SVC mode (portASM.asm:269-271).                         *)
OnlyTasksSaved ==
  \A t \in Task : ctx[t].ret = "task" /\ ctx[t].mode = "SYS" /\ ctx[t].r4 = t

(* The nesting array has no bounds check (bsp_irq.c:457-461).  Nesting is  *)
(* limited by the priorities all the same: at most one dispatcher per      *)
(* level, plus one handler that finds a spurious interrupt.                *)
NestingBounded ==
  /\ g_current_interrupt_pointer <= PrioLevels
  /\ ulPortInterruptNesting <= PrioLevels + 1
  /\ pc = "handler" /\ r4 # SpuriousId =>
       g_current_interrupt_pointer < InterruptableNum

(* g_vector_table has VectorMax + CortexEntries entries (bsp_irq.c:34) and *)
(* is never indexed past them, and r8_bad_intid runs for nothing that      *)
(* passes the bounds check -- also when the handler was interrupted and    *)
(* resumed, and its INTID has gone through the stack (bsp_irq.c:471-491).  *)
OnlyTableIndexed ==
  /\ pc = "isr" => r4 < VectorMax + CortexEntries
  /\ pc = "bad" => r4 >= VectorMax

(* What ends is the innermost.                                             *)
EndStep ==
  active' # active /\ ~(active \subseteq active') =>
    \E i \in active :
      /\ active' = active \ {i}
      /\ \A a \in active' : Prio[i] < Prio[a]

(* ICCEOIR is written in the reverse order of the acknowledgements: what   *)
(* is ended is the most urgent active interrupt, and every handler that    *)
(* acknowledged one ends exactly that one.                                 *)
EndsInnermost == [][EndStep]_vars

(* Steps the activation that executes has left.                            *)
StepsLeft ==
  [boot |-> 0, task |-> 0, pop |-> 1, epi |-> 2, ret |-> 3, isr |-> 4, bad |-> 4,
   call |-> 5, handler |-> 6, get |-> 7][pc]

(* The pending interrupt that the activation about to acknowledge is for.  *)
Claimed == IF pc = "get" /\ Signalled THEN 1 ELSE 0

Suspended == IF irqStack = <<>> THEN 0 ELSE Len(irqStack) - 1

(* Steps of interrupt handling the core owes: to the activation that       *)
(* executes, to those it interrupted (at most five each), and to what is   *)
(* pending (entry, seven steps, and what it keeps the interrupted one      *)
(* from).                                                                  *)
Owed == StepsLeft + 5 * Suspended + 10 * (Cardinality(pending) - Claimed)

CostStep ==
  /\ Owed' \in Nat
  /\ pc # "boot" /\ pc' # pc => Owed' < Owed
  /\ Owed' > Owed =>
       /\ Owed' <= Owed + 10
       /\ \E i \in IntId \ pending : pending' = pending \cup {i}

(* Every interrupt a device raises costs the core a bounded number of      *)
(* steps, at whatever depth it nests and whether or not it is withdrawn    *)
(* before ICCIAR is read: no step of IRQ_Handler, of the dispatcher or of  *)
(* the return into an interrupted ISR ever goes back, none is repeated,    *)
(* and only a device adds to what is owed (portASM.asm:181-291,            *)
(* bsp_irq.c:444-495).                                                     *)
ServiceBounded == [][CostStep]_vars

(* INTIDs of the dispatchers that have not returned, the innermost last.   *)
Serving == [k \in 1 .. g_current_interrupt_pointer |-> Recorded(k)]

Abs == INSTANCE R8IrqAbs WITH
         serving <- Serving,
         resched <- ulPortYieldRequired,
         user    <- pc = "task",
         running <- pxCurrentTCB

(* The port implements nested service by priority with one deferred switch *)
(* (R8IrqAbs).                                                             *)
RefinesNesting == Abs!Spec

(* The program points are word-aligned only; AAPCS wants bit 2 of sp clear *)
(* at every call of C code, which is what portASM.asm:213-214 announces.   *)
StackAlignedAtCalls == pc \in {"get", "handler", "epi"} => spSvc % 2 = 0

(* Only INTIDs without an entry in g_vector_table go undispatched          *)
(* (bsp_irq.c:473-478).                                                    *)
EntryMeansDispatch == pc = "bad" => r4 >= VectorMax + CortexEntries

Quiet == <>[][~ \E i \in IntId : i \in pending' /\ i \notin pending]_vars

(* Once the devices stop raising interrupts, everything that is pending is *)
(* acknowledged, however deeply it was nested or how often tasks masked    *)
(* interrupts meanwhile.                                                   *)
PendingServed == Quiet => \A i \in IntId : i \in pending ~> i \notin pending

(* Once the devices stop raising interrupts, a requested switch is made.   *)
YieldApplied == Quiet => (ulPortYieldRequired ~> ~ulPortYieldRequired)
=============================================================================

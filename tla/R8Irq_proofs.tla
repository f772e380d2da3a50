---------------------------- MODULE R8Irq_proofs ----------------------------
(***************************************************************************)
(* Proofs about R8Irq, for any number of tasks, interrupts and priority    *)
(* levels.  The invariants of R8Irq speak about the moments when a task or *)
(* an ISR executes; the inductive invariant IInv says what every frame on  *)
(* the two stacks holds in between, so that popping it restores what they  *)
(* promise.                                                                *)
(***************************************************************************)
EXTENDS R8Irq, SequenceTheorems, FiniteSetTheorems, WellFoundedInduction, TLAPS

Handling == pc \in AsmPoint \cup IsrPoint

(* Masking and mode follow from the program point.                         *)
CpuInv ==
  /\ pc = "boot" => iMask
  /\ pc \in AsmPoint => iMask /\ mode = "SVC"
  /\ pc \in IsrPoint => ~iMask /\ mode = "SVC"
  /\ pc \in {"isr", "bad"} => lrSvc = "ret"

(* The stacks and the nesting counts agree: an activation has one entry on *)
(* the IRQ stack, a register frame on the SVC stack and, while it is in    *)
(* the dispatcher, a C frame and an entry of the nesting array.            *)
DepthInv ==
  /\ Len(irqStack) = ulPortInterruptNesting
  /\ ~Handling =>
       /\ ulPortInterruptNesting = 0
       /\ g_current_interrupt_pointer = 0
       /\ Len(svcStack) = 0
  /\ pc \in AsmPoint =>
       /\ ulPortInterruptNesting > 0
       /\ g_current_interrupt_pointer = ulPortInterruptNesting - 1
       /\ Len(svcStack) = 2 * ulPortInterruptNesting - 1
  /\ pc \in IsrPoint =>
       /\ ulPortInterruptNesting > 0
       /\ g_current_interrupt_pointer = ulPortInterruptNesting
       /\ Len(svcStack) = 2 * ulPortInterruptNesting

(* What the k-th activation saved is what it interrupted: the task, or the *)
(* ISR of the activation below it.                                         *)
SavedBy(k) ==
  /\ ~irqStack[k].i
  /\ k = 1 =>
       /\ irqStack[k].ret = "task" /\ irqStack[k].mode = "SYS"
       /\ svcStack[1].r4 = pxCurrentTCB
  /\ k > 1 =>
       /\ irqStack[k].ret \in IsrPoint /\ irqStack[k].mode = "SVC"
       /\ svcStack[2 * k - 1].r4 = Recorded(k - 1)
       /\ irqStack[k].ret \in {"isr", "bad"} => svcStack[2 * k - 1].lr = "ret"

FrameInv ==
  /\ \A k \in 1 .. ulPortInterruptNesting : SavedBy(k)
  /\ \A k \in 1 .. g_current_interrupt_pointer :
       svcStack[2 * k].lr = "epi" /\ svcStack[2 * k].r4 = Recorded(k)

(* The recorded interrupts are the active ones, each more urgent than the  *)
(* one below, hence at most one per level.                                 *)
PrioInv ==
  /\ \A k \in 1 .. g_current_interrupt_pointer :
       /\ Recorded(k) \in IntId
       /\ Prio[Recorded(k)] <= PrioLevels - k
       /\ \A j \in 1 .. k - 1 : Prio[Recorded(k)] < Prio[Recorded(j)]
  /\ pc \in {"handler", "epi"} =>
       /\ r4 \in IntId \cup {SpuriousId}
       /\ r4 \in IntId =>
            \A k \in 1 .. g_current_interrupt_pointer :
              Prio[r4] < Prio[Recorded(k)]
  /\ pc \in IsrPoint => r4 = Recorded(g_current_interrupt_pointer)

InService ==
  {Recorded(k) : k \in 1 .. g_current_interrupt_pointer}
    \cup (IF pc \in {"handler", "epi"} /\ r4 # SpuriousId THEN {r4} ELSE {})

ActiveInv == active = InService

(* The parts of a task's context that IRQ_Handler leaves in the core.      *)
CurrentInv ==
  /\ pc \in {"boot", "task"} => ~ulPortYieldRequired
  /\ pc = "task" => mode = "SYS" /\ r4 = pxCurrentTCB
                    /\ (iMask <=> opened[pxCurrentTCB] > 0)
  /\ Handling => opened[pxCurrentTCB] = 0
  /\ pc # "boot" =>
       /\ ulCriticalNesting = opened[pxCurrentTCB]
       /\ (ulPortTaskHasFPUContext <=> pxCurrentTCB \in usesFPU)
       /\ pxCurrentTCB \in usesFPU => dregs = pxCurrentTCB

(* The context of a task that does not execute.                            *)
Resumable(t) ==
  /\ ctx[t].crit = opened[t]
  /\ ctx[t].i <=> opened[t] > 0
  /\ ctx[t].fpu <=> t \in usesFPU
  /\ t \in usesFPU => ctx[t].dregs = t

CtxInv ==
  /\ OnlyTasksSaved
  /\ \A t \in Task : t # pxCurrentTCB \/ pc = "boot" => Resumable(t)

IInv ==
  /\ TypeOK
  /\ CpuInv
  /\ DepthInv
  /\ FrameInv
  /\ PrioInv
  /\ ActiveInv
  /\ CurrentInv
  /\ CtxInv

-----------------------------------------------------------------------------
(* Stacks: what pushing and popping leaves of the frames below.            *)

LEMMA PushProps ==
  ASSUME NEW S, NEW s \in Seq(S), NEW e \in S
  PROVE  /\ Append(s, e) \in Seq(S)
         /\ Len(Append(s, e)) = Len(s) + 1
         /\ Append(s, e)[Len(s) + 1] = e
         /\ \A k \in 1 .. Len(s) : Append(s, e)[k] = s[k]
OBVIOUS

LEMMA PopProps ==
  ASSUME NEW S, NEW s \in Seq(S), Len(s) > 0
  PROVE  /\ Drop(s) \in Seq(S)
         /\ Len(Drop(s)) = Len(s) - 1
         /\ \A k \in 1 .. Len(s) - 1 : Drop(s)[k] = s[k]
         /\ Top(s) \in S
         /\ Top(s) = s[Len(s)]
<1> DEFINE n == Len(s)
<1>1. n \in Nat /\ n > 0 /\ \A k \in 1 .. n : s[k] \in S
  BY LenProperties, ElementOfSeq
<1> HIDE DEF n
<1>2. \A k \in 1 .. n - 1 : s[k] \in S
  BY <1>1
<1>3. n - 1 \in Int
  BY <1>1
<1>4. /\ SubSeq(s, 1, n - 1) \in Seq(S)
      /\ Len(SubSeq(s, 1, n - 1)) = IF 1 <= n - 1 THEN n - 1 - 1 + 1 ELSE 0
      /\ \A k \in 1 .. n - 1 - 1 + 1 : SubSeq(s, 1, n - 1)[k] = s[1 + k - 1]
  BY <1>2, <1>3, SubSeqProperties
<1>5. Len(SubSeq(s, 1, n - 1)) = n - 1
  BY <1>1, <1>4
<1>6. \A k \in 1 .. n - 1 : 1 + k - 1 = k /\ k \in 1 .. n - 1 - 1 + 1
  BY <1>1
<1>7. \A k \in 1 .. n - 1 : SubSeq(s, 1, n - 1)[k] = s[k]
  BY <1>4, <1>6
<1>8. s[n] \in S
  BY <1>1
<1> QED BY <1>4, <1>5, <1>7, <1>8 DEF Drop, Top, n

LEMMA SpIsNat == TypeOK => spSvc \in Nat
<1> SUFFICES ASSUME TypeOK PROVE spSvc \in Nat
  OBVIOUS
<1>1. CASE svcStack = <<>>
  BY <1>1 DEF spSvc
<1>2. CASE svcStack # <<>>
  <2>1. Len(svcStack) > 0 /\ svcStack \in Seq(FrameSet)
    BY <1>2 DEF TypeOK
  <2>2. Top(svcStack) \in FrameSet
    BY <2>1, PopProps
  <2> QED BY <1>2, <2>2 DEF spSvc, FrameSet
<1> QED BY <1>1, <1>2

LEMMA FrameTyped ==
  ASSUME TypeOK, NEW lr \in Point, NEW w \in Nat
  PROVE  Frame(lr, w) \in FrameSet
BY SpIsNat DEF Frame, FrameSet, TypeOK

LEMMA RegisterWordsIsNat == TypeOK => RegisterWords \in Nat
BY SpIsNat DEF RegisterWords

-----------------------------------------------------------------------------
(* The initial state.                                                      *)

LEMMA InitInv == Init => IInv
<1> SUFFICES ASSUME Init PROVE IInv
  OBVIOUS
<1> USE DEF Init
<1>1. ctx \in [Task -> ContextSet]
  BY DEF InitialContext, ContextSet, Reg
<1>2. irqStack \in Seq([ret : Point, mode : {"SYS", "SVC"}, i : BOOLEAN])
      /\ svcStack \in Seq(FrameSet)
  BY EmptySeq
<1>3. /\ g_current_interrupt_num \in [0 .. InterruptableNum - 1 -> Int]
      /\ opened \in [Task -> Nat]
  OBVIOUS
<1>4. TypeOK
  <2>1. pc \in Point /\ lrSvc \in Point /\ r4 \in Reg
    BY DEF Point, Reg
  <2>2. iMask \in BOOLEAN /\ ulPortYieldRequired \in BOOLEAN
        /\ ulPortTaskHasFPUContext \in BOOLEAN
    OBVIOUS
  <2>3. ulCriticalNesting \in Nat /\ ulPortInterruptNesting \in Nat
        /\ g_current_interrupt_pointer \in Nat
    BY DEF InitialCriticalNesting
  <2>4. /\ dregs \in Task \cup {NoTask} /\ pxCurrentTCB \in Task
        /\ pending \subseteq IntId /\ active \subseteq IntId
        /\ usesFPU \subseteq Task /\ mode \in {"SYS", "SVC"}
    OBVIOUS
  <2> HIDE DEF Init
  <2> QED BY <1>1, <1>2, <1>3, <2>1, <2>2, <2>3, <2>4 DEF TypeOK
<1>5. CpuInv /\ DepthInv /\ FrameInv /\ PrioInv
  BY DEF CpuInv, DepthInv, FrameInv, PrioInv, Handling, AsmPoint, IsrPoint
<1>6. ActiveInv
  BY DEF ActiveInv, InService
<1>7. CurrentInv
  BY DEF CurrentInv, Handling, AsmPoint, IsrPoint
<1>8. CtxInv
  BY DEF CtxInv, OnlyTasksSaved, Resumable, InitialContext
<1> QED BY <1>4, <1>5, <1>6, <1>7, <1>8 DEF IInv

-----------------------------------------------------------------------------
(* Steps that leave the stacks alone.                                      *)

(* Every variable IInv mentions, other than the ones of the controller.    *)
core == <<cpu, stacks, nest, task, hist,
          ulPortInterruptNesting, ulPortYieldRequired>>

LEMMA DeviceInv == IInv /\ Device => IInv'
<1> SUFFICES ASSUME IInv, Device PROVE IInv'
  OBVIOUS
<1>1. /\ UNCHANGED core /\ active' = active
      /\ pending' \subseteq IntId
  BY DEF Device, Raise, Withdraw, IInv, TypeOK, core
<1>2. TypeOK'
  BY <1>1 DEF IInv, TypeOK, core, cpu, stacks, nest, task, hist
<1>3. CpuInv' /\ DepthInv' /\ FrameInv'
  BY <1>1 DEF IInv, CpuInv, DepthInv, FrameInv, SavedBy, Handling, Recorded,
     core, cpu, stacks, nest, task, hist
<1>4. PrioInv' /\ ActiveInv'
  BY <1>1 DEF IInv, PrioInv, ActiveInv, InService, Recorded,
     core, cpu, stacks, nest, task, hist
<1>5. CurrentInv' /\ CtxInv'
  BY <1>1 DEF IInv, CurrentInv, CtxInv, OnlyTasksSaved, Resumable, Handling,
     core, cpu, stacks, nest, task, hist
<1> QED BY <1>2, <1>3, <1>4, <1>5 DEF IInv

LEMMA RequestYieldInv == IInv /\ RequestYield => IInv'
<1> SUFFICES ASSUME IInv, RequestYield PROVE IInv'
  OBVIOUS
<1> USE DEF RequestYield
<1>1. TypeOK'
  BY DEF IInv, TypeOK, cpu, stacks, nest, gic, task, hist
<1>2. CpuInv' /\ DepthInv' /\ FrameInv'
  BY DEF IInv, CpuInv, DepthInv, FrameInv, SavedBy, Handling, Recorded,
     cpu, stacks, nest, task, hist
<1>3. PrioInv' /\ ActiveInv'
  BY DEF IInv, PrioInv, ActiveInv, InService, Recorded, cpu, nest, gic
<1>4. CurrentInv' /\ CtxInv'
  BY DEF IInv, CurrentInv, CtxInv, OnlyTasksSaved, Resumable, Handling,
     cpu, task, hist
<1> QED BY <1>1, <1>2, <1>3, <1>4 DEF IInv

LEMMA CallIsrInv == IInv /\ CallIsr => IInv'
<1> SUFFICES ASSUME IInv, CallIsr PROVE IInv'
  OBVIOUS
<1> USE DEF CallIsr, Point, AsmPoint, IsrPoint
<1>1. TypeOK'
  BY DEF IInv, TypeOK, stacks, nest, gic, task, hist
<1>2. CpuInv' /\ DepthInv' /\ FrameInv'
  BY DEF IInv, CpuInv, DepthInv, FrameInv, SavedBy, Handling, Recorded,
     stacks, nest, task
<1>3. PrioInv' /\ ActiveInv'
  BY DEF IInv, PrioInv, ActiveInv, InService, Recorded, nest, gic
<1>4. CurrentInv' /\ CtxInv'
  BY DEF IInv, CurrentInv, CtxInv, OnlyTasksSaved, Resumable, Handling,
     task, hist
<1> QED BY <1>1, <1>2, <1>3, <1>4 DEF IInv

LEMMA IsrReturnInv == IInv /\ IsrReturn => IInv'
<1> SUFFICES ASSUME IInv, IsrReturn PROVE IInv'
  OBVIOUS
<1>0. pc' = "ret"
  BY DEF IInv, CpuInv, IsrReturn
<1> USE <1>0 DEF IsrReturn, Point, AsmPoint, IsrPoint
<1>1. TypeOK'
  BY DEF IInv, TypeOK, stacks, nest, gic, task, hist
<1>2. CpuInv' /\ DepthInv' /\ FrameInv'
  BY DEF IInv, CpuInv, DepthInv, FrameInv, SavedBy, Handling, Recorded,
     stacks, nest, task
<1>3. PrioInv' /\ ActiveInv'
  BY DEF IInv, PrioInv, ActiveInv, InService, Recorded, nest, gic
<1>4. CurrentInv' /\ CtxInv'
  BY DEF IInv, CurrentInv, CtxInv, OnlyTasksSaved, Resumable, Handling,
     task, hist
<1> QED BY <1>1, <1>2, <1>3, <1>4 DEF IInv

LEMMA SkipSpuriousInv == IInv /\ SkipSpurious => IInv'
<1> SUFFICES ASSUME IInv, SkipSpurious PROVE IInv'
  OBVIOUS
<1> USE DEF SkipSpurious, Point, AsmPoint, IsrPoint
<1>1. TypeOK'
  BY DEF IInv, TypeOK, stacks, nest, gic, task, hist
<1>2. CpuInv' /\ DepthInv' /\ FrameInv'
  BY DEF IInv, CpuInv, DepthInv, FrameInv, SavedBy, Handling, Recorded,
     stacks, nest, task
<1>3. PrioInv' /\ ActiveInv'
  BY DEF IInv, PrioInv, ActiveInv, InService, Recorded, nest, gic
<1>4. CurrentInv' /\ CtxInv'
  BY DEF IInv, CurrentInv, CtxInv, OnlyTasksSaved, Resumable, Handling,
     task, hist
<1> QED BY <1>1, <1>2, <1>3, <1>4 DEF IInv

-----------------------------------------------------------------------------
(* The acknowledgement keeps the chain of priorities, the end of an        *)
(* interrupt takes the most urgent one away.                               *)

LEMMA GetActiveIRQInv == IInv /\ FreeRTOS_GetActiveIRQ => IInv'
<1> SUFFICES ASSUME IInv, FreeRTOS_GetActiveIRQ PROVE IInv'
  OBVIOUS
<1> USE DEF FreeRTOS_GetActiveIRQ, Point, AsmPoint, IsrPoint
<1>1. TypeOK'
  BY DEF IInv, TypeOK, stacks, nest, gic, task, hist, MostUrgent, Reg
<1>2. CpuInv' /\ DepthInv' /\ FrameInv'
  BY DEF IInv, CpuInv, DepthInv, FrameInv, SavedBy, Handling, Recorded,
     stacks, nest, task
<1>3. PrioInv' /\ ActiveInv'
  <2>1. CASE MostUrgent = {} /\ r4' = SpuriousId /\ UNCHANGED gic
    BY <2>1, IdAssumption
    DEF IInv, PrioInv, ActiveInv, InService, Recorded, nest, gic
  <2>2. ASSUME NEW i \in MostUrgent, r4' = i, active' = active \cup {i}
        PROVE  PrioInv' /\ ActiveInv'
    <3>1. i \in IntId /\ i # SpuriousId
      BY <2>2, IdAssumption DEF MostUrgent, IInv, TypeOK
    <3>2. \A k \in 1 .. g_current_interrupt_pointer : Prio[i] < Prio[Recorded(k)]
      BY <2>2 DEF MostUrgent, Preempts, IInv, ActiveInv, InService
    <3>3. PrioInv'
      BY <2>2, <3>1, <3>2 DEF IInv, PrioInv, Recorded, nest
    <3>4. ActiveInv'
      BY <2>2, <3>1 DEF IInv, ActiveInv, InService, Recorded, nest
    <3> QED BY <3>3, <3>4
  <2> QED BY <2>1, <2>2
<1>4. CurrentInv' /\ CtxInv'
  BY DEF IInv, CurrentInv, CtxInv, OnlyTasksSaved, Resumable, Handling,
     task, hist
<1> QED BY <1>1, <1>2, <1>3, <1>4 DEF IInv

LEMMA EndOfInterruptInv == IInv /\ FreeRTOS_EndOfInterrupt => IInv'
<1> SUFFICES ASSUME IInv, FreeRTOS_EndOfInterrupt PROVE IInv'
  OBVIOUS
<1> USE DEF FreeRTOS_EndOfInterrupt, Point, AsmPoint, IsrPoint
<1>1. TypeOK'
  BY DEF IInv, TypeOK, stacks, nest, gic, task, hist
<1>2. CpuInv' /\ DepthInv' /\ FrameInv'
  BY DEF IInv, CpuInv, DepthInv, FrameInv, SavedBy, Handling, Recorded,
     stacks, nest, task
<1>3. PrioInv'
  BY DEF IInv, PrioInv, Recorded, nest
<1>4. ActiveInv'
  <2>1. \A k \in 1 .. g_current_interrupt_pointer :
          Recorded(k) # r4 /\ Recorded(k) # SpuriousId
    <3> SUFFICES ASSUME NEW k \in 1 .. g_current_interrupt_pointer
                 PROVE  Recorded(k) # r4 /\ Recorded(k) # SpuriousId
      OBVIOUS
    <3>1. Recorded(k) \in IntId /\ r4 \in IntId \cup {SpuriousId}
          /\ (r4 \in IntId => Prio[r4] < Prio[Recorded(k)])
      BY DEF IInv, PrioInv
    <3>2. Prio[Recorded(k)] \in 0 .. PrioLevels - 1
      BY <3>1, IdAssumption
    <3> QED BY <3>1, <3>2, IdAssumption, ConfigAssumption
  <2> QED BY <2>1 DEF IInv, ActiveInv, InService, Recorded, nest
<1>5. CurrentInv' /\ CtxInv'
  BY DEF IInv, CurrentInv, CtxInv, OnlyTasksSaved, Resumable, Handling,
     task, hist
<1> QED BY <1>1, <1>2, <1>3, <1>4, <1>5 DEF IInv

(* There are at least as many levels as dispatchers.                       *)
LEMMA PointerBounded == IInv => g_current_interrupt_pointer <= PrioLevels
<1> SUFFICES ASSUME IInv, g_current_interrupt_pointer > 0
             PROVE  g_current_interrupt_pointer <= PrioLevels
  BY ConfigAssumption DEF IInv, TypeOK
<1> DEFINE p == g_current_interrupt_pointer
<1>1. p \in 1 .. p
  BY DEF IInv, TypeOK
<1>2. Recorded(p) \in IntId /\ Prio[Recorded(p)] <= PrioLevels - p
  BY <1>1 DEF IInv, PrioInv
<1>3. Prio[Recorded(p)] \in 0 .. PrioLevels - 1
  BY <1>2, IdAssumption
<1> QED BY <1>1, <1>2, <1>3, ConfigAssumption

(* A further interrupt finds a level, and an entry of the array, free.     *)
LEMMA LevelFree ==
  ASSUME IInv, pc = "handler", r4 # SpuriousId
  PROVE  /\ r4 \in IntId
         /\ Prio[r4] <= PrioLevels - (g_current_interrupt_pointer + 1)
         /\ g_current_interrupt_pointer \in 0 .. InterruptableNum - 1
<1> DEFINE p == g_current_interrupt_pointer
<1>1. r4 \in IntId /\ p \in Nat
  BY DEF IInv, PrioInv, TypeOK
<1>2. Prio[r4] \in 0 .. PrioLevels - 1
  BY <1>1, IdAssumption
<1>3. CASE p = 0
  BY <1>1, <1>2, <1>3, ConfigAssumption
<1>4. CASE p > 0
  <2>1. p \in 1 .. p
    BY <1>1, <1>4
  <2>2. /\ Recorded(p) \in IntId /\ Prio[Recorded(p)] <= PrioLevels - p
        /\ Prio[r4] < Prio[Recorded(p)]
    BY <1>1, <2>1 DEF IInv, PrioInv
  <2>3. Prio[Recorded(p)] \in 0 .. PrioLevels - 1
    BY <2>2, IdAssumption
  <2> QED BY <1>1, <1>2, <2>2, <2>3, ConfigAssumption
<1> QED BY <1>1, <1>3, <1>4

-----------------------------------------------------------------------------
(* Steps that push or pop a frame.                                         *)

LEMMA IRQ_HandlerInv == IInv /\ IRQ_Handler => IInv'
<1> SUFFICES ASSUME IInv, IRQ_Handler PROVE IInv'
  OBVIOUS
<1> DEFINE n == ulPortInterruptNesting
           e == [ret |-> pc, mode |-> mode, i |-> iMask]
           f == Frame(lrSvc, RegisterWords)
           E == [ret : Point, mode : {"SYS", "SVC"}, i : BOOLEAN]
<1>1. /\ e \in E /\ f \in FrameSet
      /\ irqStack \in Seq(E) /\ svcStack \in Seq(FrameSet)
      /\ n \in Nat /\ g_current_interrupt_pointer \in Nat
  BY FrameTyped, RegisterWordsIsNat DEF IInv, TypeOK
<1>2. /\ irqStack' \in Seq(E)
      /\ Len(irqStack') = Len(irqStack) + 1
      /\ irqStack'[Len(irqStack) + 1] = e
      /\ \A k \in 1 .. Len(irqStack) : irqStack'[k] = irqStack[k]
  <2> HIDE DEF e, E
  <2> QED BY <1>1, PushProps DEF IRQ_Handler, e
<1>3. /\ svcStack' \in Seq(FrameSet)
      /\ Len(svcStack') = Len(svcStack) + 1
      /\ svcStack'[Len(svcStack) + 1] = f
      /\ \A k \in 1 .. Len(svcStack) : svcStack'[k] = svcStack[k]
  <2> HIDE DEF f
  <2> QED BY <1>1, PushProps DEF IRQ_Handler, f
<1>4. f.r4 = r4 /\ f.lr = lrSvc /\ e.ret = pc /\ e.mode = mode /\ e.i = iMask
  BY DEF Frame
<1> HIDE DEF e, f, E
<1>5. pc \in {"task"} \cup IsrPoint /\ ~iMask
  BY DEF IRQ_Handler, IInv, TypeOK, CpuInv, Point, TaskPoint
<1>6. TypeOK'
  BY <1>1, <1>2, <1>3 DEF IRQ_Handler, IInv, TypeOK, Point, AsmPoint, nest,
     gic, task, hist, E
<1>7. CpuInv'
  BY DEF IRQ_Handler, CpuInv, AsmPoint, IsrPoint
<1>8. Len(irqStack) = n /\ g_current_interrupt_pointer = n
      /\ Len(svcStack) = 2 * n /\ (n = 0 <=> pc = "task")
  BY <1>1, <1>5 DEF IInv, DepthInv, Handling, AsmPoint, IsrPoint
<1>9. /\ pc' = "get" /\ ulPortInterruptNesting' = n + 1
      /\ g_current_interrupt_pointer' = n /\ pxCurrentTCB' = pxCurrentTCB
      /\ g_current_interrupt_num' = g_current_interrupt_num
  BY <1>8 DEF IRQ_Handler, nest, task
<1> HIDE DEF n
<1>10. DepthInv'
  <2>1. Len(irqStack') = n + 1 /\ Len(svcStack') = 2 * n + 1
    BY <1>2, <1>3, <1>8
  <2> QED BY <1>1, <1>9, <2>1 DEF DepthInv, Handling, AsmPoint, IsrPoint
<1>11. FrameInv'
  <2>1. ASSUME NEW k \in 1 .. n PROVE SavedBy(k)'
    <3>1. SavedBy(k)
      BY <2>1 DEF IInv, FrameInv, n
    <3>2. k \in 1 .. Len(irqStack) /\ 2 * k - 1 \in 1 .. Len(svcStack)
          /\ 1 \in 1 .. Len(svcStack)
      BY <1>1, <1>8
    <3> QED BY <1>2, <1>3, <1>9, <3>1, <3>2 DEF SavedBy, Recorded
  <2>2. ASSUME NEW k, k = n + 1 PROVE SavedBy(k)'
    <3>1. irqStack'[k] = e /\ svcStack'[2 * k - 1] = f /\ k \in Nat
      <4>1. 2 * k - 1 = Len(svcStack) + 1 /\ k = Len(irqStack) + 1
        BY <1>1, <1>8, <2>2
      <4> QED BY <1>1, <1>2, <1>3, <2>2, <4>1
    <3>2. CASE pc = "task"
      <4>1. k = 1 /\ mode = "SYS" /\ r4 = pxCurrentTCB
        BY <1>1, <1>8, <2>2, <3>2 DEF IInv, CurrentInv
      <4>2. svcStack'[1] = f
        BY <3>1, <4>1
      <4> QED BY <1>4, <1>5, <1>9, <3>1, <3>2, <4>1, <4>2 DEF SavedBy
    <3>3. CASE pc \in IsrPoint
      <4>1. k > 1 /\ k - 1 = n
        BY <1>1, <1>8, <2>2, <3>3 DEF IsrPoint
      <4>2. r4 = Recorded(k - 1) /\ mode = "SVC"
            /\ (pc \in {"isr", "bad"} => lrSvc = "ret")
        BY <1>8, <3>3, <4>1 DEF IInv, PrioInv, CpuInv
      <4> QED BY <1>4, <1>5, <1>9, <3>1, <3>3, <4>1, <4>2
          DEF SavedBy, Recorded
    <3> QED BY <1>5, <3>2, <3>3
  <2>3. ASSUME NEW k \in 1 .. n
        PROVE  svcStack'[2 * k].lr = "epi" /\ svcStack'[2 * k].r4 = Recorded(k)'
    <3>1. 2 * k \in 1 .. Len(svcStack) /\ k \in 1 .. g_current_interrupt_pointer
      BY <1>1, <1>8
    <3> QED BY <1>3, <1>9, <3>1 DEF IInv, FrameInv, Recorded
  <2>4. \A k \in 1 .. n + 1 : k \in 1 .. n \/ k = n + 1
    BY <1>1
  <2>5. \A k \in 1 .. ulPortInterruptNesting' : SavedBy(k)'
    BY <1>9, <2>1, <2>2, <2>4
  <2>6. \A k \in 1 .. g_current_interrupt_pointer' :
          (svcStack[2 * k].lr = "epi" /\ svcStack[2 * k].r4 = Recorded(k))'
    BY <1>9, <2>3
  <2> QED BY <2>5, <2>6 DEF FrameInv
<1>12. PrioInv' /\ ActiveInv'
  BY <1>5 DEF IRQ_Handler, IInv, PrioInv, ActiveInv, InService, Recorded,
     nest, gic, IsrPoint
<1>13. CurrentInv'
  BY <1>5 DEF IRQ_Handler, IInv, CurrentInv, Handling, task, hist, AsmPoint,
     IsrPoint, TypeOK
<1>14. CtxInv'
  BY <1>5 DEF IRQ_Handler, IInv, CtxInv, OnlyTasksSaved, Resumable, task, hist,
     IsrPoint
<1> QED BY <1>6, <1>7, <1>10, <1>11, <1>12, <1>13, <1>14 DEF IInv

LEMMA EnterDispatcherInv ==
  ASSUME IInv, NEW w \in CFrameWords, EnterDispatcher(w)
  PROVE  IInv'
<1> DEFINE p == g_current_interrupt_pointer
           f == Frame("epi", w)
<1>1. /\ p \in Nat /\ ulPortInterruptNesting \in Nat
      /\ svcStack \in Seq(FrameSet) /\ pc = "handler"
      /\ "epi" \in Point /\ w \in Nat
  BY TaskAssumption DEF IInv, TypeOK, EnterDispatcher, Point, AsmPoint
<1>2. f \in FrameSet /\ f.r4 = r4 /\ f.lr = "epi"
  BY <1>1, FrameTyped DEF IInv, Frame
<1> HIDE DEF f
<1>3. /\ svcStack' \in Seq(FrameSet)
      /\ Len(svcStack') = Len(svcStack) + 1
      /\ svcStack'[Len(svcStack) + 1] = f
      /\ \A k \in 1 .. Len(svcStack) : svcStack'[k] = svcStack[k]
  BY <1>1, <1>2, PushProps DEF EnterDispatcher, f
<1>4. /\ r4 \in IntId /\ r4 \in Int
      /\ Prio[r4] <= PrioLevels - (p + 1)
      /\ p \in 0 .. InterruptableNum - 1
  BY <1>1, LevelFree, IdAssumption DEF EnterDispatcher
<1>5. /\ pc' = "call" /\ r4' = r4 /\ irqStack' = irqStack
      /\ ulPortInterruptNesting' = ulPortInterruptNesting
      /\ g_current_interrupt_pointer' = p + 1
      /\ UNCHANGED <<mode, gic, task, hist, ulPortYieldRequired>>
      /\ iMask' = FALSE /\ lrSvc' = "epi"
  BY DEF EnterDispatcher
<1>6. /\ g_current_interrupt_num' \in [0 .. InterruptableNum - 1 -> Int]
      /\ g_current_interrupt_num'[p] = r4 - CortexEntries
      /\ \A k \in Int : k # p =>
           g_current_interrupt_num'[k] = g_current_interrupt_num[k]
  BY <1>4, ConfigAssumption DEF EnterDispatcher, IInv, TypeOK
<1>7. /\ p = ulPortInterruptNesting - 1
      /\ Len(svcStack) = 2 * p + 1
      /\ Len(irqStack) = p + 1
  BY <1>1 DEF IInv, DepthInv, AsmPoint
<1> HIDE DEF p
<1>8. /\ \A k \in 1 .. p : Recorded(k)' = Recorded(k)
      /\ \A k : k = p + 1 => Recorded(k)' = r4
  <2>1. ASSUME NEW k \in 1 .. p PROVE Recorded(k)' = Recorded(k)
    <3>1. k - 1 \in Int /\ k - 1 # p
      BY <1>1, p \in Nat DEF p
    <3> QED BY <1>6, <3>1 DEF Recorded
  <2>2. ASSUME NEW k, k = p + 1 PROVE Recorded(k)' = r4
    <3>1. k - 1 = p
      BY <1>4, <2>2
    <3> QED BY <1>4, <1>6, <3>1, ConfigAssumption DEF Recorded
  <2> QED BY <2>1, <2>2
<1>9. TypeOK'
  <2>1. p + 1 \in Nat
    BY <1>4, ConfigAssumption
  <2> QED BY <1>3, <1>5, <1>6, <2>1
      DEF IInv, TypeOK, Point, AsmPoint, IsrPoint, gic, task, hist
<1>10. CpuInv'
  BY <1>1, <1>5 DEF IInv, CpuInv, AsmPoint, IsrPoint
<1>11. DepthInv'
  BY <1>1, <1>3, <1>4, <1>5, <1>7 DEF IInv, DepthInv, Handling, AsmPoint, IsrPoint
<1>12. FrameInv'
  <2>1. ASSUME NEW k \in 1 .. p + 1 PROVE SavedBy(k)'
    <3>1. SavedBy(k) /\ k \in Nat
      <4>1. k \in 1 .. ulPortInterruptNesting
        BY <1>1, <1>4, <1>7, <2>1
      <4> QED BY <4>1 DEF IInv, FrameInv
    <3>2. 2 * k - 1 \in 1 .. Len(svcStack) /\ 1 \in 1 .. Len(svcStack)
      BY <1>4, <1>7, <2>1
    <3>3. k > 1 => k - 1 \in 1 .. p
      BY <1>4, <2>1
    <3>4. pxCurrentTCB' = pxCurrentTCB
      BY <1>5 DEF task
    <3>5. k > 1 => Recorded(k - 1)' = Recorded(k - 1)
      BY <1>8, <3>3
    <3> QED BY <1>3, <1>5, <3>1, <3>2, <3>4, <3>5 DEF SavedBy
  <2>2. ASSUME NEW k \in 1 .. p
        PROVE  svcStack'[2 * k].lr = "epi" /\ svcStack'[2 * k].r4 = Recorded(k)'
    <3>1. 2 * k \in 1 .. Len(svcStack) /\ k \in 1 .. g_current_interrupt_pointer
      BY <1>4, <1>7, <2>2 DEF p
    <3> QED BY <1>3, <1>8, <2>2, <3>1 DEF IInv, FrameInv
  <2>3. ASSUME NEW k, k = p + 1
        PROVE  svcStack'[2 * k].lr = "epi" /\ svcStack'[2 * k].r4 = Recorded(k)'
    <3>1. 2 * k = Len(svcStack) + 1
      BY <1>4, <1>7, <2>3
    <3> QED BY <1>2, <1>3, <1>8, <2>3, <3>1
  <2>4. \A k \in 1 .. p + 1 : k \in 1 .. p \/ k = p + 1
    BY <1>4
  <2>5. \A k \in 1 .. ulPortInterruptNesting' : SavedBy(k)'
    BY <1>1, <1>4, <1>5, <1>7, <2>1
  <2>6. \A k \in 1 .. g_current_interrupt_pointer' :
          (svcStack[2 * k].lr = "epi" /\ svcStack[2 * k].r4 = Recorded(k))'
    BY <1>5, <2>2, <2>3, <2>4
  <2> QED BY <2>5, <2>6 DEF FrameInv
<1>13. PrioInv'
  <2>1. ASSUME NEW k \in 1 .. p + 1
        PROVE  /\ Recorded(k)' \in IntId
               /\ Prio[Recorded(k)'] <= PrioLevels - k
               /\ \A j \in 1 .. k - 1 : Prio[Recorded(k)'] < Prio[Recorded(j)']
    <3>0. \A j \in 1 .. k - 1 : j \in 1 .. p
      BY <1>4
    <3>1. CASE k = p + 1
      BY <1>1, <1>4, <1>8, <3>0, <3>1 DEF IInv, PrioInv, p
    <3>2. CASE k # p + 1
      <4>1. k \in 1 .. p
        BY <1>4, <3>2
      <4> QED BY <1>8, <3>0, <4>1 DEF IInv, PrioInv, p
    <3> QED BY <3>1, <3>2
  <2>2. \A k : k = p + 1 => r4' = Recorded(k)'
    BY <1>5, <1>8
  <2>3. \A k \in 1 .. g_current_interrupt_pointer' :
          (/\ Recorded(k) \in IntId
           /\ Prio[Recorded(k)] <= PrioLevels - k
           /\ \A j \in 1 .. k - 1 : Prio[Recorded(k)] < Prio[Recorded(j)])'
    BY <1>5, <2>1
  <2>4. r4' = Recorded(g_current_interrupt_pointer)'
    BY <1>4, <1>5, <1>6, ConfigAssumption DEF Recorded
  <2> QED BY <1>5, <2>3, <2>4 DEF PrioInv
<1>14. ActiveInv'
  <2>1. active = {Recorded(k) : k \in 1 .. p} \cup {r4}
    BY <1>1, <1>4, IdAssumption DEF IInv, ActiveInv, InService, p
  <2>2. InService' = {Recorded(k)' : k \in 1 .. p + 1}
    BY <1>5 DEF InService
  <2>3. {Recorded(k)' : k \in 1 .. p + 1} = {Recorded(k) : k \in 1 .. p} \cup {r4}
    <3>1. 1 .. p + 1 = (1 .. p) \cup {p + 1}
      BY <1>4
    <3>2. \A k \in {p + 1} : Recorded(k)' = r4
      BY <1>8
    <3> QED BY <1>8, <3>1, <3>2
  <2> QED BY <1>5, <2>1, <2>2, <2>3 DEF ActiveInv, gic
<1>15. CurrentInv' /\ CtxInv'
  BY <1>1, <1>5 DEF IInv, CurrentInv, CtxInv, OnlyTasksSaved, Resumable, Handling,
     task, hist, AsmPoint, IsrPoint
<1> QED BY <1>9, <1>10, <1>11, <1>12, <1>13, <1>14, <1>15 DEF IInv

LEMMA LeaveDispatcherInv == IInv /\ LeaveDispatcher => IInv'
<1> SUFFICES ASSUME IInv, LeaveDispatcher PROVE IInv'
  OBVIOUS
<1> DEFINE p == g_current_interrupt_pointer
<1>1. /\ p \in Nat /\ p > 0 /\ svcStack \in Seq(FrameSet) /\ pc = "ret"
      /\ p = ulPortInterruptNesting /\ Len(svcStack) = 2 * p
      /\ Len(irqStack) = p
  BY DEF IInv, TypeOK, DepthInv, LeaveDispatcher, IsrPoint
<1>2. /\ svcStack' \in Seq(FrameSet)
      /\ Len(svcStack') = 2 * p - 1
      /\ \A k \in 1 .. 2 * p - 1 : svcStack'[k] = svcStack[k]
      /\ Top(svcStack) = svcStack[2 * p]
  <2>1. Len(svcStack) > 0 /\ Len(svcStack) - 1 = 2 * p - 1
    BY <1>1
  <2> HIDE DEF p
  <2> QED BY <1>1, <2>1, PopProps DEF LeaveDispatcher
<1>3. svcStack[2 * p].lr = "epi" /\ svcStack[2 * p].r4 = r4 /\ r4 = Recorded(p)
  BY <1>1 DEF IInv, FrameInv, PrioInv, IsrPoint
<1>4. /\ pc' = "epi" /\ r4' = r4 /\ irqStack' = irqStack
      /\ ulPortInterruptNesting' = ulPortInterruptNesting
      /\ g_current_interrupt_num' = g_current_interrupt_num
      /\ g_current_interrupt_pointer' = p - 1
      /\ UNCHANGED <<mode, lrSvc, gic, task, hist, ulPortYieldRequired>>
      /\ iMask' = TRUE
  BY <1>2, <1>3 DEF LeaveDispatcher
<1>5. \A k : Recorded(k)' = Recorded(k)
  BY <1>4 DEF Recorded
<1>6. /\ r4 \in IntId /\ r4 # SpuriousId
      /\ \A k \in 1 .. p - 1 : Prio[r4] < Prio[Recorded(k)]
  <2>1. p \in 1 .. p
    BY <1>1
  <2> QED BY <1>3, <2>1, IdAssumption DEF IInv, PrioInv
<1> HIDE DEF p
<1>7. TypeOK'
  <2>1. p - 1 \in Nat
    BY <1>1
  <2> QED BY <1>2, <1>4, <2>1
      DEF IInv, TypeOK, Point, AsmPoint, IsrPoint, gic, task, hist
<1>8. CpuInv'
  BY <1>1, <1>4 DEF IInv, CpuInv, AsmPoint, IsrPoint
<1>9. DepthInv'
  BY <1>1, <1>2, <1>4 DEF IInv, DepthInv, Handling, AsmPoint, IsrPoint
<1>10. FrameInv'
  <2>1. ASSUME NEW k \in 1 .. p PROVE SavedBy(k)'
    <3>1. SavedBy(k)
      BY <1>1, <2>1 DEF IInv, FrameInv
    <3>2. 2 * k - 1 \in 1 .. 2 * p - 1 /\ 1 \in 1 .. 2 * p - 1
      BY <1>1, <2>1
    <3>3. pxCurrentTCB' = pxCurrentTCB
      BY <1>4 DEF task
    <3> QED BY <1>2, <1>4, <1>5, <3>1, <3>2, <3>3 DEF SavedBy
  <2>2. ASSUME NEW k \in 1 .. p - 1
        PROVE  svcStack'[2 * k].lr = "epi" /\ svcStack'[2 * k].r4 = Recorded(k)'
    <3>1. 2 * k \in 1 .. 2 * p - 1 /\ k \in 1 .. g_current_interrupt_pointer
      BY <1>1, <2>2 DEF p
    <3> QED BY <1>2, <1>5, <3>1 DEF IInv, FrameInv
  <2>3. \A k \in 1 .. ulPortInterruptNesting' : SavedBy(k)'
    BY <1>1, <1>4, <2>1
  <2>4. \A k \in 1 .. g_current_interrupt_pointer' :
          (svcStack[2 * k].lr = "epi" /\ svcStack[2 * k].r4 = Recorded(k))'
    BY <1>4, <2>2
  <2> QED BY <2>3, <2>4 DEF FrameInv
<1>11. PrioInv'
  <2>1. \A k \in 1 .. p - 1 : k \in 1 .. g_current_interrupt_pointer
    BY <1>1 DEF p
  <2>2. \A k \in 1 .. g_current_interrupt_pointer' :
          (/\ Recorded(k) \in IntId
           /\ Prio[Recorded(k)] <= PrioLevels - k
           /\ \A j \in 1 .. k - 1 : Prio[Recorded(k)] < Prio[Recorded(j)])'
    BY <1>4, <1>5, <2>1 DEF IInv, PrioInv
  <2> QED BY <1>4, <1>5, <1>6, <2>2 DEF PrioInv, IsrPoint
<1>12. ActiveInv'
  <2>1. active = {Recorded(k) : k \in 1 .. p}
    BY <1>1 DEF IInv, ActiveInv, InService, p
  <2>2. InService' = {Recorded(k) : k \in 1 .. p - 1} \cup {r4}
    BY <1>4, <1>5, <1>6 DEF InService
  <2>3. 1 .. p = (1 .. p - 1) \cup {p}
    BY <1>1
  <2>4. {Recorded(k) : k \in 1 .. p} = {Recorded(k) : k \in 1 .. p - 1} \cup {r4}
    BY <1>3, <2>3 DEF p
  <2> QED BY <1>4, <2>1, <2>2, <2>4 DEF ActiveInv, gic
<1>13. CurrentInv' /\ CtxInv'
  BY <1>1, <1>4 DEF IInv, CurrentInv, CtxInv, OnlyTasksSaved, Resumable, Handling,
     task, hist, AsmPoint, IsrPoint
<1> QED BY <1>7, <1>8, <1>9, <1>10, <1>11, <1>12, <1>13 DEF IInv

LEMMA ExitWithoutSwitchInv == IInv /\ exit_without_switch => IInv'
<1> SUFFICES ASSUME IInv, exit_without_switch PROVE IInv'
  OBVIOUS
<1> DEFINE n == ulPortInterruptNesting
           E == [ret : Point, mode : {"SYS", "SVC"}, i : BOOLEAN]
<1>1. /\ n \in Nat /\ n > 0 /\ pc = "pop"
      /\ svcStack \in Seq(FrameSet) /\ irqStack \in Seq(E)
      /\ g_current_interrupt_pointer = n - 1
      /\ Len(svcStack) = 2 * n - 1 /\ Len(irqStack) = n
  BY DEF IInv, TypeOK, DepthInv, exit_without_switch, AsmPoint
<1> HIDE DEF n
<1>2. /\ svcStack' \in Seq(FrameSet)
      /\ Len(svcStack') = 2 * n - 2
      /\ \A k \in 1 .. 2 * n - 2 : svcStack'[k] = svcStack[k]
      /\ Top(svcStack) = svcStack[2 * n - 1]
      /\ Top(svcStack) \in FrameSet
  <2>1. Len(svcStack) > 0 /\ Len(svcStack) - 1 = 2 * n - 2
    BY <1>1
  <2> QED BY <1>1, <2>1, PopProps DEF exit_without_switch
<1>3. /\ irqStack' \in Seq(E)
      /\ Len(irqStack') = n - 1
      /\ \A k \in 1 .. n - 1 : irqStack'[k] = irqStack[k]
      /\ Top(irqStack) = irqStack[n]
      /\ Top(irqStack) \in E
  <2> HIDE DEF E
  <2> QED BY <1>1, PopProps DEF exit_without_switch
<1>4. SavedBy(n)
  BY <1>1 DEF IInv, FrameInv, n
<1>5. /\ pc' = irqStack[n].ret /\ mode' = irqStack[n].mode
      /\ iMask' = FALSE
      /\ r4' = svcStack[2 * n - 1].r4 /\ lrSvc' = svcStack[2 * n - 1].lr
      /\ ulPortInterruptNesting' = n - 1
      /\ g_current_interrupt_pointer' = n - 1
      /\ g_current_interrupt_num' = g_current_interrupt_num
      /\ UNCHANGED <<gic, task, hist, ulPortYieldRequired>>
  BY <1>1, <1>2, <1>3, <1>4 DEF exit_without_switch, RestoredLink, SavedBy, nest, n
<1>6. \A k : Recorded(k)' = Recorded(k)
  BY <1>5 DEF Recorded
<1>7. /\ n = 1 => /\ pc' = "task" /\ mode' = "SYS" /\ r4' = pxCurrentTCB
                  /\ ~ulPortYieldRequired
      /\ n > 1 => /\ pc' \in IsrPoint /\ mode' = "SVC"
                  /\ r4' = Recorded(n - 1)
                  /\ pc' \in {"isr", "bad"} => lrSvc' = "ret"
  BY <1>1, <1>4, <1>5 DEF SavedBy, exit_without_switch, SwitchBeforeExit, n
<1>8. n = 1 \/ n > 1
  BY <1>1
<1>9. TypeOK'
  <2>1. n - 1 \in Nat
    BY <1>1
  <2>2. pc' \in Point /\ mode' \in {"SYS", "SVC"} /\ r4' \in Reg /\ lrSvc' \in Point
    BY <1>2, <1>3, <1>5 DEF FrameSet
  <2> QED BY <1>2, <1>3, <1>5, <2>1, <2>2 DEF IInv, TypeOK, gic, task, hist
<1>10. CpuInv'
  BY <1>5, <1>7, <1>8 DEF CpuInv, AsmPoint, IsrPoint
<1>11. DepthInv'
  BY <1>1, <1>2, <1>3, <1>5, <1>7, <1>8 DEF DepthInv, Handling, AsmPoint, IsrPoint
<1>12. FrameInv'
  <2>1. ASSUME NEW k \in 1 .. n - 1 PROVE SavedBy(k)'
    <3>1. SavedBy(k)
      <4>1. k \in 1 .. ulPortInterruptNesting
        BY <1>1 DEF n
      <4> QED BY <4>1 DEF IInv, FrameInv
    <3>2. 2 * k - 1 \in 1 .. 2 * n - 2 /\ 1 \in 1 .. 2 * n - 2
      BY <1>1, <2>1
    <3>3. pxCurrentTCB' = pxCurrentTCB
      BY <1>5 DEF task
    <3> QED BY <1>2, <1>3, <1>6, <3>1, <3>2, <3>3 DEF SavedBy
  <2>2. ASSUME NEW k \in 1 .. n - 1
        PROVE  svcStack'[2 * k].lr = "epi" /\ svcStack'[2 * k].r4 = Recorded(k)'
    <3>1. 2 * k \in 1 .. 2 * n - 2 /\ k \in 1 .. g_current_interrupt_pointer
      BY <1>1, <2>2
    <3> QED BY <1>2, <1>6, <3>1 DEF IInv, FrameInv
  <2>3. \A k \in 1 .. ulPortInterruptNesting' : SavedBy(k)'
    BY <1>5, <2>1
  <2>4. \A k \in 1 .. g_current_interrupt_pointer' :
          (svcStack[2 * k].lr = "epi" /\ svcStack[2 * k].r4 = Recorded(k))'
    BY <1>5, <2>2
  <2> QED BY <2>3, <2>4 DEF FrameInv
<1>13. PrioInv'
  <2>1. \A k \in 1 .. g_current_interrupt_pointer' :
          (/\ Recorded(k) \in IntId
           /\ Prio[Recorded(k)] <= PrioLevels - k
           /\ \A j \in 1 .. k - 1 : Prio[Recorded(k)] < Prio[Recorded(j)])'
    BY <1>1, <1>5, <1>6 DEF IInv, PrioInv
  <2> QED BY <1>5, <1>6, <1>7, <1>8, <2>1 DEF PrioInv, IsrPoint
<1>14. ActiveInv'
  <2>1. pc' \notin {"handler", "epi"}
    BY <1>7, <1>8 DEF IsrPoint
  <2>2. active = {Recorded(k) : k \in 1 .. n - 1}
    BY <1>1 DEF IInv, ActiveInv, InService
  <2>3. InService' = {Recorded(k) : k \in 1 .. n - 1}
    BY <1>5, <1>6, <2>1 DEF InService
  <2> QED BY <1>5, <2>2, <2>3 DEF ActiveInv, gic
<1>15. CurrentInv'
  <2>1. opened[pxCurrentTCB] = 0 /\ pc # "boot"
    BY <1>1 DEF IInv, CurrentInv, Handling, AsmPoint
  <2> QED BY <1>5, <1>7, <1>8, <2>1
      DEF IInv, CurrentInv, Handling, AsmPoint, IsrPoint, task, hist
<1>16. CtxInv'
  BY <1>1, <1>5, <1>7, <1>8
  DEF IInv, CtxInv, OnlyTasksSaved, Resumable, task, hist, IsrPoint
<1> QED BY <1>9, <1>10, <1>11, <1>12, <1>13, <1>14, <1>15, <1>16 DEF IInv

-----------------------------------------------------------------------------
(* Switches of tasks, and task code.                                       *)

EntrySet == [ret : Point, mode : {"SYS", "SVC"}, i : BOOLEAN]

(* What is common to the three places that restore a task: the core runs   *)
(* nothing but that task afterwards, out of a sound context.               *)
Handover(t) ==
  /\ RestoreContext(t, ctx'[t])
  /\ ctx' \in [Task -> ContextSet]
  /\ OnlyTasksSaved'
  /\ \A u \in Task : Resumable(u)'
  /\ UNCHANGED <<hist, gic, g_current_interrupt_num, g_current_interrupt_pointer>>
  /\ g_current_interrupt_pointer = 0
  /\ active = {}
  /\ irqStack' \in Seq(EntrySet) /\ Len(irqStack') = 0
  /\ svcStack' \in Seq(FrameSet) /\ Len(svcStack') = 0
  /\ ulPortInterruptNesting' = 0
  /\ ulPortYieldRequired' = FALSE
  /\ lrSvc' \in Point

LEMMA HandoverInv ==
  ASSUME IInv, NEW t \in Task, Handover(t)
  PROVE  IInv'
<1> DEFINE c == ctx'[t]
<1>1. /\ c \in ContextSet
      /\ c.ret = "task" /\ c.mode = "SYS" /\ c.r4 = t
      /\ c.crit = opened[t]
      /\ c.i <=> opened[t] > 0
      /\ c.fpu <=> t \in usesFPU
      /\ t \in usesFPU => c.dregs = t
      /\ opened[t] \in Nat
  BY DEF Handover, OnlyTasksSaved, Resumable, hist, IInv, TypeOK
<1>2. /\ pc' = "task" /\ mode' = "SYS" /\ r4' = t /\ pxCurrentTCB' = t
      /\ ulCriticalNesting' = opened[t]
      /\ iMask' = c.i
      /\ ulPortTaskHasFPUContext' = c.fpu
      /\ dregs' = IF c.fpu THEN c.dregs ELSE dregs
  BY <1>1 DEF Handover, RestoreContext
<1>3. /\ UNCHANGED <<hist, gic, g_current_interrupt_num, g_current_interrupt_pointer>>
      /\ g_current_interrupt_pointer' = 0 /\ active' = {}
      /\ irqStack' \in Seq(EntrySet) /\ Len(irqStack') = 0
      /\ svcStack' \in Seq(FrameSet) /\ Len(svcStack') = 0
      /\ ulPortInterruptNesting' = 0 /\ ulPortYieldRequired' = FALSE
      /\ lrSvc' \in Point
  BY DEF Handover, gic
<1> HIDE DEF c
<1>4. TypeOK'
  <2>1. /\ iMask' \in BOOLEAN /\ ulPortTaskHasFPUContext' \in BOOLEAN
        /\ dregs' \in Task \cup {NoTask}
    BY <1>1, <1>2 DEF ContextSet, IInv, TypeOK
  <2>2. pc' \in Point /\ mode' \in {"SYS", "SVC"} /\ r4' \in Reg
        /\ pxCurrentTCB' \in Task
    BY <1>2 DEF Point, TaskPoint, Reg
  <2>3. ctx' \in [Task -> ContextSet]
    BY DEF Handover
  <2>4. ulCriticalNesting' \in Nat
    BY <1>1, <1>2
  <2>5. /\ g_current_interrupt_num' \in [0 .. InterruptableNum - 1 -> Int]
        /\ g_current_interrupt_pointer' \in Nat /\ ulPortInterruptNesting' \in Nat
        /\ pending' \subseteq IntId /\ active' \subseteq IntId
        /\ opened' \in [Task -> Nat] /\ usesFPU' \subseteq Task
        /\ ulPortYieldRequired' \in BOOLEAN /\ lrSvc' \in Point
    BY <1>3 DEF IInv, TypeOK, gic, hist
  <2> QED BY <1>3, <2>1, <2>2, <2>3, <2>4, <2>5 DEF TypeOK, EntrySet
<1>5. CpuInv' /\ DepthInv' /\ FrameInv' /\ PrioInv'
  BY <1>2, <1>3
  DEF CpuInv, DepthInv, FrameInv, PrioInv, Handling, AsmPoint, IsrPoint
<1>6. ActiveInv'
  BY <1>2, <1>3 DEF ActiveInv, InService
<1>7. CurrentInv'
  BY <1>1, <1>2, <1>3 DEF CurrentInv, Handling, AsmPoint, IsrPoint, hist
<1>8. CtxInv'
  BY DEF Handover, CtxInv
<1> QED BY <1>4, <1>5, <1>6, <1>7, <1>8 DEF IInv

LEMMA StartSchedulerInv == IInv /\ xPortStartScheduler => IInv'
<1> SUFFICES ASSUME IInv, xPortStartScheduler PROVE IInv'
  OBVIOUS
<1>1. pxCurrentTCB \in Task /\ pc = "boot"
  BY DEF IInv, TypeOK, xPortStartScheduler
<1>2. Handover(pxCurrentTCB)
  <2>1. /\ ulPortInterruptNesting = 0 /\ g_current_interrupt_pointer = 0
        /\ Len(irqStack) = 0 /\ Len(svcStack) = 0 /\ active = {}
    BY <1>1 DEF IInv, DepthInv, ActiveInv, InService, Handling, AsmPoint, IsrPoint
  <2>2. ulPortYieldRequired = FALSE
    BY <1>1 DEF IInv, CurrentInv, TypeOK
  <2>3. OnlyTasksSaved' /\ \A u \in Task : Resumable(u)'
    BY <1>1 DEF IInv, CtxInv, OnlyTasksSaved, Resumable, xPortStartScheduler, hist
  <2> QED BY <2>1, <2>2, <2>3
      DEF Handover, xPortStartScheduler, IInv, TypeOK, stacks, nest, gic, EntrySet
<1> QED BY <1>1, <1>2, HandoverInv

LEMMA SVC_HandlerInv ==
  ASSUME IInv, NEW t \in Task, SVC_Handler(t)
  PROVE  IInv'
<1> DEFINE cur == pxCurrentTCB
           c == Context("task", mode, iMask, r4)
<1>1. /\ pc = "task" /\ cur \in Task /\ mode = "SYS" /\ r4 = cur
      /\ (iMask <=> opened[cur] > 0) /\ ulCriticalNesting = opened[cur]
      /\ (ulPortTaskHasFPUContext <=> cur \in usesFPU)
      /\ (cur \in usesFPU => dregs = cur)
      /\ ~ulPortYieldRequired
  BY DEF IInv, TypeOK, CurrentInv, SVC_Handler
<1>2. /\ c \in ContextSet /\ c.ret = "task" /\ c.mode = "SYS" /\ c.r4 = cur
      /\ c.crit = opened[cur] /\ (c.i <=> opened[cur] > 0)
      /\ (c.fpu <=> cur \in usesFPU) /\ (cur \in usesFPU => c.dregs = cur)
  BY <1>1 DEF Context, ContextSet, IInv, TypeOK
<1> HIDE DEF c
<1>3. /\ ctx' = [ctx EXCEPT ![cur] = c]
      /\ RestoreContext(t, IF t = cur THEN c ELSE ctx[t])
      /\ UNCHANGED <<stacks, nest, gic, hist,
                     ulPortInterruptNesting, ulPortYieldRequired>>
      /\ lrSvc' = "task"
  BY DEF SVC_Handler, SaveContext, c
<1>4. /\ ctx \in [Task -> ContextSet]
      /\ ctx' \in [Task -> ContextSet] /\ ctx'[cur] = c
      /\ \A u \in Task \ {cur} : ctx'[u] = ctx[u]
  BY <1>1, <1>2, <1>3 DEF IInv, TypeOK
<1>5. Handover(t)
  <2>1. /\ ulPortInterruptNesting = 0 /\ g_current_interrupt_pointer = 0
        /\ Len(irqStack) = 0 /\ Len(svcStack) = 0 /\ active = {}
    BY <1>1 DEF IInv, DepthInv, ActiveInv, InService, Handling, AsmPoint, IsrPoint
  <2>2. OnlyTasksSaved'
    BY <1>2, <1>4 DEF IInv, CtxInv, OnlyTasksSaved
  <2>3. \A u \in Task : Resumable(u)'
    BY <1>1, <1>2, <1>3, <1>4 DEF IInv, CtxInv, Resumable, hist
  <2>4. RestoreContext(t, ctx'[t])
    BY <1>3, <1>4
  <2>5. ulPortYieldRequired' = FALSE /\ lrSvc' \in Point
    BY <1>1, <1>3 DEF IInv, TypeOK, Point, TaskPoint
  <2> QED BY <1>3, <1>4, <2>1, <2>2, <2>3, <2>4, <2>5
      DEF Handover, IInv, TypeOK, stacks, nest, gic, EntrySet
<1> QED BY <1>5, HandoverInv

LEMMA SwitchBeforeExitInv ==
  ASSUME IInv, NEW t \in Task, switch_before_exit(t)
  PROVE  IInv'
<1> DEFINE cur == pxCurrentTCB
           c == Context(Top(irqStack).ret, Top(irqStack).mode,
                        Top(irqStack).i, Top(svcStack).r4)
<1>1. /\ pc = "pop" /\ cur \in Task /\ ulPortInterruptNesting = 1
      /\ g_current_interrupt_pointer = 0
      /\ irqStack \in Seq(EntrySet) /\ Len(irqStack) = 1
      /\ svcStack \in Seq(FrameSet) /\ Len(svcStack) = 1
  BY DEF IInv, TypeOK, DepthInv, switch_before_exit, SwitchBeforeExit, AsmPoint,
     EntrySet
<1>2. /\ irqStack' \in Seq(EntrySet) /\ Len(irqStack') = 0
      /\ svcStack' \in Seq(FrameSet) /\ Len(svcStack') = 0
      /\ Top(irqStack) = irqStack[1] /\ Top(svcStack) = svcStack[1]
      /\ Top(irqStack) \in EntrySet /\ Top(svcStack) \in FrameSet
  <2> HIDE DEF EntrySet
  <2>0. irqStack' = Drop(irqStack) /\ svcStack' = Drop(svcStack)
    BY DEF switch_before_exit
  <2>1. /\ irqStack' \in Seq(EntrySet) /\ Len(irqStack') = 0
        /\ Top(irqStack) = irqStack[1] /\ Top(irqStack) \in EntrySet
    <3>1. Len(irqStack) > 0 /\ Len(irqStack) - 1 = 0
      BY <1>1
    <3> QED BY <1>1, <2>0, <3>1, PopProps
  <2>2. /\ svcStack' \in Seq(FrameSet) /\ Len(svcStack') = 0
        /\ Top(svcStack) = svcStack[1] /\ Top(svcStack) \in FrameSet
    <3>1. Len(svcStack) > 0 /\ Len(svcStack) - 1 = 0
      BY <1>1
    <3> QED BY <1>1, <2>0, <3>1, PopProps
  <2> QED BY <2>1, <2>2
<1>3. /\ irqStack[1].ret = "task" /\ irqStack[1].mode = "SYS"
      /\ irqStack[1].i = FALSE /\ svcStack[1].r4 = cur
  BY <1>1, <1>2 DEF IInv, FrameInv, SavedBy, EntrySet
<1>4. /\ opened[cur] = 0 /\ ulCriticalNesting = opened[cur]
      /\ (ulPortTaskHasFPUContext <=> cur \in usesFPU)
      /\ (cur \in usesFPU => dregs = cur)
  BY <1>1 DEF IInv, CurrentInv, Handling, AsmPoint
<1>5. /\ c \in ContextSet /\ c.ret = "task" /\ c.mode = "SYS" /\ c.r4 = cur
      /\ c.crit = opened[cur] /\ (c.i <=> opened[cur] > 0)
      /\ (c.fpu <=> cur \in usesFPU) /\ (cur \in usesFPU => c.dregs = cur)
  <2>1. c = [ret |-> "task", mode |-> "SYS", i |-> FALSE, r4 |-> cur,
             crit |-> ulCriticalNesting, fpu |-> ulPortTaskHasFPUContext,
             dregs |-> IF ulPortTaskHasFPUContext THEN dregs ELSE NoTask]
    BY <1>2, <1>3 DEF Context
  <2>2. /\ ulCriticalNesting \in Nat /\ ulPortTaskHasFPUContext \in BOOLEAN
        /\ dregs \in Task \cup {NoTask} /\ cur \in Reg
    BY <1>1 DEF IInv, TypeOK, Reg
  <2> QED BY <1>4, <2>1, <2>2 DEF ContextSet
<1> HIDE DEF c
<1>6. /\ ctx' = [ctx EXCEPT ![cur] = c]
      /\ RestoreContext(t, IF t = cur THEN c ELSE ctx[t])
      /\ UNCHANGED <<nest, gic, hist>>
      /\ ulPortInterruptNesting' = 0 /\ ulPortYieldRequired' = FALSE
      /\ lrSvc' = Top(svcStack).lr
  BY <1>1 DEF switch_before_exit, SaveContext, RestoredLink, c
<1>7. /\ ctx \in [Task -> ContextSet]
      /\ ctx' \in [Task -> ContextSet] /\ ctx'[cur] = c
      /\ \A u \in Task \ {cur} : ctx'[u] = ctx[u]
  BY <1>1, <1>5, <1>6 DEF IInv, TypeOK
<1>8. Handover(t)
  <2>1. active = {}
    BY <1>1 DEF IInv, ActiveInv, InService
  <2>2. OnlyTasksSaved'
    BY <1>5, <1>7 DEF IInv, CtxInv, OnlyTasksSaved
  <2>3. \A u \in Task : Resumable(u)'
    BY <1>1, <1>5, <1>6, <1>7 DEF IInv, CtxInv, Resumable, hist
  <2>4. RestoreContext(t, ctx'[t])
    BY <1>6, <1>7
  <2>5. lrSvc' \in Point
    BY <1>2, <1>6 DEF FrameSet
  <2> QED BY <1>1, <1>2, <1>6, <1>7, <2>1, <2>2, <2>3, <2>4, <2>5
      DEF Handover, nest, gic
<1> QED BY <1>8, HandoverInv

LEMMA EnterCriticalInv == IInv /\ vPortEnterCritical => IInv'
<1> SUFFICES ASSUME IInv, vPortEnterCritical PROVE IInv'
  OBVIOUS
<1>1. /\ pc = "task" /\ pxCurrentTCB \in Task
      /\ ulCriticalNesting \in Nat /\ opened \in [Task -> Nat]
  BY DEF IInv, TypeOK, vPortEnterCritical
<1>2. /\ iMask' = TRUE /\ ulCriticalNesting' = ulCriticalNesting + 1
      /\ opened' \in [Task -> Nat]
      /\ opened'[pxCurrentTCB] = opened[pxCurrentTCB] + 1
      /\ \A u \in Task \ {pxCurrentTCB} : opened'[u] = opened[u]
      /\ UNCHANGED <<pc, mode, lrSvc, r4, stacks, nest, gic, usesFPU,
                     ulPortTaskHasFPUContext, dregs, pxCurrentTCB, ctx,
                     ulPortInterruptNesting, ulPortYieldRequired>>
  BY <1>1 DEF vPortEnterCritical
<1>3. TypeOK'
  BY <1>1, <1>2 DEF IInv, TypeOK, stacks, nest, gic
<1>4. CpuInv' /\ DepthInv' /\ FrameInv' /\ PrioInv' /\ ActiveInv'
  BY <1>1, <1>2 DEF IInv, CpuInv, DepthInv, FrameInv, SavedBy, PrioInv, ActiveInv,
     InService, Recorded, Handling, AsmPoint, IsrPoint, stacks, nest, gic
<1>5. CurrentInv'
  <2>1. opened[pxCurrentTCB] \in Nat /\ opened'[pxCurrentTCB] > 0
    BY <1>1, <1>2
  <2> QED BY <1>1, <1>2, <2>1 DEF IInv, CurrentInv, Handling, AsmPoint, IsrPoint
<1>6. CtxInv'
  BY <1>1, <1>2 DEF IInv, CtxInv, OnlyTasksSaved, Resumable
<1> QED BY <1>3, <1>4, <1>5, <1>6 DEF IInv

LEMMA ExitCriticalInv == IInv /\ vPortExitCritical => IInv'
<1> SUFFICES ASSUME IInv, vPortExitCritical PROVE IInv'
  OBVIOUS
<1>1. /\ pc = "task" /\ pxCurrentTCB \in Task /\ iMask \in BOOLEAN
      /\ ulCriticalNesting \in Nat /\ opened \in [Task -> Nat]
      /\ opened[pxCurrentTCB] > 0 /\ ulCriticalNesting = opened[pxCurrentTCB]
      /\ iMask
  BY DEF IInv, TypeOK, CurrentInv, vPortExitCritical
<1>2. /\ ulCriticalNesting' = ulCriticalNesting - 1
      /\ iMask' \in BOOLEAN
      /\ iMask' <=> ulCriticalNesting # 1
      /\ opened' \in [Task -> Nat]
      /\ opened'[pxCurrentTCB] = opened[pxCurrentTCB] - 1
      /\ \A u \in Task \ {pxCurrentTCB} : opened'[u] = opened[u]
      /\ UNCHANGED <<pc, mode, lrSvc, r4, stacks, nest, gic, usesFPU,
                     ulPortTaskHasFPUContext, dregs, pxCurrentTCB, ctx,
                     ulPortInterruptNesting, ulPortYieldRequired>>
  <2>1. /\ opened' \in [Task -> Nat]
        /\ opened'[pxCurrentTCB] = opened[pxCurrentTCB] - 1
        /\ \A u \in Task \ {pxCurrentTCB} : opened'[u] = opened[u]
    BY <1>1 DEF vPortExitCritical
  <2>2. ulCriticalNesting > 0 /\ ulCriticalNesting # 0
    BY <1>1
  <2>3. /\ ulCriticalNesting' = ulCriticalNesting - 1
        /\ iMask' = (iMask /\ ulCriticalNesting # 1)
    BY <2>2 DEF vPortExitCritical
  <2>4. iMask' \in BOOLEAN /\ (iMask' <=> ulCriticalNesting # 1)
    BY <1>1, <2>3
  <2> QED BY <2>1, <2>3, <2>4 DEF vPortExitCritical
<1>3. TypeOK'
  <2>1. ulCriticalNesting' \in Nat /\ iMask' \in BOOLEAN
    BY <1>1, <1>2
  <2> QED BY <1>1, <1>2, <2>1 DEF IInv, TypeOK, stacks, nest, gic
<1>4. CpuInv' /\ DepthInv' /\ FrameInv' /\ PrioInv' /\ ActiveInv'
  BY <1>1, <1>2 DEF IInv, CpuInv, DepthInv, FrameInv, SavedBy, PrioInv, ActiveInv,
     InService, Recorded, Handling, AsmPoint, IsrPoint, stacks, nest, gic
<1>5. CurrentInv'
  <2>1. iMask' <=> opened'[pxCurrentTCB] > 0
    BY <1>1, <1>2
  <2>2. ulCriticalNesting' = opened'[pxCurrentTCB]
    BY <1>1, <1>2
  <2> QED BY <1>1, <1>2, <2>1, <2>2
      DEF IInv, CurrentInv, Handling, AsmPoint, IsrPoint
<1>6. CtxInv'
  BY <1>1, <1>2 DEF IInv, CtxInv, OnlyTasksSaved, Resumable
<1> QED BY <1>3, <1>4, <1>5, <1>6 DEF IInv

LEMMA TaskUsesFPUInv == IInv /\ vPortTaskUsesFPU => IInv'
<1> SUFFICES ASSUME IInv, vPortTaskUsesFPU PROVE IInv'
  OBVIOUS
<1>1. /\ pc = "task" /\ pxCurrentTCB \in Task /\ pc' = "task"
      /\ ulPortTaskHasFPUContext' = TRUE /\ dregs' = pxCurrentTCB
      /\ usesFPU' = usesFPU \cup {pxCurrentTCB}
      /\ UNCHANGED <<cpu, stacks, nest, gic, opened,
                     ulCriticalNesting, pxCurrentTCB, ctx,
                     ulPortInterruptNesting, ulPortYieldRequired>>
  BY DEF IInv, TypeOK, vPortTaskUsesFPU, cpu
<1>2. TypeOK'
  BY <1>1 DEF IInv, TypeOK, cpu, stacks, nest, gic
<1>3. CpuInv' /\ DepthInv' /\ FrameInv' /\ PrioInv' /\ ActiveInv'
  BY <1>1 DEF IInv, CpuInv, DepthInv, FrameInv, SavedBy, PrioInv, ActiveInv,
     InService, Recorded, Handling, AsmPoint, IsrPoint, cpu, stacks, nest, gic
<1>4. CurrentInv'
  BY <1>1 DEF IInv, CurrentInv, Handling, AsmPoint, IsrPoint, cpu
<1>5. CtxInv'
  BY <1>1 DEF IInv, CtxInv, OnlyTasksSaved, Resumable, cpu
<1> QED BY <1>2, <1>3, <1>4, <1>5 DEF IInv

LEMMA StutterInv == IInv /\ UNCHANGED vars => IInv'
<1> SUFFICES ASSUME IInv, UNCHANGED vars PROVE IInv'
  OBVIOUS
<1>1. UNCHANGED core /\ UNCHANGED gic
  BY DEF vars, core
<1>2. TypeOK'
  BY <1>1 DEF IInv, TypeOK, core, cpu, stacks, nest, task, hist, gic
<1>3. CpuInv' /\ DepthInv' /\ FrameInv'
  BY <1>1 DEF IInv, CpuInv, DepthInv, FrameInv, SavedBy, Handling, Recorded,
     core, cpu, stacks, nest, task, hist
<1>4. PrioInv' /\ ActiveInv'
  BY <1>1 DEF IInv, PrioInv, ActiveInv, InService, Recorded,
     core, cpu, stacks, nest, task, hist, gic
<1>5. CurrentInv' /\ CtxInv'
  BY <1>1 DEF IInv, CurrentInv, CtxInv, OnlyTasksSaved, Resumable, Handling,
     core, cpu, stacks, nest, task, hist
<1> QED BY <1>2, <1>3, <1>4, <1>5 DEF IInv

-----------------------------------------------------------------------------
(* The invariant, and what follows from it.                                *)

LEMMA NextInv == IInv /\ [Next]_vars => IInv'
<1> SUFFICES ASSUME IInv, [Next]_vars PROVE IInv'
  OBVIOUS
<1>1. CASE Device
  BY <1>1, DeviceInv
<1>2. CASE TaskStep
  BY <1>2, StartSchedulerInv, EnterCriticalInv, ExitCriticalInv, TaskUsesFPUInv,
     SVC_HandlerInv DEF TaskStep
<1>3. CASE IRQ_Handler
  BY <1>3, IRQ_HandlerInv
<1>4. CASE HandlerStep
  BY <1>4, GetActiveIRQInv, EnterDispatcherInv, SkipSpuriousInv, CallIsrInv,
     IsrReturnInv, LeaveDispatcherInv, EndOfInterruptInv, ExitWithoutSwitchInv,
     SwitchBeforeExitInv DEF HandlerStep
<1>5. CASE RequestYield
  BY <1>5, RequestYieldInv
<1>6. CASE UNCHANGED vars
  BY <1>6, StutterInv
<1> QED BY <1>1, <1>2, <1>3, <1>4, <1>5, <1>6 DEF Next

(* The inductive invariant holds in every reachable state: the frames of   *)
(* IRQ_Handler describe the nesting faithfully at all times.               *)
THEOREM InductiveInvariant == Spec => []IInv
<1> QED BY InitInv, NextInv, PTL DEF Spec

(* The state keeps its types.                                              *)
THEOREM TypeCorrect == Spec => []TypeOK
<1>1. IInv => TypeOK
  BY DEF IInv
<1> QED BY <1>1, InductiveInvariant, PTL

(* A task executes in its own context, whatever interrupted it.            *)
THEOREM TaskContextIsIntact == Spec => []TaskContextIntact
<1>1. IInv => TaskContextIntact
  BY DEF IInv, TaskContextIntact, CurrentInv
<1> QED BY <1>1, InductiveInvariant, PTL

(* No interrupt leaves anything behind on the stacks, in the counts or in  *)
(* the controller.                                                         *)
THEOREM NothingIsLeftBehind == Spec => []NothingLeftBehind
<1>1. IInv => NothingLeftBehind
  <2> SUFFICES ASSUME IInv, pc = "task"
               PROVE  /\ irqStack = <<>> /\ svcStack = <<>>
                      /\ ulPortInterruptNesting = 0
                      /\ g_current_interrupt_pointer = 0
                      /\ active = {}
    BY DEF NothingLeftBehind
  <2>1. /\ ulPortInterruptNesting = 0 /\ g_current_interrupt_pointer = 0
        /\ Len(irqStack) = 0 /\ Len(svcStack) = 0
    BY DEF IInv, DepthInv, Handling, AsmPoint, IsrPoint
  <2>2. irqStack = <<>> /\ svcStack = <<>>
    BY <2>1, EmptySeq DEF IInv, TypeOK
  <2>3. active = {}
    BY <2>1 DEF IInv, ActiveInv, InService
  <2> QED BY <2>1, <2>2, <2>3
<1> QED BY <1>1, InductiveInvariant, PTL

(* A requested switch is made before a task executes again.                *)
THEOREM YieldIsServedBeforeTask == Spec => []YieldServedBeforeTask
<1>1. IInv => YieldServedBeforeTask
  BY DEF IInv, CurrentInv, YieldServedBeforeTask
<1> QED BY <1>1, InductiveInvariant, PTL

(* An interrupted ISR finds its link register, its register and its entry  *)
(* of the nesting array as it left them.                                   *)
THEOREM IsrContextIsIntact == Spec => []IsrContextIntact
<1>1. IInv => IsrContextIntact
  <2> SUFFICES ASSUME IInv, pc \in IsrPoint
               PROVE  /\ r4 \in active
                      /\ \A a \in active \ {r4} : Prio[r4] < Prio[a]
                      /\ g_current_interrupt_pointer > 0
                      /\ Recorded(g_current_interrupt_pointer) = r4
                      /\ pc \in {"isr", "bad"} => lrSvc = "ret"
    BY DEF IsrContextIntact
  <2> DEFINE p == g_current_interrupt_pointer
  <2>1. p \in Nat /\ p > 0 /\ Recorded(p) = r4
    BY DEF IInv, TypeOK, DepthInv, PrioInv
  <2>2. active = {Recorded(k) : k \in 1 .. p}
    BY DEF IInv, ActiveInv, InService, IsrPoint
  <2>3. p \in 1 .. p
    BY <2>1
  <2>4. r4 \in active
    BY <2>1, <2>2, <2>3
  <2>5. ASSUME NEW a \in active \ {r4} PROVE Prio[r4] < Prio[a]
    <3>1. PICK k \in 1 .. p : a = Recorded(k)
      BY <2>2
    <3>2. k \in 1 .. p - 1
      BY <2>1, <2>5, <3>1
    <3> QED BY <2>1, <2>3, <3>1, <3>2 DEF IInv, PrioInv
  <2> QED BY <2>1, <2>4, <2>5 DEF IInv, CpuInv
<1> QED BY <1>1, InductiveInvariant, PTL

(* Only tasks are ever saved as the context of a task.                     *)
THEOREM OnlyTasksAreSaved == Spec => []OnlyTasksSaved
<1>1. IInv => OnlyTasksSaved
  BY DEF IInv, CtxInv
<1> QED BY <1>1, InductiveInvariant, PTL

(* The nesting array never overflows, for any set of interrupts and any    *)
(* assignment of priorities: it needs as many entries as there are levels. *)
THEOREM NestingIsBounded == Spec => []NestingBounded
<1>1. IInv => NestingBounded
  <2> SUFFICES ASSUME IInv PROVE NestingBounded
    OBVIOUS
  <2>1. g_current_interrupt_pointer <= PrioLevels
    BY PointerBounded
  <2>2. ulPortInterruptNesting <= PrioLevels + 1
    <3>1. /\ g_current_interrupt_pointer \in Nat /\ ulPortInterruptNesting \in Nat
          /\ ulPortInterruptNesting <= g_current_interrupt_pointer + 1
      BY DEF IInv, TypeOK, DepthInv, Handling
    <3> QED BY <2>1, <3>1, ConfigAssumption
  <2>3. ASSUME pc = "handler", r4 # SpuriousId
        PROVE  g_current_interrupt_pointer < InterruptableNum
    BY <2>3, LevelFree, ConfigAssumption
  <2> QED BY <2>1, <2>2, <2>3 DEF NestingBounded
<1> QED BY <1>1, InductiveInvariant, PTL

-----------------------------------------------------------------------------
(* What the controller sees, and the abstract service.                     *)

(* Interrupts are ended in the reverse order of their acknowledgement.     *)
THEOREM EndsTheInnermost == Spec => EndsInnermost
<1>1. IInv /\ [Next]_vars => [EndStep]_vars
  <2> SUFFICES ASSUME IInv, Next, active' # active, ~(active \subseteq active')
               PROVE  \E i \in active :
                        /\ active' = active \ {i}
                        /\ \A a \in active' : Prio[i] < Prio[a]
    BY DEF EndStep
  <2>1. FreeRTOS_EndOfInterrupt
    BY DEF Next, Device, Raise, Withdraw, TaskStep, HandlerStep, RequestYield,
       IRQ_Handler, FreeRTOS_GetActiveIRQ, EnterDispatcher, SkipSpurious, CallIsr,
       IsrReturn, LeaveDispatcher, exit_without_switch, switch_before_exit,
       xPortStartScheduler, vPortEnterCritical, vPortExitCritical,
       vPortTaskUsesFPU, SVC_Handler, gic
  <2>2. active' = active \ {r4} /\ r4 \in active /\ pc = "epi"
    BY <2>1 DEF FreeRTOS_EndOfInterrupt
  <2>3. r4 \in IntId /\ r4 # SpuriousId
    BY <2>2, IdAssumption DEF IInv, TypeOK
  <2>4. \A a \in active' :
          \E k \in 1 .. g_current_interrupt_pointer : a = Recorded(k)
    BY <2>2 DEF IInv, ActiveInv, InService
  <2>5. \A a \in active' : Prio[r4] < Prio[a]
    BY <2>2, <2>3, <2>4 DEF IInv, PrioInv
  <2> QED BY <2>2, <2>5
<1> QED BY <1>1, InductiveInvariant, PTL DEF Spec, EndsInnermost

(* The recorded INTIDs as a sequence.                                      *)
ServingTyped ==
  /\ Serving \in Seq(IntId)
  /\ Len(Serving) = g_current_interrupt_pointer
  /\ \A k \in 1 .. g_current_interrupt_pointer : Serving[k] = Recorded(k)

LEMMA ServingProps == IInv => ServingTyped
<1> SUFFICES ASSUME IInv PROVE ServingTyped
  OBVIOUS
<1>1. g_current_interrupt_pointer \in Nat
      /\ \A k \in 1 .. g_current_interrupt_pointer : Recorded(k) \in IntId
  BY DEF IInv, TypeOK, PrioInv
<1> QED BY <1>1 DEF Serving, ServingTyped

LEMMA StepRefines ==
  ASSUME IInv, IInv', [Next]_vars
  PROVE  [Abs!Next]_(Abs!vars)
<1> DEFINE p == g_current_interrupt_pointer
           Same == /\ UNCHANGED nest
                   /\ UNCHANGED <<ulPortYieldRequired, pxCurrentTCB>>
                   /\ (pc' = "task") = (pc = "task")
<1>0. UNCHANGED nest => Serving' = Serving
  BY DEF nest, Serving, Recorded
<1>1. Same => UNCHANGED Abs!vars
  BY <1>0 DEF Abs!vars
<1>2. CASE Device \/ UNCHANGED vars
  BY <1>1, <1>2 DEF Device, Raise, Withdraw, vars, cpu, task
<1>3. CASE vPortEnterCritical \/ vPortExitCritical \/ vPortTaskUsesFPU
  BY <1>1, <1>3 DEF vPortEnterCritical, vPortExitCritical, vPortTaskUsesFPU, cpu
<1>4. CASE \/ FreeRTOS_GetActiveIRQ \/ SkipSpurious \/ CallIsr
           \/ FreeRTOS_EndOfInterrupt
  BY <1>1, <1>4 DEF FreeRTOS_GetActiveIRQ, SkipSpurious, CallIsr,
     FreeRTOS_EndOfInterrupt, task
<1>5. CASE IsrReturn
  <2>1. pc' = "ret" /\ pc # "task"
    BY <1>5 DEF IsrReturn, IInv, CpuInv
  <2> QED BY <1>1, <1>5, <2>1 DEF IsrReturn, task
<1>6. CASE xPortStartScheduler
  <2>1. /\ pc = "boot" /\ pc' = "task" /\ ~ulPortYieldRequired
        /\ pxCurrentTCB' = pxCurrentTCB /\ UNCHANGED <<nest, ulPortYieldRequired>>
    BY <1>6 DEF xPortStartScheduler, RestoreContext, IInv, TypeOK, CurrentInv,
       CtxInv, OnlyTasksSaved
  <2>2. Serving = <<>>
    BY <2>1, ServingProps, EmptySeq 
    DEF ServingTyped, IInv, DepthInv, Handling, AsmPoint, IsrPoint
  <2> QED BY <1>0, <2>1, <2>2 DEF Abs!Next, Abs!Resume
<1>7. ASSUME NEW t \in Task, SVC_Handler(t) PROVE Abs!Next
  <2>1. /\ pc = "task" /\ pc' = "task" /\ pxCurrentTCB' = t
        /\ UNCHANGED <<nest, ulPortYieldRequired>>
    BY <1>7 DEF SVC_Handler, RestoreContext, Context, IInv, CtxInv, OnlyTasksSaved
  <2> QED BY <1>0, <2>1 DEF Abs!Next, Abs!Yield
<1>8. CASE IRQ_Handler
  <2>1. /\ pc' = "get" /\ UNCHANGED <<nest, ulPortYieldRequired, pxCurrentTCB>>
    BY <1>8 DEF IRQ_Handler, task
  <2> QED BY <1>0, <1>1, <2>1 DEF Abs!Next, Abs!Enter
<1>9. ASSUME NEW w \in CFrameWords, EnterDispatcher(w) PROVE Abs!Next
  <2>1. /\ pc = "handler" /\ pc' = "call" /\ r4 \in IntId
        /\ UNCHANGED <<ulPortYieldRequired, pxCurrentTCB>>
        /\ p' = p + 1 /\ p \in 0 .. InterruptableNum - 1
        /\ g_current_interrupt_num' =
             [g_current_interrupt_num EXCEPT ![p] = r4 - CortexEntries]
        /\ g_current_interrupt_num \in [0 .. InterruptableNum - 1 -> Int]
    BY <1>9, LevelFree DEF EnterDispatcher, task, IInv, TypeOK
  <2>2. /\ Serving \in Seq(IntId) /\ Len(Serving) = p
        /\ \A k \in 1 .. p : Serving[k] = Recorded(k)
    BY ServingProps DEF ServingTyped
  <2>3. /\ Serving' \in Seq(IntId) /\ Len(Serving') = p + 1
        /\ \A k \in 1 .. p + 1 : Serving'[k] = Recorded(k)'
    <3>1. ServingTyped'
      BY ServingProps, PTL
    <3> QED BY <2>1, <3>1 DEF ServingTyped
  <2> HIDE DEF p
  <2>4. \A k \in 1 .. p + 1 :
          Recorded(k)' = IF k = p + 1 THEN r4 ELSE Recorded(k)
    <3> SUFFICES ASSUME NEW k \in 1 .. p + 1
                 PROVE  Recorded(k)' = IF k = p + 1 THEN r4 ELSE Recorded(k)
      OBVIOUS
    <3>1. k - 1 \in 0 .. InterruptableNum - 1 /\ (k - 1 = p <=> k = p + 1)
          /\ r4 - CortexEntries + CortexEntries = r4
      BY <2>1, IdAssumption, ConfigAssumption
    <3> QED BY <2>1, <3>1 DEF Recorded, ServingTyped
  <2>5. Serving' = Append(Serving, r4)
    <3>1. /\ Append(Serving, r4) \in Seq(IntId) /\ Len(Append(Serving, r4)) = p + 1
          /\ Append(Serving, r4)[p + 1] = r4
          /\ \A k \in 1 .. p : Append(Serving, r4)[k] = Serving[k]
      BY <2>1, <2>2, PushProps
    <3>2. \A k \in 1 .. p + 1 : Serving'[k] = Append(Serving, r4)[k]
      BY <2>1, <2>2, <2>3, <2>4, <3>1
    <3> QED BY <2>3, <3>1, <3>2, SeqEqual
  <2>6. Serving = <<>> \/ Prio[r4] < Prio[Serving[Len(Serving)]]
    <3>1. CASE p = 0
      BY <2>2, <3>1, EmptySeq
    <3>2. CASE p # 0
      <4>1. p \in 1 .. p
        BY <2>1, <3>2
      <4> QED BY <2>1, <2>2, <4>1 DEF IInv, PrioInv, p
    <3> QED BY <3>1, <3>2
  <2> QED BY <2>1, <2>5, <2>6 DEF Abs!Next, Abs!Serve, Abs!Innermost
<1>10. CASE RequestYield
  <2>1. pc = "isr" /\ UNCHANGED <<nest, pc, pxCurrentTCB>> /\ ulPortYieldRequired' = TRUE
    BY <1>10 DEF RequestYield, cpu, task
  <2>2. Serving # <<>>
    BY <2>1, ServingProps, EmptySeq DEF ServingTyped, IInv, DepthInv, IsrPoint
  <2> QED BY <1>0, <2>1, <2>2 DEF Abs!Next, Abs!Ask
<1>11. CASE LeaveDispatcher
  <2>1. /\ pc = "ret" /\ p \in Nat /\ p > 0 /\ p' = p - 1
        /\ g_current_interrupt_num' = g_current_interrupt_num
        /\ UNCHANGED <<ulPortYieldRequired, pxCurrentTCB>>
    BY <1>11 DEF LeaveDispatcher, IInv, TypeOK, DepthInv, IsrPoint, task
  <2>2. pc' # "task"
    <3>1. svcStack[2 * p].lr = "epi" /\ Len(svcStack) = 2 * p
      BY <2>1 DEF IInv, FrameInv, DepthInv, IsrPoint
    <3> QED BY <1>11, <3>1 DEF LeaveDispatcher, Top
  <2>3. /\ Serving \in Seq(IntId) /\ Len(Serving) = p
        /\ \A k \in 1 .. p : Serving[k] = Recorded(k)
    BY ServingProps DEF ServingTyped
  <2>4. /\ Serving' \in Seq(IntId) /\ Len(Serving') = p - 1
        /\ \A k \in 1 .. p - 1 : Serving'[k] = Recorded(k)
    <3>1. ServingTyped'
      BY ServingProps, PTL
    <3> QED BY <2>1, <3>1 DEF Recorded, ServingTyped
  <2> HIDE DEF p
  <2>5. Serving' = Drop(Serving)
    <3>1. /\ Drop(Serving) \in Seq(IntId) /\ Len(Drop(Serving)) = p - 1
          /\ \A k \in 1 .. p - 1 : Drop(Serving)[k] = Serving[k]
      BY <2>1, <2>3, PopProps
    <3>2. \A k \in 1 .. p - 1 : Serving'[k] = Drop(Serving)[k]
      BY <2>1, <2>3, <2>4, <3>1
    <3> QED BY <2>4, <3>1, <3>2, SeqEqual
  <2>6. Serving # <<>>
    BY <2>1, <2>3, EmptySeq
  <2> QED BY <2>1, <2>2, <2>5, <2>6 DEF Abs!Next, Abs!Finish, Drop
<1>12. CASE exit_without_switch
  <2>1. /\ pc = "pop" /\ UNCHANGED <<nest, ulPortYieldRequired, pxCurrentTCB>>
    BY <1>12 DEF exit_without_switch, task
  <2>2. CASE pc' # "task"
    BY <1>1, <2>1, <2>2
  <2>3. CASE pc' = "task"
    <3>1. ulPortYieldRequired' = FALSE /\ p' = 0
      BY <2>3 DEF IInv, CurrentInv, TypeOK, DepthInv, Handling, AsmPoint, IsrPoint
    <3>2. Serving = <<>>
      BY <2>1, <3>1, ServingProps, EmptySeq DEF ServingTyped, nest
    <3> QED BY <1>0, <2>1, <2>3, <3>1, <3>2 DEF Abs!Next, Abs!Resume
  <2> QED BY <2>2, <2>3
<1>13. ASSUME NEW t \in Task, switch_before_exit(t) PROVE Abs!Next
  <2>1. /\ pc = "pop" /\ UNCHANGED nest /\ ulPortYieldRequired' = FALSE
        /\ pxCurrentTCB' = t /\ ulPortYieldRequired = TRUE
        /\ ulPortInterruptNesting = 1
    BY <1>13 DEF switch_before_exit, RestoreContext, SwitchBeforeExit, IInv, TypeOK
  <2>2. p = 0
    BY <2>1 DEF IInv, DepthInv, AsmPoint
  <2>3. Serving = <<>>
    BY <2>2, ServingProps, EmptySeq DEF ServingTyped
  <2>4. pc' = "task"
    <3>1. irqStack[1].ret = "task" /\ Len(irqStack) = 1
      BY <2>1 DEF IInv, FrameInv, SavedBy, DepthInv
    <3> QED BY <1>13, <3>1 DEF switch_before_exit, RestoreContext, Context, Top,
          IInv, CtxInv, OnlyTasksSaved
  <2> QED BY <1>0, <2>1, <2>3, <2>4 DEF Abs!Next, Abs!Switch
<1> QED BY <1>2, <1>3, <1>4, <1>5, <1>6, <1>7, <1>8, <1>9, <1>10, <1>11, <1>12, <1>13
    DEF Next, TaskStep, HandlerStep

(* The port implements nested service by priority with one deferred switch *)
(* of tasks, for any number of interrupts and levels.                      *)
THEOREM RefinesNestedService == Spec => RefinesNesting
<1>1. Init => Abs!Init
  BY EmptySeq DEF Init, Abs!Init, Serving
<1>2. IInv /\ IInv' /\ [Next]_vars => [Abs!Next]_(Abs!vars)
  BY StepRefines
<1> QED BY <1>1, <1>2, InductiveInvariant, PTL DEF Spec, RefinesNesting, Abs!Spec

-----------------------------------------------------------------------------
(* The bounds check of the dispatcher and interrupted handlers.            *)

(* An interrupted handler is of the kind its recorded INTID called for.    *)
KindSaved(k) ==
  k > 1 => /\ irqStack[k].ret = "isr" => Recorded(k - 1) < VectorMax
           /\ irqStack[k].ret = "bad" => Recorded(k - 1) >= VectorMax

TableInv ==
  /\ pc = "isr" => r4 < VectorMax
  /\ pc = "bad" => r4 >= VectorMax
  /\ \A k \in 1 .. ulPortInterruptNesting : KindSaved(k)

LEMMA TableInit == Init => TableInv
BY DEF Init, TableInv

(* Steps that leave the frames alone, and enter no handler.                *)
LEMMA TableKept ==
  ASSUME TableInv, UNCHANGED <<irqStack, nest, ulPortInterruptNesting>>,
         pc' \notin {"isr", "bad"} \/ UNCHANGED <<pc, r4>>
  PROVE  TableInv'
<1>1. \A k : KindSaved(k)' <=> KindSaved(k)
  BY DEF KindSaved, Recorded, nest
<1> QED BY <1>1 DEF TableInv

(* With no activation there is nothing to say about frames.                *)
LEMMA TableEmpty ==
  ASSUME pc' \notin {"isr", "bad"}, ulPortInterruptNesting' = 0
  PROVE  TableInv'
BY DEF TableInv

LEMMA CallIsrKind == IInv /\ TableInv /\ CallIsr => TableInv'
<1> SUFFICES ASSUME IInv, TableInv, CallIsr PROVE TableInv'
  OBVIOUS
<1>1. \A k : KindSaved(k)' <=> KindSaved(k)
  BY DEF CallIsr, KindSaved, Recorded, stacks, nest
<1>2. r4 \in Int
  <2>1. r4 \in active /\ active \subseteq IntId
    <3>1. r4 = Recorded(g_current_interrupt_pointer)
          /\ g_current_interrupt_pointer \in 1 .. g_current_interrupt_pointer
      BY DEF CallIsr, IInv, TypeOK, PrioInv, DepthInv, IsrPoint
    <3> QED BY <3>1 DEF IInv, TypeOK, ActiveInv, InService
  <2> QED BY <2>1, IdAssumption
<1> QED BY <1>1, <1>2, ConfigAssumption DEF CallIsr, Dispatched, TableInv

LEMMA EnterDispatcherKind ==
  ASSUME IInv, TableInv, NEW w \in CFrameWords, EnterDispatcher(w)
  PROVE  TableInv'
<1> DEFINE p == g_current_interrupt_pointer
<1>1. /\ pc = "handler" /\ pc' = "call" /\ irqStack' = irqStack
      /\ ulPortInterruptNesting' = ulPortInterruptNesting
      /\ p \in Nat /\ ulPortInterruptNesting = p + 1
  BY DEF EnterDispatcher, IInv, TypeOK, DepthInv, AsmPoint
<1>2. /\ g_current_interrupt_num' =
           [g_current_interrupt_num EXCEPT ![p] = r4 - CortexEntries]
      /\ g_current_interrupt_num \in [0 .. InterruptableNum - 1 -> Int]
  BY DEF EnterDispatcher, IInv, TypeOK
<1> HIDE DEF p
<1>3. ASSUME NEW k \in 1 .. p + 1, k > 1 PROVE Recorded(k - 1)' = Recorded(k - 1)
  <2>1. k - 1 - 1 # p
    BY <1>1, <1>3
  <2> QED BY <1>2, <2>1 DEF Recorded
<1>4. \A k \in 1 .. p + 1 : KindSaved(k)'
  BY <1>1, <1>3 DEF TableInv, KindSaved
<1> QED BY <1>1, <1>4 DEF TableInv

LEMMA IRQ_HandlerKind == IInv /\ TableInv /\ IRQ_Handler => TableInv'
<1> SUFFICES ASSUME IInv, TableInv, IRQ_Handler PROVE TableInv'
  OBVIOUS
<1> DEFINE n == ulPortInterruptNesting
           e == [ret |-> pc, mode |-> mode, i |-> iMask]
           E == [ret : Point, mode : {"SYS", "SVC"}, i : BOOLEAN]
<1>1. /\ irqStack \in Seq(E) /\ e \in E /\ n \in Nat /\ Len(irqStack) = n
      /\ irqStack' = Append(irqStack, e)
      /\ pc' = "get" /\ n' = n + 1 /\ UNCHANGED nest
      /\ pc \notin AsmPoint
  BY DEF IRQ_Handler, IInv, TypeOK, DepthInv, CpuInv
<1>2. e.ret = pc
  OBVIOUS
<1> HIDE DEF e, E
<1>3. /\ irqStack'[n + 1] = e
      /\ \A k \in 1 .. n : irqStack'[k] = irqStack[k]
  BY <1>1, PushProps
<1>4. \A k : Recorded(k)' = Recorded(k)
  BY <1>1 DEF Recorded, nest
<1>5. ASSUME NEW k \in 1 .. n PROVE KindSaved(k)'
  BY <1>3, <1>4, <1>5 DEF TableInv, KindSaved
<1>6. ASSUME NEW k, k = n + 1 PROVE KindSaved(k)'
  <2>1. CASE pc \in {"isr", "bad"}
    <3>1. r4 = Recorded(n) /\ k - 1 = n
      BY <1>1, <1>6, <2>1 DEF IInv, DepthInv, PrioInv, IsrPoint
    <3>2. irqStack'[k].ret = pc
      BY <1>2, <1>3, <1>6
    <3>3. Recorded(k - 1)' = r4
      BY <1>4, <3>1
    <3> QED BY <2>1, <3>2, <3>3 DEF TableInv, KindSaved
  <2>2. CASE pc \notin {"isr", "bad"}
    BY <1>2, <1>3, <1>6, <2>2 DEF KindSaved
  <2> QED BY <2>1, <2>2
<1>7. \A k \in 1 .. n + 1 : k \in 1 .. n \/ k = n + 1
  BY <1>1
<1>8. \A k \in 1 .. ulPortInterruptNesting' : KindSaved(k)'
  BY <1>1, <1>5, <1>6, <1>7
<1> QED BY <1>1, <1>8 DEF TableInv

LEMMA ExitKind == IInv /\ TableInv /\ exit_without_switch => TableInv'
<1> SUFFICES ASSUME IInv, TableInv, exit_without_switch PROVE TableInv'
  OBVIOUS
<1> DEFINE n == ulPortInterruptNesting
           E == [ret : Point, mode : {"SYS", "SVC"}, i : BOOLEAN]
<1>1. /\ n \in Nat /\ n > 0 /\ n \in 1 .. n /\ Len(irqStack) = n
      /\ irqStack \in Seq(E) /\ svcStack \in Seq(FrameSet)
      /\ Len(svcStack) = 2 * n - 1 /\ Len(svcStack) > 0
      /\ irqStack' = Drop(irqStack) /\ n' = n - 1 /\ UNCHANGED nest
      /\ pc' = Top(irqStack).ret /\ r4' = Top(svcStack).r4
  BY DEF exit_without_switch, IInv, TypeOK, DepthInv, AsmPoint
<1>2. SavedBy(n) /\ KindSaved(n)
  BY <1>1 DEF IInv, FrameInv, TableInv
<1> HIDE DEF n, E
<1>3. /\ \A k \in 1 .. n - 1 : irqStack'[k] = irqStack[k]
      /\ Top(irqStack) = irqStack[n] /\ Top(svcStack) = svcStack[2 * n - 1]
  BY <1>1, PopProps
<1>4. \A k : Recorded(k)' = Recorded(k)
  BY <1>1 DEF Recorded, nest
<1>5. \A k \in 1 .. n - 1 : KindSaved(k)'
  <2>1. \A k \in 1 .. n - 1 : KindSaved(k)
    BY <1>1 DEF TableInv, n
  <2> QED BY <1>3, <1>4, <2>1 DEF KindSaved
<1>6. /\ pc' = "isr" => r4' < VectorMax
      /\ pc' = "bad" => r4' >= VectorMax
  <2>1. CASE n = 1
    BY <1>1, <1>2, <1>3, <2>1 DEF SavedBy
  <2>2. CASE n > 1
    BY <1>1, <1>2, <1>3, <2>2 DEF SavedBy, KindSaved
  <2> QED BY <1>1, <2>1, <2>2
<1>7. \A k \in 1 .. ulPortInterruptNesting' : KindSaved(k)'
  BY <1>1, <1>5 DEF n
<1> QED BY <1>6, <1>7 DEF TableInv

LEMMA TableStep == IInv /\ IInv' /\ TableInv /\ [Next]_vars => TableInv'
<1> SUFFICES ASSUME IInv, IInv', TableInv, [Next]_vars PROVE TableInv'
  OBVIOUS
<1>1. CASE Device \/ RequestYield \/ UNCHANGED vars
  BY <1>1, TableKept DEF Device, Raise, Withdraw, RequestYield, vars, cpu, stacks
<1>2. CASE TaskStep
  <2>1. pc' = "task"
    BY <1>2 DEF TaskStep, xPortStartScheduler, vPortEnterCritical, vPortExitCritical,
       vPortTaskUsesFPU, SVC_Handler, RestoreContext, Context, cpu, IInv, TypeOK,
       CtxInv, OnlyTasksSaved
  <2> QED BY <2>1, TableEmpty DEF IInv, DepthInv, Handling, AsmPoint, IsrPoint
<1>3. CASE IRQ_Handler
  BY <1>3, IRQ_HandlerKind
<1>4. CASE FreeRTOS_GetActiveIRQ \/ SkipSpurious \/ FreeRTOS_EndOfInterrupt
  BY <1>4, TableKept
  DEF FreeRTOS_GetActiveIRQ, SkipSpurious, FreeRTOS_EndOfInterrupt, stacks
<1>5. CASE CallIsr
  BY <1>5, CallIsrKind
<1>6. ASSUME NEW w \in CFrameWords, EnterDispatcher(w) PROVE TableInv'
  BY <1>6, EnterDispatcherKind
<1>7. CASE IsrReturn
  <2>1. pc' = "ret"
    BY <1>7 DEF IsrReturn, IInv, CpuInv
  <2> QED BY <1>7, <2>1, TableKept DEF IsrReturn, stacks
<1>8. CASE LeaveDispatcher
  <2>1. g_current_interrupt_num' = g_current_interrupt_num /\ irqStack' = irqStack
        /\ ulPortInterruptNesting' = ulPortInterruptNesting
    BY <1>8 DEF LeaveDispatcher
  <2>2. \A k : KindSaved(k)' <=> KindSaved(k)
    BY <2>1 DEF KindSaved, Recorded
  <2>3. pc' \notin {"isr", "bad"}
    <3>1. /\ pc = "ret" /\ pc' = Top(svcStack).lr
          /\ g_current_interrupt_pointer \in 1 .. g_current_interrupt_pointer
          /\ Len(svcStack) = 2 * g_current_interrupt_pointer
      BY <1>8 DEF LeaveDispatcher, IInv, TypeOK, DepthInv, IsrPoint
    <3> QED BY <3>1 DEF IInv, FrameInv, Top
  <2> QED BY <2>1, <2>2, <2>3 DEF TableInv
<1>9. CASE exit_without_switch
  BY <1>9, ExitKind
<1>10. ASSUME NEW t \in Task, switch_before_exit(t) PROVE TableInv'
  <2>1. ulPortInterruptNesting = 1 /\ ulPortInterruptNesting' = 0
    BY <1>10 DEF switch_before_exit, SwitchBeforeExit
  <2>2. pc' \notin {"isr", "bad"}
    BY <2>1 DEF IInv, DepthInv, IsrPoint
  <2> QED BY <2>1, <2>2, TableEmpty
<1> QED BY <1>1, <1>2, <1>3, <1>4, <1>5, <1>6, <1>7, <1>8, <1>9, <1>10
    DEF Next, HandlerStep

(* The vector table is indexed within its bounds only, and the handler of  *)
(* bad INTIDs runs for nothing else, for any table and any INTIDs: an      *)
(* interrupted handler resumes with the INTID it was chosen for.           *)
THEOREM OnlyTheTableIsIndexed == Spec => []OnlyTableIndexed
<1>1. IInv /\ TableInv => OnlyTableIndexed
  <2> SUFFICES ASSUME IInv, TableInv, pc = "isr"
               PROVE  r4 < VectorMax + CortexEntries
    BY DEF TableInv, OnlyTableIndexed
  <2>1. r4 < VectorMax /\ r4 \in Int
    <3>1. r4 = Recorded(g_current_interrupt_pointer)
          /\ g_current_interrupt_pointer \in 1 .. g_current_interrupt_pointer
      BY DEF IInv, TypeOK, PrioInv, DepthInv, IsrPoint
    <3>2. r4 \in IntId
      BY <3>1 DEF IInv, PrioInv
    <3> QED BY <3>2, IdAssumption DEF TableInv
  <2> QED BY <2>1, ConfigAssumption
<1> QED BY <1>1, TableInit, TableStep, InductiveInvariant, PTL DEF Spec

-----------------------------------------------------------------------------
(* What handling interrupts costs.                                         *)

LEMMA LeastOf ==
  ASSUME NEW T, T \subseteq Nat, T # {}
  PROVE  \E m \in T : \A y \in T : m <= y
<1> DEFINE LT == {ss \in Nat \X Nat : ss[1] < ss[2]}
<1>1. IsWellFoundedOn(LT, Nat)
  BY NatLessThanWellFounded DEF OpToRel
<1>2. \A x, y \in Nat : <<y, x>> \in LT <=> y < x
  OBVIOUS
<1> HIDE DEF LT
<1>3. PICK m \in T : \A y \in T : <<y, m>> \notin LT
  BY <1>1, WFMin
<1>4. \A y \in T : ~(y < m)
  BY <1>2, <1>3
<1> QED BY <1>3, <1>4

(* The most urgent pending interrupt exists: priorities are naturals.      *)
LEMMA SignalledIsAcknowledged ==
  ASSUME TypeOK, Signalled
  PROVE  MostUrgent # {}
<1> DEFINE T == {Prio[i] : i \in pending}
<1>1. PICK s \in pending : Preempts(s)
  BY DEF Signalled
<1>2. pending \subseteq IntId /\ active \subseteq IntId
  BY DEF TypeOK
<1>3. \A i \in IntId : Prio[i] \in Nat
  BY IdAssumption
<1>4. T \subseteq Nat /\ T # {}
  BY <1>1, <1>2, <1>3
<1>5. PICK m \in T : \A y \in T : m <= y
  <2> HIDE DEF T
  <2> QED BY <1>4, LeastOf
<1>6. PICK i \in pending : Prio[i] = m
  BY <1>5
<1>7. \A j \in pending : Prio[i] <= Prio[j]
  BY <1>5, <1>6
<1>8. Preempts(i)
  <2> SUFFICES ASSUME NEW a \in active PROVE Prio[i] < Prio[a]
    BY DEF Preempts
  <2>1. Prio[i] <= Prio[s] /\ Prio[s] < Prio[a]
    BY <1>1, <1>7 DEF Preempts
  <2> QED BY <1>2, <1>3, <2>1
<1> QED BY <1>7, <1>8 DEF MostUrgent

LEMMA PendingStaysFinite ==
  ASSUME TypeOK, IsFiniteSet(pending), [Next]_vars
  PROVE  IsFiniteSet(pending')
<1>1. CASE UNCHANGED pending
  BY <1>1
<1>2. ASSUME NEW i, pending' = pending \cup {i} PROVE IsFiniteSet(pending')
  BY <1>2, FS_AddElement
<1>3. ASSUME NEW i, pending' = pending \ {i} PROVE IsFiniteSet(pending')
  BY <1>3, FS_RemoveElement
<1>4. \/ UNCHANGED pending
      \/ \E i : pending' = pending \cup {i}
      \/ \E i : pending' = pending \ {i}
  BY DEF Next, Device, Raise, Withdraw, TaskStep, HandlerStep, RequestYield,
     IRQ_Handler, FreeRTOS_GetActiveIRQ, EnterDispatcher, SkipSpurious, CallIsr,
     IsrReturn, LeaveDispatcher, FreeRTOS_EndOfInterrupt, exit_without_switch,
     switch_before_exit, xPortStartScheduler, vPortEnterCritical,
     vPortExitCritical, vPortTaskUsesFPU, SVC_Handler, gic, vars
<1> QED BY <1>1, <1>2, <1>3, <1>4

(* The parts of what is owed.                                              *)
OwedParts ==
  /\ Owed = StepsLeft + 5 * Suspended + 10 * (Cardinality(pending) - Claimed)
  /\ pc \in {"boot", "task"} => StepsLeft = 0
  /\ pc \in IsrPoint => StepsLeft \in 3 .. 5
  /\ pc = "call" => StepsLeft = 5
  /\ pc \in {"isr", "bad"} => StepsLeft = 4
  /\ pc = "ret" => StepsLeft = 3
  /\ pc = "get" => StepsLeft = 7
  /\ pc = "handler" => StepsLeft = 6
  /\ pc = "epi" => StepsLeft = 2
  /\ pc = "pop" => StepsLeft = 1
  /\ StepsLeft \in 0 .. 7
  /\ Suspended = IF ulPortInterruptNesting = 0 THEN 0
                 ELSE ulPortInterruptNesting - 1
  /\ Suspended \in Nat
  /\ Cardinality(pending) \in Nat
  /\ Claimed \in {0, 1}
  /\ Claimed = 1 <=> (pc = "get" /\ Signalled)
  /\ Claimed <= Cardinality(pending)

PendingFinite == IsFiniteSet(pending)

LEMMA OwedPartsHold == IInv /\ PendingFinite => OwedParts
<1> SUFFICES ASSUME IInv, IsFiniteSet(pending) PROVE OwedParts
  BY DEF PendingFinite
<1>1. pc \in Point /\ ulPortInterruptNesting \in Nat
  BY DEF IInv, TypeOK
<1>2. Suspended = IF ulPortInterruptNesting = 0 THEN 0
                  ELSE ulPortInterruptNesting - 1
  BY EmptySeq DEF Suspended, IInv, TypeOK, DepthInv
<1>3. Cardinality(pending) \in Nat
  BY FS_CardinalityType
<1>4. Claimed \in {0, 1} /\ (Claimed = 1 <=> (pc = "get" /\ Signalled))
  BY DEF Claimed
<1>5. Claimed <= Cardinality(pending)
  <2>1. CASE Signalled
    <3>1. Cardinality(pending) # 0
      BY <2>1, FS_EmptySet DEF Signalled
    <3> QED BY <1>3, <1>4, <3>1
  <2>2. CASE ~Signalled
    BY <1>3, <1>4, <2>2
  <2> QED BY <2>1, <2>2
<1>6. /\ pc \in {"boot", "task"} => StepsLeft = 0
      /\ pc \in IsrPoint => StepsLeft \in 3 .. 5
      /\ pc = "call" => StepsLeft = 5
      /\ pc \in {"isr", "bad"} => StepsLeft = 4
      /\ pc = "ret" => StepsLeft = 3
      /\ pc = "get" => StepsLeft = 7
      /\ pc = "handler" => StepsLeft = 6
      /\ pc = "epi" => StepsLeft = 2
      /\ pc = "pop" => StepsLeft = 1
  BY DEF StepsLeft, IsrPoint
<1>7. StepsLeft \in 0 .. 7
  BY <1>1, <1>6 DEF Point, TaskPoint, AsmPoint, IsrPoint
<1>8. Suspended \in Nat
  BY <1>1, <1>2
<1> QED BY <1>2, <1>3, <1>4, <1>5, <1>6, <1>7, <1>8 DEF OwedParts, Owed

(* A step of an activation that waits for nothing, other than the          *)
(* acknowledgement and the return.                                         *)
LEMMA ForwardCost ==
  ASSUME OwedParts, OwedParts', UNCHANGED <<pending, ulPortInterruptNesting>>,
         StepsLeft' < StepsLeft, pc # "get", pc' # "get"
  PROVE  Owed' < Owed
<1>1. Claimed = 0 /\ Claimed' = 0
  BY DEF OwedParts
<1> QED BY <1>1 DEF OwedParts

LEMMA DeviceCost ==
  ASSUME IInv, IsFiniteSet(pending), OwedParts, OwedParts', Device
  PROVE  CostStep
<1>1. UNCHANGED <<pc, active, irqStack, ulPortInterruptNesting>>
  BY DEF Device, Raise, Withdraw, cpu, stacks
<1>2. StepsLeft' = StepsLeft /\ Suspended' = Suspended
  BY <1>1 DEF StepsLeft, Suspended
<1>3. CASE \E i \in IntId : Raise(i)
  <2>1. PICK i \in IntId : i \notin pending /\ pending' = pending \cup {i}
    BY <1>3 DEF Raise
  <2>2. Cardinality(pending') = Cardinality(pending) + 1
    BY <2>1, FS_AddElement
  <2>3. Signalled => Signalled'
    BY <1>1, <2>1 DEF Signalled, Preempts
  <2>4. Claimed <= Claimed'
    BY <1>1, <2>3 DEF Claimed
  <2>5. Owed' <= Owed + 10 /\ Owed' \in Nat
    <3>1. Claimed' = Claimed \/ (Claimed = 0 /\ Claimed' = 1)
      BY <2>4 DEF OwedParts
    <3>2. CASE Claimed' = Claimed
      BY <1>2, <2>2, <3>2 DEF OwedParts
    <3>3. CASE Claimed = 0 /\ Claimed' = 1
      BY <1>2, <2>2, <3>3 DEF OwedParts
    <3> QED BY <3>1, <3>2, <3>3
  <2> QED BY <1>1, <2>1, <2>5 DEF CostStep
<1>4. CASE \E i \in IntId : Withdraw(i)
  <2>1. PICK i \in IntId : i \in pending /\ pending' = pending \ {i}
    BY <1>4 DEF Withdraw
  <2>2. Cardinality(pending') = Cardinality(pending) - 1
    BY <2>1, FS_RemoveElement
  <2>3. Owed' <= Owed /\ Owed' \in Nat /\ Owed \in Nat
    BY <1>2, <2>2 DEF OwedParts
  <2> QED BY <1>1, <2>3 DEF CostStep
<1> QED BY <1>3, <1>4 DEF Device

LEMMA IRQ_HandlerCost ==
  ASSUME IInv, OwedParts, OwedParts', IRQ_Handler
  PROVE  Owed' < Owed
<1>1. /\ pc \in {"task"} \cup IsrPoint /\ pc' = "get" /\ Signalled
      /\ UNCHANGED <<pending, active>>
      /\ ulPortInterruptNesting' = ulPortInterruptNesting + 1
      /\ ulPortInterruptNesting \in Nat
  BY DEF IRQ_Handler, IInv, TypeOK, CpuInv, Point, TaskPoint, gic
<1>2. Signalled'
  BY <1>1 DEF Signalled, Preempts
<1>3. Claimed = 0 /\ Claimed' = 1 /\ StepsLeft' = 7
  BY <1>1, <1>2 DEF OwedParts, IsrPoint
<1>4. CASE pc = "task"
  <2>1. ulPortInterruptNesting = 0
    BY <1>4 DEF IInv, DepthInv, Handling, AsmPoint, IsrPoint
  <2>2. Suspended = 0 /\ Suspended' = 0 /\ StepsLeft = 0
    BY <1>1, <1>4, <2>1 DEF OwedParts
  <2> QED BY <1>1, <1>3, <2>2 DEF OwedParts
<1>5. CASE pc \in IsrPoint
  <2>1. ulPortInterruptNesting > 0
    BY <1>5 DEF IInv, DepthInv
  <2>2. Suspended' = Suspended + 1 /\ StepsLeft \in 3 .. 5
    BY <1>1, <1>5, <2>1 DEF OwedParts
  <2> QED BY <1>1, <1>3, <2>2 DEF OwedParts
<1> QED BY <1>1, <1>4, <1>5

LEMMA GetActiveIRQCost ==
  ASSUME IInv, IsFiniteSet(pending), OwedParts, OwedParts', FreeRTOS_GetActiveIRQ
  PROVE  Owed' < Owed
<1>1. /\ pc = "get" /\ pc' = "handler"
      /\ UNCHANGED ulPortInterruptNesting
  BY DEF FreeRTOS_GetActiveIRQ
<1>2. /\ StepsLeft = 7 /\ StepsLeft' = 6 /\ Suspended' = Suspended
      /\ Claimed' = 0
  BY <1>1 DEF OwedParts
<1>3. CASE \E i \in MostUrgent : pending' = pending \ {i}
  <2>1. PICK i \in pending : pending' = pending \ {i} /\ Preempts(i)
    BY <1>3 DEF MostUrgent
  <2>2. Cardinality(pending') = Cardinality(pending) - 1
    BY <2>1, FS_RemoveElement
  <2>3. Claimed = 1
    BY <1>1, <2>1 DEF OwedParts, Signalled
  <2> QED BY <1>2, <2>2, <2>3 DEF OwedParts
<1>4. CASE MostUrgent = {} /\ UNCHANGED gic
  <2>1. Claimed = 0
    BY <1>4, SignalledIsAcknowledged DEF OwedParts, IInv
  <2>2. pending' = pending
    BY <1>4 DEF gic
  <2> QED BY <1>2, <2>1, <2>2 DEF OwedParts
<1> QED BY <1>3, <1>4 DEF FreeRTOS_GetActiveIRQ

LEMMA ReturnCost ==
  ASSUME IInv, IInv', OwedParts, OwedParts', pc = "pop",
         UNCHANGED pending, pc' \in {"task"} \cup IsrPoint,
         ulPortInterruptNesting' = ulPortInterruptNesting - 1
  PROVE  Owed' < Owed
<1>1. /\ Claimed = 0 /\ Claimed' = 0 /\ StepsLeft = 1
  BY DEF OwedParts, IsrPoint
<1>2. ulPortInterruptNesting \in Nat /\ ulPortInterruptNesting > 0
  BY DEF IInv, TypeOK, DepthInv, AsmPoint
<1>3. CASE pc' = "task"
  <2>1. ulPortInterruptNesting' = 0
    BY <1>3 DEF IInv, DepthInv, Handling, AsmPoint, IsrPoint
  <2>2. Suspended' = 0 /\ Suspended = 0 /\ StepsLeft' = 0
    BY <1>2, <1>3, <2>1 DEF OwedParts
  <2> QED BY <1>1, <2>2 DEF OwedParts
<1>4. CASE pc' \in IsrPoint
  <2>1. ulPortInterruptNesting' > 0
    BY <1>4 DEF IInv, DepthInv
  <2>2. Suspended' = Suspended - 1 /\ StepsLeft' \in 3 .. 5
    BY <1>2, <1>4, <2>1 DEF OwedParts
  <2> QED BY <1>1, <2>2 DEF OwedParts
<1> QED BY <1>3, <1>4

LEMMA CostOfNext ==
  ASSUME IInv, IInv', PendingFinite, PendingFinite', [Next]_vars
  PROVE  [CostStep]_vars
<1> SUFFICES ASSUME Next PROVE CostStep
  OBVIOUS
<1>1. OwedParts /\ OwedParts'
  <2>1. OwedParts
    BY OwedPartsHold
  <2>2. OwedParts'
    BY OwedPartsHold, PTL
  <2> QED BY <2>1, <2>2
<1>2. Owed \in Nat /\ Owed' \in Nat
  BY <1>1 DEF OwedParts
<1>3. ASSUME Owed' < Owed PROVE CostStep
  BY <1>2, <1>3 DEF CostStep
<1>4. CASE Device
  BY <1>1, <1>4, DeviceCost DEF PendingFinite
<1>5. CASE TaskStep \/ RequestYield
  <2>1. /\ UNCHANGED pending
        /\ pc = "boot" \/ pc' = pc
        /\ pc' = "task" \/ pc = "isr"
    BY <1>5 DEF TaskStep, xPortStartScheduler, vPortEnterCritical, vPortExitCritical,
       vPortTaskUsesFPU, SVC_Handler, RequestYield, RestoreContext, Context, cpu, gic,
       IInv, TypeOK, CtxInv, OnlyTasksSaved
  <2>2. ulPortInterruptNesting' = ulPortInterruptNesting
    BY <1>5 DEF TaskStep, xPortStartScheduler, vPortEnterCritical, vPortExitCritical,
       vPortTaskUsesFPU, SVC_Handler, RequestYield
  <2>3. StepsLeft' = StepsLeft /\ Claimed' = 0 /\ Claimed = 0
    BY <1>1, <2>1 DEF OwedParts
  <2>4. Owed' = Owed
    BY <1>1, <2>1, <2>2, <2>3 DEF OwedParts
  <2> QED BY <1>2, <2>1, <2>4 DEF CostStep
<1>6. CASE IRQ_Handler
  BY <1>1, <1>3, <1>6, IRQ_HandlerCost
<1>7. CASE FreeRTOS_GetActiveIRQ
  BY <1>1, <1>3, <1>7, GetActiveIRQCost DEF PendingFinite
<1>8. CASE (\E w \in CFrameWords : EnterDispatcher(w)) \/ SkipSpurious \/ CallIsr
           \/ FreeRTOS_EndOfInterrupt
  <2>1. /\ UNCHANGED <<pending, ulPortInterruptNesting>>
        /\ \/ pc = "handler" /\ pc' \in {"call", "epi"}
           \/ pc = "call" /\ pc' \in {"isr", "bad"}
           \/ pc = "epi" /\ pc' = "pop"
    BY <1>8 DEF EnterDispatcher, SkipSpurious, CallIsr, FreeRTOS_EndOfInterrupt, gic
  <2>2. StepsLeft' < StepsLeft
    BY <1>1, <2>1 DEF OwedParts
  <2> QED BY <1>1, <1>3, <2>1, <2>2, ForwardCost
<1>9. CASE IsrReturn \/ LeaveDispatcher
  <2>1. /\ UNCHANGED <<pending, ulPortInterruptNesting>>
        /\ \/ pc \in {"isr", "bad"} /\ pc' = "ret"
           \/ pc = "ret" /\ pc' = "epi"
    <3>1. CASE IsrReturn
      BY <3>1 DEF IsrReturn, IInv, CpuInv, gic
    <3>2. CASE LeaveDispatcher
      <4>1. /\ pc = "ret" /\ pc' = Top(svcStack).lr
            /\ g_current_interrupt_pointer \in 1 .. g_current_interrupt_pointer
            /\ Len(svcStack) = 2 * g_current_interrupt_pointer
            /\ UNCHANGED <<pending, ulPortInterruptNesting>>
        BY <3>2 DEF LeaveDispatcher, IInv, TypeOK, DepthInv, IsrPoint, gic
      <4> QED BY <4>1 DEF IInv, FrameInv, Top
    <3> QED BY <1>9, <3>1, <3>2
  <2>2. StepsLeft' < StepsLeft
    BY <1>1, <2>1 DEF OwedParts
  <2> QED BY <1>1, <1>3, <2>1, <2>2, ForwardCost
<1>10. CASE exit_without_switch \/ \E t \in Task : switch_before_exit(t)
  <2>1. /\ pc = "pop" /\ UNCHANGED <<pending, g_current_interrupt_pointer>>
        /\ ulPortInterruptNesting' = ulPortInterruptNesting - 1
    BY <1>10 DEF exit_without_switch, switch_before_exit, gic, nest
  <2>2. pc' \in {"task"} \cup IsrPoint
    <3>1. /\ g_current_interrupt_pointer = ulPortInterruptNesting - 1
          /\ ulPortInterruptNesting \in Nat
      BY <2>1 DEF IInv, TypeOK, DepthInv, AsmPoint
    <3>2. pc' \notin AsmPoint
      BY <2>1, <3>1 DEF IInv, DepthInv
    <3>3. pc' # "boot"
      <4>1. CASE exit_without_switch
        <5>1. /\ ulPortInterruptNesting \in 1 .. ulPortInterruptNesting
              /\ pc' = irqStack[ulPortInterruptNesting].ret
          BY <2>1, <4>1 DEF exit_without_switch, Top, IInv, TypeOK, DepthInv, AsmPoint
        <5>2. SavedBy(ulPortInterruptNesting)
          BY <5>1 DEF IInv, FrameInv
        <5> QED BY <5>1, <5>2 DEF SavedBy, IsrPoint
      <4>2. CASE \E t \in Task : switch_before_exit(t)
        <5>1. Len(irqStack) = 1 /\ irqStack[1].ret = "task"
          BY <2>1, <4>2 DEF switch_before_exit, SwitchBeforeExit, IInv, DepthInv,
             FrameInv, SavedBy
        <5> QED BY <4>2, <5>1 DEF switch_before_exit, RestoreContext, Context, Top,
              IInv, CtxInv, OnlyTasksSaved
      <4> QED BY <1>10, <4>1, <4>2
    <3> QED BY <3>2, <3>3 DEF IInv, TypeOK, Point, TaskPoint
  <2> QED BY <1>1, <1>3, <2>1, <2>2, ReturnCost
<1> QED BY <1>4, <1>5, <1>6, <1>7, <1>8, <1>9, <1>10 DEF Next, HandlerStep

(* Whatever the devices do, an interrupt costs at most ten steps, and the  *)
(* core's own steps only pay back what the devices have added: a core that *)
(* keeps executing gets back to its tasks.                                 *)
THEOREM ServiceIsBounded == Spec => ServiceBounded
<1>1. Init => PendingFinite
  BY FS_EmptySet DEF Init, PendingFinite
<1>2. IInv /\ PendingFinite /\ [Next]_vars => PendingFinite'
  BY PendingStaysFinite DEF IInv, PendingFinite
<1>3. IInv /\ IInv' /\ PendingFinite /\ PendingFinite' /\ [Next]_vars
      => [CostStep]_vars
  BY CostOfNext
<1> QED BY <1>1, <1>2, <1>3, InductiveInvariant, PTL DEF Spec, ServiceBounded
=============================================================================

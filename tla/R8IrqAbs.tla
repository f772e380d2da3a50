----------------------------- MODULE R8IrqAbs ------------------------------
(***************************************************************************)
(* What the interrupt path of the CR8 port promises to the code above it:  *)
(* interrupt service routines nest strictly by priority, each one runs to  *)
(* its end, and a switch of tasks that one of them asks for happens after  *)
(* the last of them and before any task executes again.                    *)
(***************************************************************************)
EXTENDS Integers, Sequences

CONSTANTS Task, IntId, Prio

VARIABLES
  serving,   \* INTIDs in service, the innermost last
  resched,   \* a switch of tasks has been asked for
  user,      \* task code executes, as opposed to the port or an ISR
  running    \* the current task

vars == <<serving, resched, user, running>>

Innermost == serving[Len(serving)]

Init ==
  /\ serving = <<>>
  /\ resched = FALSE
  /\ user = FALSE
  /\ running \in Task

Enter ==
  /\ user
  /\ user' = FALSE
  /\ UNCHANGED <<serving, resched, running>>

Serve(i) ==
  /\ ~user
  /\ serving = <<>> \/ Prio[i] < Prio[Innermost]
  /\ serving' = Append(serving, i)
  /\ UNCHANGED <<resched, user, running>>

Ask ==
  /\ serving # <<>>
  /\ resched' = TRUE
  /\ UNCHANGED <<serving, user, running>>

Finish ==
  /\ serving # <<>>
  /\ serving' = SubSeq(serving, 1, Len(serving) - 1)
  /\ UNCHANGED <<resched, user, running>>

(* Back to the task that was interrupted.                                  *)
Resume ==
  /\ ~user
  /\ serving = <<>>
  /\ ~resched
  /\ user' = TRUE
  /\ UNCHANGED <<serving, resched, running>>

Switch(t) ==
  /\ ~user
  /\ serving = <<>>
  /\ resched
  /\ resched' = FALSE
  /\ user' = TRUE
  /\ running' = t
  /\ UNCHANGED serving

(* A task gives up the processor by itself.                                *)
Yield(t) ==
  /\ user
  /\ running' = t
  /\ UNCHANGED <<serving, resched, user>>

Next ==
  \/ Enter
  \/ \E i \in IntId : Serve(i)
  \/ Ask
  \/ Finish
  \/ Resume
  \/ \E t \in Task : Switch(t) \/ Yield(t)

Spec == Init /\ [][Next]_vars
=============================================================================

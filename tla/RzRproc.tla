------------------------------ MODULE RzRproc ------------------------------
(***************************************************************************)
(* The remoteproc back end of the Linux client: linux-client/rz_rproc.c    *)
(* and platform_create_proc of platform_info.c.  It opens the UIO devices, *)
(* runs the interrupt thread that a doorbell of the R8 wakes, rings the    *)
(* doorbell of the R8, and takes everything down again.                    *)
(*                                                                         *)
(* pc is where the main thread is.  This module has the steps of           *)
(*   init irq mem map    rz_proc_init and the mapping of the table         *)
(*   err1 remove rmIrq rmUio   the error path and rz_proc_remove           *)
(*   ring                rz_proc_notify                                    *)
(* and RzClient the others.  The interrupt thread runs beside it.          *)
(*                                                                         *)
(* Only receiver 2 has a poller (valid_thread), so its interrupt stands    *)
(* for all three.  All rows of chn_info name response interrupts, so the   *)
(* branches for MHU_SEND_TYPE_RSP are dead and left out; so is the test of *)
(* the word the R8 writes, which always is a notify_id.                    *)
(***************************************************************************)
EXTENDS Integers, FiniteSets

VARIABLES
  pc,          \* where the main thread is
  cont,        \* where it goes on after a notification
  fs,          \* force_stop
  inst,        \* which call of platform_create_proc: 1 primes, 2 is kept
  fd,          \* per device: times opened less times closed
  known,       \* devices whose dev pointer is set
  irqOn,       \* the handler is registered and enabled
  initialized, \* rz_rproc.c: initialized, ipi[UIO_MBX].registered
  tbl,         \* g_rsc_table is set
  slice,       \* slice of the resource table that g_platform refers to
  sync,        \* ipi[UIO_RECEIVER2].sync: set means nothing to do
  irq,         \* where the interrupt thread is
  bellA,       \* doorbell R8 -> A55
  bellR        \* doorbell A55 -> R8

rprocVars == <<pc, cont, fs, inst, fd, known, irqOn, initialized, tbl, slice,
               sync, irq, bellA, bellR>>

Uio    == {"mbx", "rx1", "rx2", "rx3"}
Mem    == {"rsc", "ctl0", "shm0", "ctl1", "shm1", "mhu"}
Device == Uio \cup Mem
NoSlice == 2

devVars  == <<fd, known>>
setVars  == <<inst, irqOn, initialized, tbl, slice>>
bellVars == <<bellA, bellR>>

Opened(D) == [d \in Device |-> IF d \in D THEN fd[d] + 1 ELSE fd[d]]
(* Fault: a device is closed whether it is open or not.                    *)
Closed_All(D) == [d \in Device |-> fd[d] - 1]
Closed(D) == [d \in Device |-> IF d \in D THEN fd[d] - 1 ELSE fd[d]]

-----------------------------------------------------------------------------
(* Setting up                                                              *)

(* rz_proc_init up to the interrupts; a second instance skips to the       *)
(* memory.  A device that cannot be opened leaves the others open.         *)
InitUio ==
  /\ pc = "init"
  /\ \/ /\ initialized
        /\ pc' = "mem"
        /\ UNCHANGED <<fd, known, sync>>
     \/ /\ ~initialized
        /\ fd' = Opened(Uio)
        /\ known' = known \cup Uio
        /\ sync' = TRUE
        /\ pc' = "irq"
     \/ /\ ~initialized
        /\ \E d \in Uio : fd' = Opened(Uio \ {d})
        /\ pc' = "remove"
        /\ UNCHANGED <<known, sync>>
  /\ UNCHANGED <<cont, fs, setVars, irq, bellVars>>

(* The three receivers are enabled.  When one cannot be registered, the     *)
(* one that rings may be enabled already or not yet.                       *)
InitIrq ==
  /\ pc = "irq"
  /\ \/ irqOn' = TRUE /\ initialized' = TRUE /\ pc' = "mem"
     \/ irqOn' \in BOOLEAN /\ pc' = "err1" /\ UNCHANGED initialized
  /\ UNCHANGED <<cont, fs, inst, devVars, tbl, slice, sync, irq, bellVars>>

(* The second instance finds the devices of the first.                     *)
(* Fault: it does not look.                                                *)
MemShared_Never == FALSE
MemShared == "rsc" \in known

(* create_vrinfo: the memory devices are shared by all instances.          *)
InitMem ==
  /\ pc = "mem"
  /\ \/ /\ MemShared
        /\ pc' = "map"
        /\ UNCHANGED devVars
     \/ /\ ~MemShared
        /\ fd' = Opened(Mem)
        /\ known' = known \cup Mem
        /\ pc' = "map"
     \/ /\ ~MemShared
        /\ \E d \in Mem :
             /\ fd' = Opened(Mem \ {d})
             /\ known' = known \cup (Mem \ {d})
        /\ pc' = "err1"
  /\ UNCHANGED <<cont, fs, setVars, sync, irq, bellVars>>

(* platform_create_proc after remoteproc_init.  The first call maps all    *)
(* slices and always gets slice 0, later calls get the slice they name.    *)
(* ok: the table is valid within the 500 retries.                          *)
MapTable(ok) ==
  /\ pc = "map"
  /\ \/ /\ tbl \/ ok
        /\ tbl' = TRUE
        /\ slice' = IF inst = 1 THEN NoSlice ELSE IF tbl THEN 1 ELSE 0
        /\ inst' = 2
        /\ pc' = IF inst = 1 THEN "init" ELSE "vdev"
     \/ /\ ~tbl /\ ~ok
        /\ pc' = "remove"
        /\ UNCHANGED <<tbl, slice, inst>>
  /\ UNCHANGED <<cont, fs, devVars, irqOn, initialized, sync, irq, bellVars>>

-----------------------------------------------------------------------------
(* Taking down                                                             *)

(* err1 of rz_proc_init closes the mailbox and leaves its pointer.         *)
Err1 ==
  /\ pc = "err1"
  /\ fd' = Closed({"mbx"})
  /\ pc' = "remove"
  /\ UNCHANGED <<cont, fs, known, setVars, sync, irq, bellVars>>

(* deinit_memory_device: the memory goes before the interrupts do.         *)
RemoveMem ==
  /\ pc = "remove"
  /\ fd' = Closed(known \cap Mem)
  /\ known' = known \ Mem
  /\ pc' = "rmIrq"
  /\ UNCHANGED <<cont, fs, setVars, sync, irq, bellVars>>

RemoveIrq ==
  /\ pc = "rmIrq"
  /\ irqOn' = (irqOn /\ ~initialized)
  /\ pc' = "rmUio"
  /\ UNCHANGED <<cont, fs, inst, devVars, initialized, tbl, slice, sync, irq, bellVars>>

RemoveUio ==
  /\ pc = "rmUio"
  /\ fd' = Closed(known \cap Uio)
  /\ known' = known \ Uio
  /\ initialized' = FALSE
  /\ pc' = "failed"
  /\ UNCHANGED <<cont, fs, inst, irqOn, tbl, slice, sync, irq, bellVars>>

-----------------------------------------------------------------------------
(* Doorbells                                                               *)

(* rz_proc_notify writes the mailbox word, which is the same for every     *)
(* notification of the instance that is kept, waits until the previous     *)
(* doorbell was taken, gives up after MAX_READ_WAIT reads, and rings all   *)
(* the same when stopping.  Virtqueues ignore its result.                  *)
Ring ==
  /\ pc = "ring"
  /\ \/ /\ ~bellR \/ fs
        /\ bellR' = TRUE
     \/ /\ bellR /\ ~fs
        /\ UNCHANGED bellR
  /\ pc' = cont
  /\ UNCHANGED <<cont, fs, devVars, setVars, sync, irq, bellA>>

(* The registers and the mailbox that the handler touches are mapped.      *)
Mapped == fd["mbx"] = 1 /\ fd["mhu"] = 1

(* Faults: the handler clears the doorbell of the other direction; or it   *)
(* leaves the flag.                                                        *)
ClearDoorbell_Other == bellR' = FALSE /\ UNCHANGED bellA
ClearDoorbell == bellA' = FALSE /\ UNCHANGED bellR
ClearSync_Missing == UNCHANGED sync
ClearSync == sync' = FALSE

(* rz_proc_irq_handler: clear the doorbell, read the word, clear the flag, *)
IrqTake ==
  /\ irq = "idle" /\ irqOn /\ bellA
  /\ Mapped
  /\ ClearDoorbell
  /\ ClearSync
  /\ irq' = "signal"
  /\ UNCHANGED <<pc, cont, fs, devVars, setVars>>

(* ... and wake the poller if it sleeps.  The poller looks at the flag     *)
(* before it takes the mutex: a signal in between is lost.                 *)
IrqSignal ==
  /\ irq = "signal"
  /\ pc' \in IF pc = "cwait" THEN {"poll", "cwait"} ELSE {pc}
  /\ irq' = "idle"
  /\ UNCHANGED <<cont, fs, devVars, setVars, sync, bellVars>>

-----------------------------------------------------------------------------
(* The variables of a process that has no thread any more.  The doorbells  *)
(* are hardware and stay.                                                  *)
RprocGone ==
  /\ pc' = "off"
  /\ cont' = "off"
  /\ fs' = FALSE
  /\ inst' = 1
  /\ fd' = [d \in Device |-> 0]
  /\ known' = {}
  /\ irqOn' = FALSE
  /\ initialized' = FALSE
  /\ tbl' = FALSE
  /\ slice' = NoSlice
  /\ sync' = FALSE
  /\ irq' = "idle"

RprocInit ==
  /\ pc = "off"
  /\ cont = "off"
  /\ fs = FALSE
  /\ inst = 1
  /\ fd = [d \in Device |-> 0]
  /\ known = {}
  /\ irqOn = FALSE
  /\ initialized = FALSE
  /\ tbl = FALSE
  /\ slice = NoSlice
  /\ sync = FALSE
  /\ irq = "idle"
  /\ bellA = FALSE
  /\ bellR = FALSE
=============================================================================

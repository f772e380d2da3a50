# TLA+ specifications of the RZ/V2H CR8 development kit

The kit turns the two Cortex-R8 cores of a Renesas RZ/V2H into FreeRTOS
processors that Linux on the A55 loads, watches and talks to.  This directory
models the parts where the order of steps matters, checks the models with TLC
and proves theorems about them with TLAPS.  Paths below are relative to `src/`.

## 1. The system

```
 A55 / Linux                                    CR8-0, CR8-1 (FreeRTOS)
 tools/*.sh --sysfs--> remoteproc ------------> boot, r8_blackbox_init
     |                                            |
     +--/dev/mem---- black box in DDR <---------- r8_blackbox_fault, pump
 examples/linux-client (OpenAMP, UIO)             |
     |--vrings in DDR, mailbox, MHU doorbell ---> IRQ_Handler -> dispatcher -> ISR
 examples/pwm-web-demo  --pipe--> pwmd
                                                CM33 (its own box, same DDR window)
```

| Component | State | Operations | Talks to |
|---|---|---|---|
| R8 interrupt path: `fsp-patches/port.c`, `portASM.asm`, `bsp_irq.c:439-520` | CPSR, IRQ and SVC stacks, task contexts, `ulPortInterruptNesting`, `ulPortYieldRequired`, `ulCriticalNesting`, the nesting array | start the scheduler, enter/exit critical, yield by SVC, take, dispatch, end and leave an interrupt | the GIC (ICCIAR, ICCEOIR), ISRs, the kernel's `vTaskSwitchContext` |
| R8 GIC configuration: `bsp_irq.c:76-437` | distributor registers | enable, disable, clear, configure, priority, trigger | the GIC |
| R8 black box: `blackbox/r8_blackbox.c` | the box in DDR, counters in SRAM | init, pump, the CPU exceptions, two FreeRTOS hooks, `r8_irq_guard`, `r8_bad_intid`, disarm | read by `bb.py` and the scripts; called from the interrupt path |
| CM33 black box: `blackbox/cm33_blackbox.c` | its box in DDR | init, pump, fault | read by `start-cr8.sh` |
| Black box reader: `blackbox/bb.py` | none | decode and compare words | the boxes |
| Core lifecycle scripts: `tools/start-cr8*.sh`, `restart-r8-pair.sh`, `redeploy-cm33.sh`, `deploy-cr8.sh`, `start-cm33.sh` | remoteproc states, the boxes, the attempt | guard, stop, start, check, retry | remoteproc, the boxes |
| Linux client: `examples/linux-client/rz_rproc.c`, `platform_info.c`, `main.c` | doorbell flag, interrupt thread, mailbox word, vrings, the reply slot | poll, notify, send and wait, bench, shutdown, clean-up after a kill | the R8 firmware through DDR and the MHU |
| Daemons `pwmd`, `uartd` (`main.c:1006-1166`) | published JSON, sequence number | a line protocol on stdin | the client, the web server |
| PWM web demo: `serve_pwm.py`, `pwm.html` | daemon process, request queue | start, send, stop, HTTP handlers | `pwmd` through pipes |
| Board tools, ELF patch tools, DTBs, firmware images | files | one-shot | - |

What is hard in it, and what would make it right:

* **Interrupt path.** Interrupts nest while the dispatcher runs; the link
  register, SPSR, the adjustment of sp and the INTID of every level have to
  survive, and a switch asked for anywhere has to be made exactly once, by the
  outermost exit.  Right means: a task and an ISR always run in their own
  context, nothing is left on a stack, interrupts end in reverse order, the
  unchecked nesting array never overflows, no request is lost.
* **Black box.** It is written by start-up, by tasks that can be preempted, and
  by those who die on top of each other; Linux reads it at any moment and it
  outlives restarts.  Right means: a record whose type shows is complete and
  belongs to this start, the count of starts is honest, outputs are off when
  the core is dark.
* **Lifecycle.** A single core cannot be reset; only remoteproc states and
  magic words tell a halted core from a cold one, while scripts retry and cores
  die.  Right means: no halted core is started, a reported core has booted, the
  CM33 can be replaced without disturbing the R8 cores, scripts end.
* **Client.** A request and its reply race with timeouts; the doorbell can be
  lost; a client can be killed and started again.  Right means: a reply answers
  the request it is attributed to, a timeout is one, a new client gets through.
* **Web demo.** HTTP threads share one daemon and its pipe.  Right means: each
  request gets its own answer, a dead daemon is noticed and replaced.

All hazards with their lines are in `PROJECT.json`.

## 2. Modules

| Module | What it is |
|---|---|
| `R8Irq` | the interrupt path on one core, one action per entry point or return |
| `R8IrqAbs` | what the port promises: nested service by priority and one deferred switch |
| `MCR8Irq` | instances for TLC |
| `R8Irq_proofs` | inductive invariant, a second one for the vector table, ten theorems on its properties, refinement of `R8IrqAbs` |
| `R8Fault`, `MCR8Fault` | the R8 black box over deaths, restarts and power cycles |
| `R8Fault_proofs` | inductive invariant, seven theorems on its properties, the length of a death, refinement of `CoreBox` |
| `CoreBox` | what a core and its box promise to who reads the box from Linux; `R8Fault` and `CoreLifecycle` both implement it |
| `CoreLifecycle`, `MCCoreLifecycle` | the scripts over remoteproc, the boxes and the three cores |
| `CoreLifecycle_proofs` | inductive invariant, six theorems on its properties, refinement of `CoreBox` for each core; each says whether it needs the split DTB |
| `RzRproc` | the back end of the Linux client: devices, interrupt thread, doorbells |
| `RzClient` | main, its seven modes and the platform layer, extending `RzRproc`; firmware, signals, kills and the restart script beside them |
| `RzSession` | what a session promises to a mode: how far an answer can be from its request |
| `MCRzClient` | instances for TLC |
| `RzClient_proofs` | inductive invariant, six theorems on its properties, refinement of `RzSession` |

### R8Irq

The variables carry the names of the source.  `pc` has a value for each place
where an interrupt or the controller can make a difference (listed in the
module's header); code between two such places is one action, because
interrupts are masked there and nothing else runs on the core.  The registers
are abstracted to their *owner*: `r4` stands for everything a callee preserves
and holds the task, or the INTID, whose code runs; a context that is restored
to the wrong one shows at once.  The stacks are sequences of frames that hold
what was pushed; frame sizes are kept in words, for the alignment.
The GIC is external: it signals what is strictly more urgent than everything
active, an ICCIAR read returns the most urgent pending interrupt or, when the
interrupt was withdrawn, the spurious INTID.  `vTaskSwitchContext` may choose
any task.  Left out: the diagnostic counters of the handlers, what the tick does
besides asking for a switch, and `configUSE_TASK_FPU_SUPPORT` 2 (`port.c:277-287`),
which gives every task an FPU context from the start: modelled is 1.

### R8Fault

`cur` is who executes (start-up, a task, or one that died) and `at` where each
of them is.  A word of a fault record is abstracted to the one who wrote it,
which is what the properties tell apart: a record is mixed when its words name
different writers.  An interrupt has three steps, for the three windows an
exception can tell apart: it is taken and its ISR runs, with others on top
(`IRQ_Handler`); `bsp_common_interrupt_handler` is back with interrupts masked
and `vApplicationIRQHandler` calls the guard, which notes the INTID
(`r8_irq_guard`); the epilogue of the assembly notes it again and returns
(`Epilogue`).  So guard and epilogue can only disagree between the last two.
Entry and spurious acknowledges, which stay masked, are in `R8Irq`.  Of what
the pump copies and `Abort_Handler` re-reads the box keeps `epi_icciar` (both
write it), `irq_last` (the pump alone) and `fault_irq` (the abort alone).  Hooks in a task
can be preempted until they mask; CPU exceptions hit anywhere, start-up, ISRs
and hooks included, and nest no further because they mask and spin.  A warm
restart keeps DDR and the PWM hardware; a power cycle leaves any boot count and
any fault type in DDR, and no magic.

### CoreLifecycle

`rp` is what Linux sees, `cpu` what the core really does: `cold` after a reset
of the cluster, `halted` after a stop while the sibling ran, `wild` when a
halted core is started.  `script` is the script that runs, its step and its
attempt.  `Split` says whether the DTB splits the window that a stop of the
CM33 wipes; `MayRefuse` lets a stop fail.  Cores boot, die and fault while
the script waits.  Assumed of the firmware: within the three seconds of the
check it reaches `r8_blackbox_init` or dies into its box.  Left out: the
clearing of doorbells and virtio status bytes (that is `FwBoot` of `RzClient`),
the file copies of `deploy-cr8.sh`, wordings and exit codes.

### CoreBox

One core, its magic word and whether its fault word is set: the box is emptied
by start-up alone, the magic comes with an empty fault word, a death is recorded
and stays recorded until the next start.  Two models implement it, at different
distances.  In `R8Fault` the firmware does, word by word: `life` is `dead` from
the moment the type word of a death shows, and the steps before it are stutters.
In `CoreLifecycle` each core does, with a boot and a death as one step each; what
is shown there is that nothing the scripts do to the cores and to the CM33 gets
between a core and its box, which is false of core 0 when the DTB does not split
the window.  So what `CoreLifecycle` takes for granted of the firmware, `BootDone`
and `Die`, are two of the steps that `R8Fault` is shown to make.  They are not all
it makes: a firmware that dies in its start-up can leave an emptied box, or one
with a magic and no type yet, for as long as the death is under way; the three
seconds the scripts wait are what `CoreLifecycle` relies on there.

### RzRproc, RzClient, RzSession

One process with two threads, the interrupt thread and main, a firmware, and
the doorbells and vrings between them.  `pc` is where main is, function by
function; calls are kept as return points (`cont` for a notification, `ret` for
`platform_poll`), because both can happen at several places of every mode.

* `RzRproc` is `rz_rproc.c` and `platform_create_proc`: one action per function
  that opens, enables, maps, notifies or takes down, with every place where it
  can fail.  main creates two instances of the platform; the second finds the
  devices of the first (`inst`, `known`).  `fd` counts how often a device is
  open.  `IrqTake` and `IrqSignal` are the interrupt handler: it clears the
  doorbell, reads the mailbox and clears `sync`, and wakes the poller if that
  sleeps; the flag and the mutex are not taken together, so the wakeup can be
  lost.  A handler that runs while its registers are not mapped ends the
  process (`Crash`).
* `RzClient` has the platform layer (`CreateVdev`, `Poll`, `TimedOut`, `Drain`
  for the vring callbacks), the request (`Trysend`, `Sent`, `WaitReply`,
  `CheckDeadline`), one action per mode, and the end (`Shutdown`,
  `release_channel`, `ReleaseTick`, `Exit`).  A mode is its loop over requests
  with its own rules for failures; what an answer says is nondeterministic.
  `on_signal` and `SIGKILL` can come at any point.
* Requests are numbered as they are sent and the vrings are sets of numbers:
  the protocol itself carries no number, and how far an answer may be from its
  request is what the properties are about.
* The firmware is external, modelled from how `main.c` and the scripts use it:
  it polls `DRIVER_OK` every 200 ms, announces itself, answers in order or not
  at all, and can die.  `FwBoot` is `start-cr8.sh:33-41`, which clears one of
  the two doorbells and the status bytes.
* Time is abstract: a deadline may have passed whenever the code looks at it.
  Only the 600 ms of the release are counted, in polling periods, because they
  exist to outlast the firmware's.

`RzSession` is a request at a time: an answer is accepted only if it arrived
during the wait, answers come in order, and the accepted one is behind its
request by no more requests than were given up before.  The refinement maps
`waiting` to the places of main in a request, `fresh` to `g_reply_ready` behind
the line that clears it, `seen` to the request whose answer `msg_cb` took last.

## 3. Runs

| Run | Asks | Bounds |
|---|---|---|
| `irq` | all safety properties of `R8Irq`, the cost of an interrupt among them, and that it implements `R8IrqAbs` | 2 tasks, 3 INTIDs on 3 levels |
| `irq_live` | pending interrupts are served and switches are made | 2 INTIDs on 2 levels |
| `irq_alignment` | is sp aligned at the calls of C code? *violated* | as `irq`, no critical sections |
| `irq_table` | is everything with a table entry dispatched? *violated* | 4 INTIDs, one past the check |
| `fault` | all safety and liveness properties of `R8Fault`, and that it implements `CoreBox` | 2 tasks, 2 INTIDs, 2 starts |
| `fault_first` | is only the first fault recorded? *violated* | 1 start |
| `fault_disarm` | are the outputs turned off first? *violated* | 1 start |
| `fault_verdict` | does bb.py tell whether guard and epilogue are of one interrupt? *violated* | 2 INTIDs, 1 start |
| `life` | all properties of `CoreLifecycle`, and that each core with its box implements `CoreBox` | 3 attempts, stops may fail |
| `client` | safety of the client and that it implements `RzSession`, over all modes, kills and restarts | 3 requests, 3 processes, 1 kill, 1 transmit buffer |
| `client_live` | signals, polling and binding end | a daemon, a busy-polling one-shot and the benchmark; 2 processes, 1 kill, 2 buffers |
| `life_guard` | do start scripts refuse every restart beside a running sibling? *violated* | 2 attempts, stops succeed |

Why the bounds are enough.  *irq*: three levels give the deepest nesting twice
over (an interrupted task, an interrupted ISR, an ISR that interrupted one and
is interrupted); two tasks are what a switch needs, and they are symmetric.
INTIDs are chosen around the two bounds of the dispatcher: `VectorMax` 6 and
`CortexEntries` 2 make 3 and 5 dispatched, 7 a table entry past the check and 9
no entry.  `MaxCritical` 2 lets a critical section nest.  *fault*: a second
start is the first that can see what an earlier one left; the power cycle makes
sequences of starts unbounded all the same; two INTIDs are an ISR and one on top
of it.  *life*: three attempts are the
scripts' own `TRIES`.  *client*: every mode runs first and a one-shot
client after it.  Three requests are one given up, one whose answer is late and
one that takes it.  A third process is needed for what is left over a process
in between: a killed one leaves a doorbell, the next fails in its set-up
without taking it, and the third is hit; that one kill is also the only source
is what `CrashOnlyAfterKill` says.  One buffer makes every second `trysend`
find none; `client_live` has two so that requests can queue.  `Retry` 2,
`MaxFail` 2, `MaxMagic` 1 and `Rounds` 2 are the smallest with a first, a last
and, where a counter is reset, a failure in between; the proofs need only that
they are positive.  `ReleaseWait` 3 is 600 ms in periods of 200 ms.  `life`,
`irq` and `fault` are bounded by nothing else.

### Fairness

* `R8Irq`: weak fairness of the handler's own steps and of the scheduler's
  start, because the core keeps executing; strong fairness of `IRQ_Handler`,
  because an unmasked pending interrupt is taken at the next instruction even
  if tasks mask in between; strong fairness of `vPortExitCritical`, because a
  task that opened a critical section gets to close it.  Liveness is claimed
  only once the devices are quiet: a device that raises an urgent interrupt for
  ever starves the rest, on the hardware too.
* `R8Fault`: weak fairness of start-up and of a death while no task is current:
  these run with interrupts masked, so nothing but an exception or a restart
  takes the core from them.  No fairness for a hook in a task, which the
  scheduler may leave preempted for ever: `DeathGetsSafe` claims nothing of it.
* `CoreLifecycle`: weak fairness of the running script and of a booting core.
* `RzClient`: weak fairness of main, except that it may rest at the head of a
  mode's loop, where it waits for input or its interval; of the end of a timed
  wait; of the interrupt thread; and of the firmware while it lives.  Strong
  fairness of a deadline that is looked at again and again (`BindGivesUp`,
  `WaitGivesUp`): once passed it stays passed, which the abstraction of time
  forgets.  No fairness for signals, kills, deaths and restarts.
  `platform_poll` returns only with a doorbell, so without `g_poll` neither a
  wait for an answer nor the binding ends by its deadline alone
  (`main.c:739-743` says so); no property claims it.  `SignalEnds` leaves out
  the probe of `bench`, whose `rpmsg_send` waits for a buffer, and a daemon that
  blocks in `fgets` on half a line of stdin (`main.c:1024`, `:1113`).

### Findings

Each `violation` run checks a sentence of the documentation or of a comment
that the code does not keep; `PROJECT.json` quotes them.

* sp is aligned and then one more word is pushed (`portASM.asm:213-218`).
* The dispatcher's bound is smaller than the table (`bsp_irq.c:479` and `:34`).
* "Only the first fault" is a check and a write that a task can be preempted
  between (`r8_blackbox.c:83-105`).
* "The first thing any fault does" is the second: it records, then disarms.
* The header compares `epi_icciar` with the last entry of the ring
  (`r8_blackbox.h:208-210`); `bb.py:251` compares it with `irq_last`, the one
  word that `Abort_Handler` does not read again (`docs/05-blackbox.md:70-72`
  tells the reader not to trust it).
* The guard of the start scripts is not evaluated again for a retry, which then
  restarts a core beside its running sibling.

Two observations are not findings, because no sentence says otherwise: a
restart by `start-cr8.sh` clears the doorbell to the R8 but not the one to the
A55, so what a killed client has left there hits the next one's set-up
(`CrashOnlyAfterKill`); and a mailbox that was closed by `err1` of
`rz_proc_init` is closed again by `rz_proc_remove` (`fd` of `TypeOK` can be -1).

## 4. Proofs

Everything proved holds for every value of the constants allowed by the
`ASSUME`s of the modules: any tasks, any INTIDs and priorities, any number of
levels not above the size of the nesting array; any number of starts and
anything in cold DDR; any number of attempts.

**R8Irq.**  The properties speak of the moments when a task or an ISR executes,
so they are not inductive: what a handler pops was pushed long before.
`IInv` says what every frame holds in between.  `DepthInv` ties the lengths of
both stacks and both counts to the program point: k activations have k entries
on the IRQ stack and 2k or 2k-1 frames on the SVC stack.  `FrameInv` says what
the k-th of them saved: the task for k = 1, the ISR of level k-1 otherwise.
`PrioInv` says that recorded interrupts are strictly more urgent upwards, hence
at most `PrioLevels` deep, which is what bounds the unchecked array.
`ActiveInv` says that the controller's active set is what is recorded plus the
one just acknowledged.  `CurrentInv` and `CtxInv` say which parts of a task's
context are in the core and which are saved.  One lemma per action; lemmas
`PushProps` and `PopProps` say what a push or pop leaves of the frames below.
The refinement maps `serving` to the recorded INTIDs; each step is an abstract
step or a stutter, again from `IInv`.

Two results have arguments of their own.  `OnlyTableIndexed` says with what INTID
an ISR, or `r8_bad_intid`, executes, also after it was interrupted and resumed;
`TableInv` therefore says it of the INTIDs in the frames as well, the one that
`PushProps` and `PopProps` carry through a nesting.  `ServiceBounded` is the
safety half of the liveness of interrupts: `Owed` is what the core still has to
do for the activations on its stacks and for what is pending, every step of the
core makes it smaller, and a device that raises an interrupt adds at most ten.
The proof needs the cardinality of the pending set, hence that it is finite
(`PendingStaysFinite`), and that an acknowledged interrupt was one of it
(`SignalledIsAcknowledged`).  It says of every state what the liveness run can
only say once the devices are quiet, and for any number of levels.

**R8Fault.**  A record is written in several steps and every property is about
its end, so `IInv` follows the writers.  `ControlInv` says who can still
execute: once a CPU exception is taken nobody else does, so there is at most one
and a stack overflow it hits goes no further; while start-up is under way no
task does.  `BootInv` says that from the clearing on the box holds no old fault.
`RecordInv` says which words each writer has already filled, `WholeInv` that the
record of a masked death has no second writer because nobody else executes.
`CountInv` follows the count through the register of start-up, where only a
start that was cut short can lose it; `OutputsInv` and `EpilogueInv` say that
what a death has done (outputs off, words refreshed) is not undone.  `EpilogueInv`
also says when guard and epilogue can disagree: while the innermost interrupt is
between the two, and then interrupts are masked, so that no other can come.
`RecordComplete` holds although tasks can mix their records; that the first
record is kept does not (`fault_first`).

The refinement of `CoreBox` needs one fact more, that nobody has died as long as
start-up runs (`AliveInv`).  A step of start-up, of a task, of the beginning of a
death, of a death and of a start is each a step of `CoreBox` or shows nothing.
`BoxIsTruthful` is then proved of `CoreBox` and holds of the firmware.
`MaskedDeathIsShort` is the part of `DeathGetsSafe` that needs no fairness: with
interrupts masked every step is one of the death, or an exception that hits a stack
overflow, and `DeathLeft` counts what is left of both.

**CoreLifecycle.**  `StateInv` says that remoteproc's `offline` means cold or
halted and that two offline cores are both cold; `BoxInv` that a core which is
up, dead, halted or wild has its magic.  Together they make the guard sound.
`AttemptInv` carries that through the steps of a first attempt, `PairInv` keeps
the second core cold while the pair is rebuilt, `RedeployInv` says that boxes
present at the start of `redeploy-cm33.sh` are still there when it looks.

Without `Split` a stop of the CM33 wipes the magic that the guard of core 0
relies on, and `WildOnlyByRetry` does not hold.  The invariant does: it speaks of
the boxes that are `Covered`, both with the split and core 1's without.
So what the split is needed for is exact: `FirstAttemptIsSafe`, `ReportIsTrue`,
`RedeployIsGentle` and `BoxesKeepTheirPromise` assume it;
`UnsplitFirstAttemptIsSafe` and `BoxOfCore1` say what is left without it, core 1
and the scripts that rebuild the pair; types and `ScriptsAreBounded` do not
depend on it.

`ScriptsBounded` is the safety half of `ScriptsEnd`: `StepsLeft` counts the
steps to the end if every attempt but the last fails, every step of a script
makes it smaller and nothing else changes it but the call of a script.

**RzClient.**  `DevicesInv` says stage by stage which devices are open, which is
what makes the second instance, every error path and the handler's `Mapped`
right; `SetupInv` ties the instance, the table and the interrupt to the stage.
`CallsInv` says that calls return into the session.  `NumbersInv` bounds the
distance between requests and answers and has two cases, before and behind the
line that clears `g_reply_ready`: an answer that arrives while the main thread
waits makes up for the request it waits for, one that arrived before does not.
`RingsInv` orders the rings, so that an answer is newer than the last one;
`UnboundInv` says that nothing is sent before the announcement.  `QuietInv`
follows the release: behind its first period nothing is due any more.
Two facts about the oldest and newest of a set of numbers come from the
well-foundedness of `<`.  The modes are proved once (`ModeProps`): all an
invariant needs of them is that they ask one request at a time.  Assumed is
only `BoundsAssumption`, with a release of at least two polling periods.
Each step is then a step of `RzSession` or nothing to it (`StepMaps`).

**Model-checked only.**  Liveness (`PendingServed`, `YieldApplied`,
`DeathGetsSafe`, `ScriptsEnd`, and the four properties of `client_live`) is
beyond TLAPS, which has no `ENABLED` and no fairness here.  Of `PendingServed`,
`ScriptsEnd` and `DeathGetsSafe` the part that needs no fairness is proved,
`ServiceBounded`, `ScriptsBounded` and `MaskedDeathIsShort`: there are finitely many steps to make; that they are made is
what the fairness says.  Every safety invariant, action property and refinement
that a passing run checks is stated by a theorem.  No module declares a
RECURSIVE operator.

## 5. Plan

In this order; every module has constants with named assumptions, one action
per operation, and invariants as conjunctions of named parts.

1. `R8Irq`, `R8IrqAbs` - done, proved.
2. `R8Fault` - done, proved.
3. `CoreLifecycle` - done, proved; `CoreBox` between it and `R8Fault` - done,
   proved.
4. `RzRproc`, `RzClient`, `RzSession` - done, proved: the request with its
   timeouts, the set-up and the end of a process, kills and the next client, in
   one model, because a late doorbell of one is the hazard of the other.
5. `PwmWeb` - HTTP threads, the daemon and its pipe, the page's queue.
6. `GicConfig` - `R_BSP_Irq*` as operators on registers, against reference
   definitions by INTID.
7. `ElfPhdr` - the patch tools on a table of program headers.

Items 5 to 7 are not begun.  A theorem worth proving of `GicConfig`: a write
changes only the field of its INTID.

## 6. Not modelled

* The GIC configuration functions (`bsp_irq.c:76-437`): straight-line register
  arithmetic; `R8Irq` takes the interrupts as configured.
* The web demo (`serve_pwm.py`, `pwm.html`): a program of its own that reaches
  the client through a pipe and a file; its hazards are listed.
* `bb.py` (decodes words, no state), the board set-up and ELF patch tools
  (one-shot), the binary artefacts.
* Of the client: reading stdin, writing JSON files, statistics and
  printing; `ns_unbind` (the firmware never destroys its endpoint); the branch
  of `rz_rproc.c` for a device without a memory region and the ones for
  response channels, which no row of `chn_info` selects; the functions that are
  never called (`platform_release_rpmsg_vdev`, `platform_clear_driver_ok`); more
  than one device that cannot be opened at a time.  Taking down the virtio
  device is assumed to ring no doorbell.

------------------------------ MODULE RzClient ------------------------------
(***************************************************************************)
(* The Linux client r8_bench with its modes (linux-client/main.c), the     *)
(* platform layer below it (platform_info.c), and what they rely on: the   *)
(* OpenAMP queues, the firmware of the R8, the signals, the restart script. *)
(* The back end below is RzRproc.                                          *)
(*                                                                         *)
(* Requests are numbered in the order they are sent.  The vrings are the   *)
(* sets of numbers in them; they are used oldest first, which is the       *)
(* smallest number.  Bye is the shutdown message.  Time is abstract: a     *)
(* deadline may have passed whenever it is looked at, and only the 600 ms  *)
(* of the release are counted, in polling periods of the firmware.         *)
(*                                                                         *)
(* pc, besides the values of RzRproc:                                      *)
(*   off vdev bind bindT  no process, channel set-up, waiting for the NS   *)
(*   top send sent        head of the mode's loop, trysend                 *)
(*   wait waited done     wait_reply, its deadline check, its caller       *)
(*   poll cwait           platform_poll; it returns to ret                 *)
(*   shut cleanup release failed   the ends of main                        *)
(***************************************************************************)
EXTENDS RzRproc

CONSTANTS
  MaxReq,      \* bound: requests of one process
  Budget,      \* bound: the same per mode, at most MaxReq
  MaxRuns,     \* bound: processes started one after the other
  MaxKills,    \* bound: processes killed
  NBuf,        \* transmit buffers
  Retry,       \* tries of trysend (200 and 50 in the code)
  MaxFail,     \* failures in a row a daemon accepts (10)
  MaxMagic,    \* repeated queries of jitter (5)
  Rounds,      \* readings of sns, sizes probed and rounds run by bench
  ReleaseWait, \* length of the release in polling periods (600 / 200 ms)
  FirstCalls,  \* bound: mode and g_poll the first process may have
  LaterCalls   \* bound: the same for later ones

Modes == {"jitter", "snsjson", "sns", "uartd", "pwmd", "pwm", "bench"}

ASSUME BoundsAssumption ==
  /\ MaxReq \in Nat /\ MaxRuns \in Nat /\ MaxKills \in Nat
  /\ Budget \in [Modes -> 0..MaxReq]
  /\ FirstCalls \subseteq Modes \X BOOLEAN /\ LaterCalls \subseteq Modes \X BOOLEAN
  /\ NBuf \in Nat \ {0} /\ Retry \in Nat \ {0} /\ MaxFail \in Nat \ {0}
  /\ MaxMagic \in Nat /\ Rounds \in Nat \ {0}
  /\ ReleaseWait \in Nat /\ ReleaseWait >= 2

VARIABLES
  mode,        \* what the process was called for
  busy,        \* g_poll: busy-poll the vring
  saved,       \* g_jit_saved_poll
  phase, k,    \* where the mode is, and its loop or failure counter
  tries,       \* the counter a of the trysend loops
  ret,         \* where platform_poll returns to
  bound,       \* g_bound
  rdy,         \* g_reply_ready
  got,         \* the request whose answer is in g_reply_buf
  n,           \* requests sent
  out,         \* how the last request ended
  givenUp,     \* history: requests left without having taken a reply
  waited,      \* polling periods since the release began
  drv,         \* slices with DRIVER_OK in the resource table
  toR, toA,    \* requests in the vring to the R8, answers in the one back
  ns,          \* a name service announcement is in the vring to the A55
  fw,          \* firmware: off, waiting for DRIVER_OK, up, or stale
  work,        \* it has been rung and looks into its vring
  owe,         \* it has put something in a vring and not rung yet
  left,        \* how the last process ended, those aside that failed
  runs, kills

sesVars   == <<bound, rdy, got, n, givenUp>>
modeVars  == <<mode, busy, saved, phase, k>>
callVars  == <<tries, ret, out, waited>>
ringVars  == <<toR, toA, ns>>
fwVars    == <<fw, work, owe>>
countVars == <<left, runs, kills>>
vars == <<rprocVars, sesVars, modeVars, callVars, ringVars, drv, fwVars, countVars>>

Req == 1..MaxReq
Bye == MaxReq + 1
Oldest(S) == CHOOSE x \in S : \A y \in S : x <= y
Newest(S) == CHOOSE x \in S : \A y \in S : x >= y

(* RzRproc's variables but pc, and the two groups that come and go with it.*)
stillRproc == <<fs, devVars, setVars, sync, irq, bellVars>>

(* A daemon's trysend loop ends on force_stop, the others' do not.         *)
StopsOnSignal == mode \in {"snsjson", "uartd", "pwmd"}

-----------------------------------------------------------------------------
(* Processes                                                               *)

Gone(how) ==
  /\ RprocGone
  /\ mode' = "none" /\ busy' = FALSE /\ saved' = FALSE /\ phase' = "none" /\ k' = 0
  /\ tries' = 0 /\ ret' = "off" /\ out' = "none" /\ waited' = 0
  /\ bound' = FALSE /\ rdy' = FALSE /\ got' = 0 /\ n' = 0 /\ givenUp' = 0
  /\ left' = IF how = "failed" THEN left ELSE how

Init ==
  /\ RprocInit
  /\ mode = "none" /\ busy = FALSE /\ saved = FALSE /\ phase = "none" /\ k = 0
  /\ tries = 0 /\ ret = "off" /\ out = "none" /\ waited = 0
  /\ bound = FALSE /\ rdy = FALSE /\ got = 0 /\ n = 0 /\ givenUp = 0
  /\ drv = {}
  /\ toR = {} /\ toA = {} /\ ns = FALSE
  /\ fw = "off" /\ work = FALSE /\ owe = FALSE
  /\ left = "none" /\ runs = 0 /\ kills = 0

FirstPhase(m) ==
  CASE m = "jitter" -> "reset"
    [] m = "bench"  -> "probe"
    [] OTHER        -> "ask"

(* main up to platform_init: arguments, environment, signals, the slot of  *)
(* the poller.                                                             *)
Start(m, b) ==
  /\ pc = "off"
  /\ runs < MaxRuns
  /\ pc' = "init"
  /\ runs' = runs + 1
  /\ mode' = m
  /\ busy' = b
  /\ saved' = b
  /\ phase' = FirstPhase(m)
  /\ UNCHANGED <<cont, stillRproc, k, sesVars, callVars, ringVars, drv, fwVars, left, kills>>

(* release_channel clears DRIVER_OK in the slice of the channel in use.    *)
(* Fault: in the first slice, as platform_clear_driver_ok does.            *)
Released_FirstSlice == drv \ {0}
Released == drv \ {slice}

(* on_signal, in any thread and at any moment; a second signal changes     *)
(* nothing more.                                                           *)
Signal ==
  /\ pc # "off" /\ ~fs
  /\ fs' = TRUE
  /\ drv' = Released
  /\ UNCHANGED <<pc, cont, devVars, setVars, sync, irq, bellVars,
                 sesVars, modeVars, callVars, ringVars, fwVars, countVars>>

(* SIGKILL, from the user or from an outer timeout.                        *)
Kill ==
  /\ pc # "off"
  /\ kills < MaxKills /\ runs < MaxRuns
  /\ kills' = kills + 1
  /\ Gone("killed")
  /\ UNCHANGED <<bellVars, ringVars, drv, fwVars, runs>>

(* The handler runs although the registers, or the mailbox it reads next,  *)
(* are not mapped.                                                         *)
Crash ==
  /\ irq = "idle" /\ irqOn /\ bellA
  /\ ~Mapped
  /\ IF fd["mbx"] = 1 THEN ClearDoorbell ELSE UNCHANGED bellVars
  /\ Gone("crashed")
  /\ UNCHANGED <<ringVars, drv, fwVars, runs, kills>>

(* platform_init or the vdev failed and main returned 1.                   *)
Failed ==
  /\ pc = "failed"
  /\ Gone("failed")
  /\ UNCHANGED <<bellVars, ringVars, drv, fwVars, runs, kills>>
-----------------------------------------------------------------------------
(* The platform layer                                                      *)

(* platform_create_rpmsg_vdev: the vrings are reset and DRIVER_OK is set.  *)
(* A firmware that serves an earlier session does not notice.  Without a   *)
(* virtio device the error path asserts, later failures return NULL.       *)
CreateVdev ==
  /\ pc = "vdev"
  /\ toR' = {} /\ toA' = {} /\ ns' = FALSE
  /\ drv' = drv \cup {slice}
  /\ fw' = IF fw = "up" THEN "stale" ELSE fw
  /\ work' = FALSE
  /\ pc' = "bind"
  /\ UNCHANGED <<cont, stillRproc, sesVars, modeVars, tries, ret, out, waited,
                 owe, countVars>>

VdevFails ==
  /\ pc = "vdev"
  /\ drv' = drv \ {slice}
  /\ \/ /\ pc' = "remove"
        /\ UNCHANGED <<cont, stillRproc, sesVars, modeVars, callVars, left>>
     \/ Gone("failed") /\ UNCHANGED bellVars
  /\ UNCHANGED <<ringVars, fwVars, runs, kills>>

(* remoteproc_get_notification: msg_cb keeps the newest answer, ns_bind_cb *)
(* binds, and returning buffers notifies the R8.                           *)
Drain(next) ==
  /\ toA' = {} /\ ns' = FALSE
  /\ got' = IF toA = {} THEN got ELSE Newest(toA)
  /\ rdy' = (rdy \/ toA # {})
  /\ bound' = (bound \/ ns)
  /\ IF toA = {} /\ ~ns THEN pc' = next /\ UNCHANGED cont
                        ELSE pc' = "ring" /\ cont' = next

(* Fault: platform_poll does not look at force_stop.                       *)
Stopped_Never == FALSE
Stopped == fs

(* platform_poll: returns on force_stop and when it took the flag ...      *)
Poll ==
  /\ pc = "poll"
  /\ \/ /\ Stopped
        /\ pc' = ret
        /\ UNCHANGED <<cont, sync, toA, ns, got, rdy, bound>>
     \/ /\ ~Stopped /\ ~sync
        /\ sync' = TRUE
        /\ Drain(ret)
     \/ /\ ~Stopped /\ sync
        /\ pc' = "cwait"
        /\ UNCHANGED <<cont, sync, toA, ns, got, rdy, bound>>
  /\ UNCHANGED <<fs, devVars, setVars, irq, bellVars, n, givenUp, modeVars,
                 callVars, toR, drv, fwVars, countVars>>

(* Fault: the flag is taken after the wait, too.                           *)
TimedOut_TakesFlag ==
  /\ pc = "cwait"
  /\ Drain("poll")
  /\ sync' = TRUE
  /\ UNCHANGED <<fs, devVars, setVars, irq, bellVars, n, givenUp, modeVars, callVars, toR, drv,
                 fwVars, countVars>>

(* ... and looks into the vring, but does not return, when its wait of     *)
(* 1 ms times out.                                                         *)
TimedOut ==
  /\ pc = "cwait"
  /\ Drain("poll")
  /\ UNCHANGED <<stillRproc, n, givenUp, modeVars, callVars, toR, drv, fwVars, countVars>>

(* Every loop around platform_poll returns into the loop.                  *)
CallPoll(r) == pc' = "poll" /\ ret' = r

-----------------------------------------------------------------------------
(* main: binding and the requests                                          *)

(* while (!g_bound && !force_stop); the deadline is looked at only when    *)
(* platform_poll has returned.                                             *)
Bind ==
  /\ \/ /\ pc = "bind"
        /\ \/ fs /\ pc' = "cleanup" /\ UNCHANGED ret
           \/ ~fs /\ bound /\ pc' = "top" /\ ret' = "off"
           \/ ~fs /\ ~bound /\ CallPoll("bindT")
     \/ /\ pc = "bindT"
        /\ pc' \in {"cleanup", "bind"}
        /\ UNCHANGED ret
  /\ UNCHANGED <<cont, stillRproc, sesVars, modeVars, tries, out, waited,
                 ringVars, drv, fwVars, countVars>>

Room == Cardinality(toR) < NBuf

Finish(o) ==
  /\ pc' = "done"
  /\ out' = o
  /\ ret' = "off"
  /\ tries' = 0

(* The trysend loop: a buffer, or a poll and another try.  jitter tries    *)
(* once; the probe of bench uses rpmsg_send, which waits for a buffer.     *)
Trysend ==
  /\ pc = "send"
  /\ \/ /\ StopsOnSignal /\ fs
        /\ Finish("stop")
        /\ UNCHANGED <<cont, n, toR>>
     \/ /\ ~(StopsOnSignal /\ fs) /\ tries < Retry /\ Room
        /\ n' = n + 1
        /\ toR' = toR \cup {n + 1}
        /\ pc' = "ring" /\ cont' = "sent"
        /\ tries' = 0
        /\ UNCHANGED <<ret, out>>
     \/ /\ ~(StopsOnSignal /\ fs) /\ tries < Retry /\ ~Room
        /\ mode # "jitter" /\ phase # "probe"
        /\ tries' = tries + 1
        /\ CallPoll("send")
        /\ UNCHANGED <<cont, out, n, toR>>
     \/ /\ ~(StopsOnSignal /\ fs)
        /\ tries = Retry \/ (mode = "jitter" /\ ~Room)
        /\ Finish("nobuf")
        /\ UNCHANGED <<cont, n, toR>>
  /\ UNCHANGED <<stillRproc, bound, rdy, got, givenUp, modeVars, waited, toA, ns, drv,
                 fwVars, countVars>>

(* Fault: the flag of the previous answer is left set.                     *)
ClearReady_Missing == UNCHANGED rdy
ClearReady == rdy' = FALSE

(* wait_reply begins, after the request was sent, by clearing the flag.    *)
Sent ==
  /\ pc = "sent"
  /\ \/ /\ StopsOnSignal /\ fs
        /\ Finish("stop")
        /\ givenUp' = givenUp + 1
        /\ UNCHANGED rdy
     \/ /\ ~(StopsOnSignal /\ fs)
        /\ ClearReady
        /\ ret' = "waited"
        /\ pc' = "wait"
        /\ UNCHANGED <<tries, out, givenUp>>
  /\ UNCHANGED <<cont, stillRproc, bound, got, n, modeVars, waited, ringVars, drv,
                 fwVars, countVars>>

(* Faults: a wait that was stopped counts as answered; g_poll is ignored.  *)
Answered_OrStopped == rdy \/ fs
Answered == rdy
BusyPolls_Never == FALSE
BusyPolls == busy

(* while (!g_reply_ready && !force_stop): by condition variable or, with   *)
(* g_poll, by looking into the vring.                                      *)
WaitReply ==
  /\ pc = "wait"
  /\ \/ /\ Answered
        /\ Finish("reply")
        /\ UNCHANGED <<cont, bound, rdy, got, givenUp, toA, ns>>
     \/ /\ ~Answered /\ fs
        /\ Finish("timeout")
        /\ givenUp' = givenUp + 1
        /\ UNCHANGED <<cont, bound, rdy, got, toA, ns>>
     \/ /\ ~Answered /\ ~fs /\ ~BusyPolls
        /\ CallPoll("waited")
        /\ UNCHANGED <<cont, tries, out, bound, rdy, got, givenUp, toA, ns>>
     \/ /\ ~Answered /\ ~fs /\ BusyPolls
        /\ Drain("waited")
        /\ UNCHANGED <<tries, ret, out, givenUp>>
  /\ UNCHANGED <<stillRproc, n, modeVars, waited, toR, drv, fwVars, countVars>>

(* The deadline counts even when the answer has just been taken.           *)
CheckDeadline ==
  /\ pc = "waited"
  /\ \/ /\ Finish("timeout")
        /\ givenUp' = givenUp + 1
     \/ /\ pc' = "wait"
        /\ UNCHANGED <<tries, ret, out, givenUp>>
  /\ UNCHANGED <<cont, stillRproc, bound, rdy, got, n, modeVars, waited, ringVars, drv,
                 fwVars, countVars>>

-----------------------------------------------------------------------------
(* The modes.  What an answer says (its length, magic, version, status) is *)
(* nondeterministic: each check the code makes may fail.                   *)

Go(l, p, j) ==
  /\ pc' = l
  /\ phase' = p
  /\ k' = j
  /\ out' = "none"
Ask(p, j) == n < Budget[mode] /\ Go("send", p, j)
End == Go("shut", "end", 0)
Fails(p) == IF k + 1 >= MaxFail THEN End ELSE Go("top", p, k + 1)

(* The first query resets the statistics, then the window runs with or     *)
(* without load, then the statistics are queried; an echo of the load in   *)
(* place of the statistics is asked again.                                 *)
Jitter ==
  /\ mode = "jitter"
  /\ \/ pc = "top" /\ phase = "reset" /\ Ask("reset", 0) /\ UNCHANGED busy
     \/ pc = "done" /\ phase = "reset" /\ End /\ UNCHANGED busy
     \/ /\ pc = "done" /\ phase = "reset" /\ out = "reply"
        /\ Go("top", "load", 0)
        /\ busy' \in {busy, TRUE}
     \/ /\ pc = "top" /\ phase = "load" /\ ~fs /\ n + 1 < Budget[mode]
        /\ Go("send", "load", 0)
        /\ UNCHANGED busy
     \/ /\ pc = "done" /\ phase = "load"
        /\ Go("top", IF out = "nobuf" THEN "idle" ELSE "load", 0)
        /\ UNCHANGED busy
     \/ /\ pc = "top" /\ phase \in {"load", "idle"}
        /\ Go("top", "query", 0)
        /\ busy' = saved
     \/ pc = "top" /\ phase = "query" /\ Ask("query", k) /\ UNCHANGED busy
     \/ pc = "done" /\ phase = "query" /\ End /\ UNCHANGED busy
     \/ /\ pc = "done" /\ phase = "query" /\ out = "reply" /\ k < MaxMagic /\ n < Budget[mode]
        /\ Go("top", "query", k + 1)
        /\ UNCHANGED busy

(* Resident sampling: single timeouts are accepted, MaxFail in a row and   *)
(* any answer that is not a sample end it.                                 *)
SnsJson ==
  /\ mode = "snsjson"
  /\ \/ pc = "top" /\ fs /\ End
     \/ pc = "top" /\ ~fs /\ Ask("ask", k)
     \/ pc = "done" /\ out \in {"stop", "nobuf", "reply"} /\ End
     \/ pc = "done" /\ out = "timeout" /\ Fails("ask")
     \/ pc = "done" /\ out = "reply" /\ Go("top", "ask", 0)
  /\ UNCHANGED busy

Sns ==
  /\ mode = "sns"
  /\ \/ pc = "top" /\ Ask("ask", k)
     \/ pc = "done" /\ End
     \/ pc = "done" /\ out = "reply" /\ k + 1 < Rounds /\ Go("top", "ask", k + 1)
  /\ UNCHANGED busy

(* Commands from stdin, or a query when idle; end of file ends it.  A busy *)
(* transmitter is tried once more, and a failure of that is not counted.   *)
Uartd ==
  /\ mode = "uartd"
  /\ \/ pc = "top" /\ End
     \/ pc = "top" /\ ~fs /\ \E p \in {"cmd", "query"} : Ask(p, k)
     \/ pc = "done" /\ phase # "again" /\ Fails("ask")
     \/ pc = "done" /\ phase = "again" /\ Go("top", "ask", 0)
     \/ pc = "done" /\ out = "reply" /\ Go("top", "ask", 0)
     \/ pc = "done" /\ out = "reply" /\ phase = "cmd" /\ Ask("again", 0)
  /\ UNCHANGED busy

Pwmd ==
  /\ mode = "pwmd"
  /\ \/ pc = "top" /\ End
     \/ pc = "top" /\ ~fs /\ Ask("ask", k)
     \/ pc = "done" /\ out = "stop" /\ End
     \/ pc = "done" /\ out # "stop" /\ Fails("ask")
     \/ pc = "done" /\ out = "reply" /\ Go("top", "ask", 0)
  /\ UNCHANGED busy

Pwm ==
  /\ mode = "pwm"
  /\ \/ pc = "top" /\ Ask("ask", 0)
     \/ pc = "done" /\ End
  /\ UNCHANGED busy

(* The probe goes up to the first size that fails.                         *)
BenchProbe ==
  /\ mode = "bench" /\ phase = "probe"
  /\ \/ pc = "top" /\ ~fs /\ k < Rounds /\ Ask("probe", k)
     \/ pc = "top" /\ ~fs /\ k = Rounds /\ Go("top", "round", 0)
     \/ pc = "top" /\ fs /\ End
     \/ pc = "done" /\ out = "reply" /\ Go("top", "probe", k + 1)
     \/ pc = "done" /\ (IF fs THEN End ELSE Go("top", "round", 0))
  /\ UNCHANGED busy

(* The rounds are all run, or end early when they stall.                   *)
BenchRounds ==
  /\ mode = "bench" /\ phase = "round"
  /\ \/ pc = "top" /\ ~fs /\ k < Rounds /\ Ask("round", k)
     \/ pc = "top" /\ (fs \/ k = Rounds) /\ End
     \/ pc = "done" /\ Go("top", "round", k + 1)
     \/ pc = "done" /\ out = "reply" /\ End
  /\ UNCHANGED busy

Mode ==
  /\ \/ Jitter \/ SnsJson \/ Sns \/ Uartd \/ Pwmd \/ Pwm \/ BenchProbe \/ BenchRounds
  /\ UNCHANGED <<cont, stillRproc, sesVars, mode, saved, tries, ret, waited,
                 ringVars, drv, fwVars, countVars>>

-----------------------------------------------------------------------------
(* main: the end                                                           *)

(* shutdown: tell the firmware, if there is a buffer.                      *)
Shutdown ==
  /\ pc = "shut"
  /\ \/ /\ tries < Retry /\ Room
        /\ toR' = toR \cup {Bye}
        /\ pc' = "ring" /\ cont' = "cleanup"
        /\ tries' = 0
        /\ UNCHANGED ret
     \/ /\ tries < Retry /\ ~Room
        /\ tries' = tries + 1
        /\ CallPoll("shut")
        /\ UNCHANGED <<cont, toR>>
     \/ /\ tries = Retry
        /\ pc' = "cleanup"
        /\ tries' = 0
        /\ UNCHANGED <<cont, ret, toR>>
  /\ UNCHANGED <<stillRproc, sesVars, modeVars, out, waited, toA, ns, drv,
                 fwVars, countVars>>

(* release_channel, and with it the session ends.                          *)
release_channel ==
  /\ pc = "cleanup"
  /\ drv' = Released
  /\ bound' = FALSE /\ rdy' = FALSE /\ got' = 0 /\ n' = 0 /\ givenUp' = 0
  /\ phase' = "none" /\ k' = 0 /\ ret' = "off"
  /\ pc' = "release"
  /\ UNCHANGED <<cont, stillRproc, mode, busy, saved, tries, out, waited, ringVars, fwVars, countVars>>

(* One polling period of the firmware passes: whatever it and the          *)
(* interrupt thread had to do is done within it.                           *)
Due == \/ fw = "wait" /\ 1 \in drv
       \/ fw \in {"up", "stale"} /\ 1 \notin drv
       \/ owe
       \/ irqOn /\ bellA
       \/ irq = "signal"

ReleaseTick ==
  /\ pc = "release"
  /\ waited < ReleaseWait
  /\ waited >= 1 => ~Due
  /\ waited' = waited + 1
  /\ UNCHANGED <<rprocVars, sesVars, modeVars, tries, ret, out, ringVars,
                 drv, fwVars, countVars>>

(* Fault: main ends without waiting.                                       *)
WaitedEnough_AtOnce == TRUE
WaitedEnough == waited = ReleaseWait

Exit ==
  /\ pc = "release"
  /\ WaitedEnough
  /\ Gone("clean")
  /\ UNCHANGED <<bellVars, ringVars, drv, fwVars, runs, kills>>

-----------------------------------------------------------------------------
(* The firmware and the board (external)                                   *)

fwFrame == UNCHANGED <<sesVars, modeVars, callVars, countVars>>

(* It looks at DRIVER_OK of channel 1 every 200 ms: announces itself when  *)
(* it appears, waits again when it is gone.                                *)
FwPoll ==
  /\ ~owe
  /\ \/ fw = "wait" /\ 1 \in drv /\ fw' = "up" /\ ns' = TRUE /\ owe' = TRUE
     \/ fw \in {"up", "stale"} /\ 1 \notin drv /\ fw' = "wait" /\ UNCHANGED <<ns, owe>>
  /\ work' = FALSE
  /\ fwFrame
  /\ UNCHANGED <<rprocVars, toR, toA, drv>>

FwTake ==
  /\ fw # "off" /\ bellR
  /\ bellR' = FALSE
  /\ work' = (fw = "up")
  /\ fwFrame
  /\ UNCHANGED <<pc, cont, fs, devVars, setVars, sync, irq, bellA,
                 ringVars, drv, fw, owe>>

(* It takes one message, and answers a request, or does not.               *)
FwServe ==
  /\ fw = "up" /\ work
  /\ \/ /\ toR # {}
        /\ toR' = toR \ {Oldest(toR)}
        /\ toA' \in {toA, toA \cup ({Oldest(toR)} \ {Bye})}
        /\ owe' = TRUE
        /\ UNCHANGED work
     \/ toR = {} /\ work' = FALSE /\ UNCHANGED <<toR, toA, owe>>
  /\ fwFrame
  /\ UNCHANGED <<rprocVars, ns, drv, fw>>

FwRing ==
  /\ owe /\ ~bellA
  /\ bellA' = TRUE
  /\ owe' = FALSE
  /\ fwFrame
  /\ UNCHANGED <<pc, cont, fs, devVars, setVars, sync, irq, bellR,
                 ringVars, drv, fw, work>>

FwDie ==
  /\ fw # "off"
  /\ fw' = "off" /\ work' = FALSE /\ owe' = FALSE
  /\ fwFrame
  /\ UNCHANGED <<rprocVars, ringVars, drv>>

(* start-cr8.sh clears the doorbell to the R8 and the status bytes, also   *)
(* under a client that has not noticed.                                    *)
FwBoot ==
  /\ fw = "off"
  /\ fw' = "wait"
  /\ bellR' = FALSE
  /\ drv' = {}
  /\ UNCHANGED <<pc, cont, fs, devVars, setVars, sync, irq, bellA,
                 sesVars, modeVars, callVars, ringVars, work, owe, countVars>>

-----------------------------------------------------------------------------
Rproc ==
  /\ \/ InitUio \/ InitIrq \/ InitMem
     \/ \E ok \in {TRUE, fw # "off"} : MapTable(ok)
     \/ Err1 \/ RemoveMem \/ RemoveIrq \/ RemoveUio
     \/ Ring
  /\ UNCHANGED <<sesVars, modeVars, callVars, ringVars, drv, fwVars, countVars>>

Main == \/ Rproc \/ CreateVdev \/ VdevFails \/ Bind \/ Poll \/ Trysend \/ Sent
        \/ WaitReply \/ CheckDeadline \/ Mode \/ Shutdown \/ release_channel
        \/ ReleaseTick \/ Exit \/ Failed

IrqThread ==
  \/ /\ IrqTake \/ IrqSignal
     /\ UNCHANGED <<sesVars, modeVars, callVars, ringVars, drv, fwVars, countVars>>
  \/ Crash

Firmware == FwPoll \/ FwTake \/ FwServe \/ FwRing

Next ==
  \/ \E c \in IF runs = 0 THEN FirstCalls ELSE LaterCalls : Start(c[1], c[2])
  \/ Main \/ TimedOut \/ IrqThread
  \/ Signal \/ Kill
  \/ Firmware \/ FwDie \/ FwBoot

Spec == Init /\ [][Next]_vars

(* A timed wait ends; a deadline passes once and for all, so a loop that   *)
(* looks at the clock again and again finds it passed.                     *)
MainRuns    == Main /\ (pc # "top" \/ fs)
BindGivesUp == Bind /\ pc = "bindT" /\ pc' = "cleanup"
WaitGivesUp == CheckDeadline /\ pc' = "done"

Fairness ==
  /\ WF_vars(MainRuns) /\ WF_vars(TimedOut) /\ WF_vars(IrqThread)
  /\ SF_vars(BindGivesUp) /\ SF_vars(WaitGivesUp)
  /\ WF_vars(FwPoll) /\ WF_vars(FwTake) /\ WF_vars(FwServe) /\ WF_vars(FwRing)

FairSpec == Spec /\ Fairness

-----------------------------------------------------------------------------
(* Correctness                                                             *)

InitSteps  == {"init", "irq", "mem", "map", "err1", "remove", "rmIrq", "rmUio", "failed", "vdev"}
Session    == {"bind", "bindT", "top", "send", "sent", "wait", "waited", "done",
               "poll", "cwait", "ring", "shut", "cleanup"}
PollReturn == {"bindT", "send", "waited", "shut"}
RingReturn == PollReturn \cup {"poll", "sent", "cleanup"}
Phases     == {"none", "reset", "load", "idle", "query", "ask", "cmd", "again",
               "probe", "round", "end"}

(* Types.  A device is closed once more than it was opened only where err1 *)
(* of rz_proc_init closes the mailbox and rz_proc_remove does so again.    *)
ControlTypeOK ==
  /\ pc \in {"off", "release"} \cup InitSteps \cup Session
  /\ cont \in RingReturn \cup {"off"} /\ ret \in PollReturn \cup {"off"}
  /\ mode \in Modes \cup {"none"} /\ phase \in Phases
  /\ out \in {"none", "reply", "timeout", "nobuf", "stop"}
  /\ left \in {"none", "clean", "killed", "crashed"}
  /\ fs \in BOOLEAN /\ busy \in BOOLEAN /\ saved \in BOOLEAN
  /\ bound \in BOOLEAN /\ rdy \in BOOLEAN
DeviceTypeOK ==
  /\ inst \in {1, 2} /\ slice \in {0, 1, NoSlice}
  /\ fd \in [Device -> {-1, 0, 1}] /\ known \in SUBSET Device
  /\ irq \in {"idle", "signal"} /\ irqOn \in BOOLEAN /\ sync \in BOOLEAN
  /\ initialized \in BOOLEAN /\ tbl \in BOOLEAN
NumberTypeOK ==
  /\ k \in Nat /\ tries \in 0..Retry /\ waited \in 0..ReleaseWait
  /\ got \in 0..MaxReq /\ n \in 0..MaxReq /\ givenUp \in 0..MaxReq
  /\ runs \in 0..MaxRuns /\ kills \in 0..MaxKills
SharedTypeOK ==
  /\ drv \in SUBSET {0, 1} /\ toR \in SUBSET (Req \cup {Bye}) /\ toA \in SUBSET Req
  /\ fw \in {"off", "wait", "up", "stale"}
  /\ bellA \in BOOLEAN /\ bellR \in BOOLEAN /\ ns \in BOOLEAN
  /\ work \in BOOLEAN /\ owe \in BOOLEAN
TypeOK == ControlTypeOK /\ DeviceTypeOK /\ NumberTypeOK /\ SharedTypeOK

(* In a session every device is open exactly once, whichever of the two    *)
(* instances opened it.  A main that gives up before has closed the memory *)
(* devices as often as it opened them.  Of the uio devices it leaves those *)
(* open that were opened when another one could not be, and only the       *)
(* mailbox can be closed once too often, by err1 and by rz_proc_remove     *)
(* again (rz_rproc.c:445-532).                                             *)
DevicesBalanced ==
  /\ pc \in Session \cup {"vdev"} => known = Device /\ \A d \in Device : fd[d] = 1
  /\ pc = "failed" =>
       /\ known = {} /\ \A d \in Mem : fd[d] = 0
       /\ \A d \in Uio \ {"mbx"} : fd[d] \in {0, 1}

(* wait_reply clears g_reply_ready only after the request is sent, and     *)
(* takes any answer for its own (main.c:374).  An answer can be older than *)
(* the request, but by no more requests than the session has given up.     *)
AnswerSkewBounded == pc = "done" /\ out = "reply" => n - got <= givenUp

(* The 600 ms at the end of main (main.c:1524-1550) are long enough: when  *)
(* a client has ended in order, the firmware waits for the next one, no    *)
(* DRIVER_OK is left and no doorbell that could hit the next one early.    *)
CleanExitLeavesNoTrace ==
  pc = "off" /\ left = "clean" => fw \in {"off", "wait"} /\ drv = {} /\ ~bellA

(* A request in the vring of a firmware that is up always has a doorbell   *)
(* or a firmware at work on its way, although rz_proc_notify may give up   *)
(* without ringing and nobody looks at its result (rz_rproc.c:577-584).    *)
NoRequestForgotten ==
  pc \in Session \ {"ring"} /\ fw = "up" /\ toR # {} => work \/ bellR

(* The handler is enabled before the mailbox is mapped (rz_rproc.c:480 and *)
(* 501) and disabled after it is closed (523 and 528).  A doorbell in that *)
(* time ends the process.  It takes a process before that was killed: one  *)
(* that ended in order leaves none, also when others failed since.         *)
CrashOnlyAfterKill ==
  [][left' = "crashed" /\ left # "crashed" => left = "killed"]_vars

(* Where the main thread is in main, whichever call it is in.              *)
Frame == LET at == IF pc = "ring" THEN cont ELSE pc
         IN IF at \in {"poll", "cwait"} THEN ret ELSE at
Waiting == Frame \in {"sent", "wait", "waited"}

(* The requests of the modes, with what is below them, are a session of    *)
(* RzSession: an answer accepted arrived during the wait, and in order.    *)
Abs == INSTANCE RzSession WITH
         waiting <- Waiting, fresh <- rdy /\ Frame \in {"wait", "waited"},
         asked <- n, seen <- got, missed <- givenUp
RefinesSession == Abs!Spec

(* SIGINT or SIGTERM ends the process from wherever it is, whatever the    *)
(* firmware does: every loop looks at force_stop (main.c:336, 1389, 1503). *)
(* The exception is rpmsg_send, which the probe of bench still uses.       *)
SignalEnds == fs ~> (pc = "off" \/ (pc = "send" /\ phase = "probe"))

(* With g_poll, wait_reply ends without a doorbell or a signal             *)
(* (main.c:374-384).                                                       *)
BusyWaitEnds == (pc = "wait" /\ busy) ~> pc \in {"done", "off"}

(* platform_poll returns once the interrupt handler has taken a doorbell,  *)
(* whether it finds the main thread asleep or about to be                  *)
(* (platform_info.c:422, rz_rproc.c:356-387).                              *)
FlagEndsPoll == (pc = "cwait" /\ ~sync) ~> pc \notin {"poll", "cwait"}

(* A client whose DRIVER_OK meets a waiting firmware gets to its mode or   *)
(* gives up, unless the firmware dies (main.c:691-710).                    *)
BindEnds ==
  (pc = "bind" /\ fw = "wait" /\ 1 \in drv)
  ~> (fw = "off" \/ pc \in {"top", "cleanup", "off"})
=============================================================================

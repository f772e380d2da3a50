--------------------------- MODULE CoreLifecycle ---------------------------
(***************************************************************************)
(* Starting, stopping and replacing the firmware of the two CR8 cores and  *)
(* of the CM33 with the scripts of tools/.                                 *)
(*                                                                         *)
(* The CR8 cluster has no reset of a single core.  To stop a core while    *)
(* its sibling runs only halts it, and to start it then makes it go on     *)
(* from a stale program counter inside the new image: it runs wild.  When  *)
(* both are stopped the cluster is reset and both can be started.          *)
(*                                                                         *)
(* The scripts decide by what Linux can see, the remoteproc states and the *)
(* black boxes in DDR.  One script runs at a time; the cores and the CM33  *)
(* boot, work and die while it waits.  The image has the per-core layout   *)
(* of DDR, and a firmware that was started reaches r8_blackbox_init, or    *)
(* dies into the box, within the three seconds the scripts wait.           *)
(***************************************************************************)
EXTENDS Integers

CONSTANTS
  Split,      \* the DTB splits the window that a stop of the CM33 wipes
  TRIES,      \* attempts of a start script
  MayRefuse   \* remoteproc may fail to stop a core

Core == 0 .. 1
Other(c) == 1 - c

ASSUME LifecycleAssumption ==
  Split \in BOOLEAN /\ MayRefuse \in BOOLEAN /\ TRIES \in Nat \ {0}

VARIABLES
  rp,         \* /sys/class/remoteproc state of each R8 core
  cpu,        \* what the core really does
  box,        \* its black box: magic and fault type
  cm33,       \* remoteproc state of the CM33
  cm33_fault, \* fault word of the CM33's box, where start-cr8.sh looks too
  script,     \* the script that runs
  verdict,    \* core the last attempt reported as running, or -1
  bothRan     \* history: both boxes were there when the script began

cores == <<rp, cpu, box>>
vars  == <<rp, cpu, box, cm33, cm33_fault, script, verdict, bothRan>>

NoFault == [magic |-> FALSE, fault |-> FALSE]
Idle    == [name |-> "none", pc |-> "idle", core |-> 0, tries |-> 1, refused |-> FALSE]

-----------------------------------------------------------------------------
(* remoteproc and the hardware.                                            *)

(* echo stop: the last core to stop takes the cluster down.                *)
Halt(c) ==
  /\ rp' = [rp EXCEPT ![c] = "offline"]
  /\ cpu' = IF rp[Other(c)] = "offline" THEN [d \in Core |-> "cold"]
            ELSE [cpu EXCEPT ![c] = "halted"]

(* echo stop as a script does it, without a look at the outcome.           *)
Stop(c, next) ==
  \/ /\ rp[c] = "offline"
     /\ script' = next
     /\ UNCHANGED <<rp, cpu>>
  \/ /\ rp[c] = "running"
     /\ Halt(c)
     /\ script' = next
  \/ /\ rp[c] = "running" /\ MayRefuse
     /\ script' = [next EXCEPT !.refused = TRUE]
     /\ UNCHANGED <<rp, cpu>>

(* echo start.                                                             *)
Launch(c) ==
  /\ rp' = [rp EXCEPT ![c] = "running"]
  /\ cpu' = [cpu EXCEPT ![c] = IF cpu[c] = "halted" THEN "wild" ELSE "boot"]

(* r8_blackbox_init.                                                       *)
BootDone(c) ==
  /\ cpu[c] = "boot"
  /\ cpu' = [cpu EXCEPT ![c] = "up"]
  /\ box' = [box EXCEPT ![c] = [magic |-> TRUE, fault |-> FALSE]]
  /\ UNCHANGED <<rp, cm33, cm33_fault, script, verdict, bothRan>>

(* A fault, at start-up, at work or on the wild, is recorded in the box.   *)
Die(c) ==
  /\ cpu[c] \in {"boot", "up", "wild"}
  /\ cpu' = [cpu EXCEPT ![c] = "dead"]
  /\ box' = [box EXCEPT ![c] = [magic |-> TRUE, fault |-> TRUE]]
  /\ UNCHANGED <<rp, cm33, cm33_fault, script, verdict, bothRan>>

CM33Dies ==
  /\ cm33 = "running"
  /\ cm33_fault' = TRUE
  /\ UNCHANGED <<cores, cm33, script, verdict, bothRan>>

-----------------------------------------------------------------------------
(* start-cr8.sh and start-cr8-core1.sh.                                    *)

(* Fault: the guard asks for the remoteproc state only.                    *)
Refused_StateOnly(c) == rp[Other(c)] = "running" /\ rp[c] # "offline"

(* The guard: the core must not be started alone, as far as Linux can see. *)
Refused(c) ==
  /\ rp[Other(c)] = "running"
  /\ rp[c] # "offline" \/ box[c].magic

(* Fault: the black boxes are not looked at.                               *)
bb_ok_Always(c) == TRUE

(* No fault recorded; start-cr8.sh looks at the place of the shared layout *)
(* as well, which belongs to the CM33.                                     *)
bb_ok(c) == ~box[c].fault /\ (c = 0 => ~cm33_fault)

(* Left when the script has done with its core: the pair comes next.       *)
Done == IF script.name \in {"pair", "redeploy"} /\ script.core = 0
        THEN [script EXCEPT !.pc = "stop", !.core = 1, !.tries = 1]
        ELSE Idle

(* Fault: the retries are not counted.                                     *)
Failed_Uncounted == [script EXCEPT !.pc = "stop"]

(* Fault: there is no last attempt.                                        *)
Failed_Endless == [script EXCEPT !.pc = "stop", !.tries = script.tries + 1]

(* The attempt failed: another one, up to TRIES.                           *)
Failed == IF script.tries < TRIES
          THEN [script EXCEPT !.pc = "stop", !.tries = script.tries + 1]
          ELSE Done

Guard ==
  /\ script.pc = "guard"
  /\ script' = IF Refused(script.core) THEN Idle ELSE [script EXCEPT !.pc = "stop"]
  /\ UNCHANGED <<cores, cm33, cm33_fault, verdict, bothRan>>

(* start_once: stop the core first if it runs, then wait for offline.      *)
StopFirst ==
  /\ script.pc = "stop"
  /\ Stop(script.core, [script EXCEPT !.pc = "offline"])
  /\ verdict' = -1
  /\ UNCHANGED <<box, cm33, cm33_fault, bothRan>>

WontStop ==
  /\ script.pc = "offline" /\ rp[script.core] = "running"
  /\ script' = Failed
  /\ UNCHANGED <<cores, cm33, cm33_fault, verdict, bothRan>>

(* Doorbells and virtio status bytes are cleared, the firmware is named,   *)
(* and the core started; the image may turn out not to load.               *)
start_once ==
  /\ script.pc = "offline" /\ rp[script.core] = "offline"
  /\ \/ Launch(script.core)
     \/ UNCHANGED <<rp, cpu>>
  /\ script' = [script EXCEPT !.pc = "check"]
  /\ UNCHANGED <<box, cm33, cm33_fault, verdict, bothRan>>

(* Three seconds later.                                                    *)
Check ==
  /\ script.pc = "check"
  /\ cpu[script.core] # "boot"
  /\ IF rp[script.core] = "running" /\ bb_ok(script.core)
     THEN verdict' = script.core /\ script' = Done
     ELSE verdict' = -1 /\ script' = Failed
  /\ UNCHANGED <<cores, cm33, cm33_fault, bothRan>>

-----------------------------------------------------------------------------
(* deploy-cr8.sh, restart-r8-pair.sh and redeploy-cm33.sh.                 *)

(* The core is stopped and verified before start-cr8.sh runs its guard.    *)
DeployStop ==
  /\ script.pc = "deploy"
  /\ Stop(0, [script EXCEPT !.pc = "deployed"])
  /\ UNCHANGED <<box, cm33, cm33_fault, verdict, bothRan>>

DeployInstall ==
  /\ script.pc = "deployed"
  /\ script' = IF rp[0] = "offline" THEN [script EXCEPT !.pc = "guard"] ELSE Idle
  /\ UNCHANGED <<cores, cm33, cm33_fault, verdict, bothRan>>

(* Both are told to stop, nobody looks; then core 0 and core 1 start with  *)
(* FORCE=1, that is without the guard.                                     *)
PairStop1 ==
  /\ script.pc = "pair1"
  /\ Stop(1, [script EXCEPT !.pc = "pair0"])
  /\ UNCHANGED <<box, cm33, cm33_fault, verdict, bothRan>>

PairStop0 ==
  /\ script.pc = "pair0"
  /\ Stop(0, [script EXCEPT !.pc = "stop"])
  /\ UNCHANGED <<box, cm33, cm33_fault, verdict, bothRan>>

(* Fault: the window that a stop wipes is not split, whatever the scripts  *)
(* take it for.                                                            *)
CM33Stop_WholeWindow ==
  /\ script.pc = "cm33stop"
  /\ \/ /\ cm33 = "running"
        /\ cm33' = "offline"
        /\ cm33_fault' = FALSE
        /\ box' = [box EXCEPT ![0] = NoFault]
        /\ script' = [script EXCEPT !.pc = "cm33start"]
     \/ /\ cm33 = "offline"
        /\ script' = [script EXCEPT !.pc = "cm33start"]
        /\ UNCHANGED <<box, cm33, cm33_fault>>
     \/ /\ cm33 = "running" /\ MayRefuse
        /\ script' = Idle
        /\ UNCHANGED <<box, cm33, cm33_fault>>
  /\ UNCHANGED <<rp, cpu, verdict, bothRan>>

(* A stop wipes what the CM33 owns, its box included; without the split    *)
(* the box of core 0 lies in the same window.                              *)
CM33Stop ==
  /\ script.pc = "cm33stop"
  /\ \/ /\ cm33 = "running"
        /\ cm33' = "offline"
        /\ cm33_fault' = FALSE
        /\ box' = IF Split THEN box ELSE [box EXCEPT ![0] = NoFault]
        /\ script' = [script EXCEPT !.pc = "cm33start"]
     \/ /\ cm33 = "offline"
        /\ script' = [script EXCEPT !.pc = "cm33start"]
        /\ UNCHANGED <<box, cm33, cm33_fault>>
     \/ /\ cm33 = "running" /\ MayRefuse
        /\ script' = Idle
        /\ UNCHANGED <<box, cm33, cm33_fault>>
  /\ UNCHANGED <<rp, cpu, verdict, bothRan>>

(* start-cm33.sh, then cm33_bb_init clears the fault word; if the start    *)
(* fails the script ends before it looks at the R8s.                       *)
CM33Start ==
  /\ script.pc = "cm33start"
  /\ \/ /\ cm33' = "running"
        /\ cm33_fault' = FALSE
        /\ script' = [script EXCEPT !.pc = "verify"]
     \/ /\ cm33' = "running"      \* came up, but too late for the script
        /\ cm33_fault' = FALSE
        /\ script' = Idle
     \/ /\ script' = Idle
        /\ UNCHANGED <<cm33, cm33_fault>>
  /\ UNCHANGED <<cores, verdict, bothRan>>

(* Fault: a core that died is taken for one whose box was wiped.           *)
Verify_Faults ==
  /\ script.pc = "verify"
  /\ script' = IF \A c \in Core : box[c].magic /\ ~box[c].fault THEN Idle
               ELSE [script EXCEPT !.pc = "pair1"]
  /\ UNCHANGED <<cores, cm33, cm33_fault, verdict, bothRan>>

(* A box without its magic: the pair is rebuilt.                           *)
Verify ==
  /\ script.pc = "verify"
  /\ script' = IF \A c \in Core : box[c].magic THEN Idle
               ELSE [script EXCEPT !.pc = "pair1"]
  /\ UNCHANGED <<cores, cm33, cm33_fault, verdict, bothRan>>

-----------------------------------------------------------------------------
(* The operator calls a script when none runs.                             *)
Call(name, pc, c) ==
  /\ script.pc = "idle"
  /\ script' = [name |-> name, pc |-> pc, core |-> c, tries |-> 1, refused |-> FALSE]
  /\ verdict' = -1
  /\ bothRan' = (\A d \in Core : box[d].magic)
  /\ UNCHANGED <<cores, cm33, cm33_fault>>

CallStart == \E c \in Core : Call("start", "guard", c)
CallDeploy == Call("deploy", "deploy", 0)
CallPair == Call("pair", "pair1", 0)
CallRedeploy == Call("redeploy", "cm33stop", 0)

Init ==
  /\ rp = [c \in Core |-> "offline"]
  /\ cpu = [c \in Core |-> "cold"]
  /\ box = [c \in Core |-> NoFault]
  /\ cm33 \in {"offline", "running"}
  /\ cm33_fault \in BOOLEAN   \* cold DDR holds anything
  /\ script = Idle
  /\ verdict = -1
  /\ bothRan = FALSE

ScriptStep ==
  \/ Guard \/ StopFirst \/ WontStop \/ start_once \/ Check
  \/ DeployStop \/ DeployInstall
  \/ PairStop1 \/ PairStop0
  \/ CM33Stop \/ CM33Start \/ Verify

Boot == \E c \in Core : BootDone(c)

Next ==
  \/ ScriptStep \/ Boot
  \/ \E c \in Core : Die(c)
  \/ CM33Dies
  \/ CallStart \/ CallDeploy \/ CallPair \/ CallRedeploy

Spec == Init /\ [][Next]_vars

(* A script that runs goes on, and a core that boots gets somewhere.       *)
FairSpec == Spec /\ WF_vars(ScriptStep) /\ WF_vars(Boot)
-----------------------------------------------------------------------------
(* Properties.                                                             *)

Script == [name : {"none", "start", "deploy", "pair", "redeploy"},
           pc : {"idle", "guard", "stop", "offline", "check", "deploy", "deployed",
                 "pair1", "pair0", "cm33stop", "cm33start", "verify"},
           core : Core, tries : 1 .. TRIES, refused : BOOLEAN]

(* The type of the state.                                                  *)
TypeOK ==
  /\ rp \in [Core -> {"offline", "running"}]
  /\ cpu \in [Core -> {"cold", "boot", "up", "dead", "halted", "wild"}]
  /\ box \in [Core -> [magic : BOOLEAN, fault : BOOLEAN]]
  /\ cm33 \in {"offline", "running"}
  /\ cm33_fault \in BOOLEAN
  /\ script \in Script
  /\ verdict \in Core \cup {-1}
  /\ bothRan \in BOOLEAN

GoesWild(c) == cpu[c] # "wild" /\ cpu'[c] = "wild"

(* With the split DTB no script makes a core run wild with its first       *)
(* attempt, unless remoteproc failed to stop a core: what the guard sees   *)
(* of the two cores is enough to tell a halted core from a cold one.       *)
WildOnlyByRetry ==
  [][\A c \in Core : GoesWild(c) => script.tries > 1 \/ script.refused]_vars

(* A core that the first attempt reports as running runs the firmware that *)
(* was just started, from its first instruction, unless it has died since. *)
ReportedCoreBooted ==
  [][\A c \in Core :
       verdict' = c /\ verdict # c /\ script.tries = 1 /\ ~script.refused =>
         cpu[c] = "up"]_vars

(* redeploy-cm33.sh on the split DTB leaves the R8 cores alone once both   *)
(* have run, also when one of them has died since.                         *)
RedeploySparesTheR8s ==
  [][script.name = "redeploy" /\ bothRan => rp' = rp]_vars

(* A core and its box as CoreBox has them.                                 *)
Life(c) == IF cpu[c] \in {"cold", "halted"} THEN "off" ELSE cpu[c]

Box0 == INSTANCE CoreBox WITH
          life <- Life(0), magic <- box[0].magic, fault <- box[0].fault
Box1 == INSTANCE CoreBox WITH
          life <- Life(1), magic <- box[1].magic, fault <- box[1].fault

(* With the split DTB nothing that a script does to a core, to its sibling *)
(* or to the CM33 gets between a core and its box: the box each script     *)
(* looks at says what that core did (redeploy-cm33.sh, start-cr8.sh).      *)
RefinesCoreBoxes == Box0!Spec /\ Box1!Spec

(* Steps of the script that runs to its end, if every attempt but the last *)
(* of each core fails.                                                     *)
StepsLeft ==
  IF script.pc = "idle" THEN 0
  ELSE [check |-> 1, offline |-> 2, stop |-> 3, guard |-> 4, pair0 |-> 4,
        deployed |-> 5, pair1 |-> 5, deploy |-> 6, verify |-> 6, cm33start |-> 7,
        cm33stop |-> 8][script.pc]
       + 3 * (TRIES - script.tries)
       + (IF script.name \in {"pair", "redeploy"} /\ script.core = 0
          THEN 3 * TRIES ELSE 0)

AdvanceStep ==
  /\ StepsLeft' \in 0 .. 6 * TRIES + 5
  /\ script.pc # "idle" /\ script' # script => StepsLeft' < StepsLeft
  /\ StepsLeft' > StepsLeft => script.pc = "idle"

(* No script goes round in circles, whatever the cores do meanwhile, which *)
(* images fail to load and which stops are refused: every step takes it    *)
(* nearer to its end, a failed attempt costs one of TRIES, and the change  *)
(* to the second core of a pair happens once (start-cr8.sh, start_once and *)
(* its loop; redeploy-cm33.sh).                                            *)
ScriptsBounded == [][AdvanceStep]_vars

(* Every script comes to an end.                                           *)
ScriptsEnd == script.pc # "idle" ~> script.pc = "idle"

(* The start scripts detect and refuse to restart a core that has already  *)
(* run while its sibling is running (docs/10-second-r8-core.md:16-19).     *)
StartScriptsRefuseRestarts ==
  [][script.name = "start" => \A c \in Core : ~GoesWild(c)]_vars
=============================================================================

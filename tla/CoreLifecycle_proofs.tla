------------------------ MODULE CoreLifecycle_proofs ------------------------
(***************************************************************************)
(* Proofs about CoreLifecycle, for any number of attempts, with or without *)
(* stops that fail.  A black box that was once written keeps its magic,    *)
(* the one of core 0 as long as the DTB splits the window of the CM33;     *)
(* that is what makes the guard sound.  Theorems that need the split say   *)
(* so; the inductive invariant does not.                                   *)
(***************************************************************************)
EXTENDS CoreLifecycle, TLAPS

(* What remoteproc says of a core against what it does.                    *)
StateInv ==
  \A c \in Core :
    /\ rp[c] = "offline" <=> cpu[c] \in {"cold", "halted"}
    /\ rp[c] = "offline" /\ rp[Other(c)] = "offline" => cpu[c] = "cold"

(* Nobody but the core itself writes its box: without the split the CM33   *)
(* shares the one of core 0.                                               *)
Covered(c) == Split \/ c = 1

(* What the box says of a core against what it does.                       *)
BoxInv ==
  \A c \in Core :
    /\ Covered(c) /\ cpu[c] \in {"up", "dead", "halted", "wild"} => box[c].magic
    /\ Covered(c) /\ cpu[c] = "dead" => box[c].fault
    /\ cpu[c] = "boot" => script.pc = "check" /\ script.core = c

(* A start of core c now would not find it halted, nor halt it.            *)
Startable(c) ==
  /\ cpu[c] # "halted"
  /\ rp[c] = "running" => rp[Other(c)] = "offline"

Rebuild == script.name \in {"pair", "redeploy"}

(* What a first attempt relies on, at each step of a script that guards a  *)
(* core by its own box, or has stopped both cores itself.                  *)
First == script.tries = 1 /\ ~script.refused

Sound == Covered(script.core) \/ Rebuild

AttemptInv ==
  /\ Sound /\ script.pc = "stop" /\ First => Startable(script.core)
  /\ Sound /\ script.pc = "offline" /\ First => cpu[script.core] # "halted"
  /\ Sound /\ script.pc = "check" /\ First => cpu[script.core] # "wild"

(* While the pair is rebuilt: the second core is off until the first one   *)
(* has been started.                                                       *)
PairInv ==
  /\ script.pc = "idle" <=> script.name = "none"
  /\ Rebuild /\ script.pc \in {"stop", "offline", "check"} /\ script.core = 0
     /\ ~script.refused => rp[1] = "offline" /\ cpu[1] = "cold"
  /\ script.pc = "pair0" /\ ~script.refused => rp[1] = "offline"
  /\ script.pc \in {"pair1", "pair0", "cm33stop", "cm33start", "verify"} =>
       Rebuild /\ script.core = 0 /\ script.tries = 1
  /\ script.pc \in {"pair1", "cm33stop", "cm33start", "verify"} => ~script.refused
  /\ script.pc \in {"guard", "deploy", "deployed"} =>
       script.name \in {"start", "deploy"} /\ script.tries = 1
  /\ script.pc \in {"deploy", "deployed"} => script.core = 0

RedeployInv ==
  Split /\ script.name = "redeploy" /\ bothRan =>
    /\ script.pc \in {"cm33stop", "cm33start", "verify"}
    /\ \A c \in Core : box[c].magic

IInv == TypeOK /\ StateInv /\ BoxInv /\ AttemptInv /\ PairInv /\ RedeployInv

-----------------------------------------------------------------------------
(* There are two cores, each the other of the other.                       *)
LEMMA TwoCores ==
  /\ Core = {0, 1}
  /\ Other(0) = 1 /\ Other(1) = 0
  /\ \A c \in Core : Other(c) \in Core /\ Other(c) # c
BY DEF Core, Other

(* A script that has not begun is well-formed.                             *)
LEMMA IdleTyped == Idle \in Script
BY LifecycleAssumption, TwoCores DEF Idle, Script

(* So is a script that only goes on to another point.                      *)
LEMMA PcTyped ==
  ASSUME NEW s \in Script,
         NEW p \in {"stop", "offline", "check", "guard", "deploy", "deployed",
                 "pair1", "pair0", "cm33stop", "cm33start", "verify"}
  PROVE  [s EXCEPT !.pc = p] \in Script
BY DEF Script

(* So is a script that has done with its core.                             *)
LEMMA DoneTyped == script \in Script => Done \in Script
<1>1. 1 \in Core /\ 1 \in 1 .. TRIES
  BY LifecycleAssumption, TwoCores
<1>2. script \in Script =>
        [script EXCEPT !.pc = "stop", !.core = 1, !.tries = 1] \in Script
  BY <1>1 DEF Script
<1>3. QED
  BY <1>2, IdleTyped DEF Done

(* So is a script after a failed attempt: the count stays within TRIES.    *)
LEMMA FailedTyped == script \in Script => Failed \in Script
<1> SUFFICES ASSUME script \in Script PROVE Failed \in Script
  OBVIOUS
<1>1. CASE script.tries < TRIES
  <2>1. script.tries \in 1 .. TRIES
    BY DEF Script
  <2>2. script.tries + 1 \in 1 .. TRIES
    BY <1>1, <2>1, LifecycleAssumption
  <2>3. QED
    BY <1>1, <2>2 DEF Failed, Script
<1>2. CASE ~(script.tries < TRIES)
  BY <1>2, DoneTyped DEF Failed
<1>3. QED
  BY <1>1, <1>2

(* Whatever comes of telling a core to stop, the state keeps its types.    *)
LEMMA StopTyped ==
  ASSUME TypeOK, NEW c \in Core, NEW s \in Script, Stop(c, s)
  PROVE  /\ rp' \in [Core -> {"offline", "running"}]
         /\ cpu' \in [Core -> {"cold", "boot", "up", "dead", "halted", "wild"}]
         /\ script' \in Script
<1>1. CASE rp' = rp /\ cpu' = cpu /\ script' = s
  BY <1>1 DEF TypeOK
<1>2. CASE Halt(c) /\ script' = s
  BY <1>2 DEF TypeOK, Halt
<1>3. CASE rp' = rp /\ cpu' = cpu /\ script' = [s EXCEPT !.refused = TRUE]
  BY <1>3 DEF TypeOK, Script
<1>4. QED
  BY <1>1, <1>2, <1>3 DEF Stop

-----------------------------------------------------------------------------
(* The inductive invariant: the initial state, then one lemma per action.  *)

(* The initial state satisfies the inductive invariant.                    *)
LEMMA InitInv == Init => IInv
<1> SUFFICES ASSUME Init PROVE IInv
  OBVIOUS
<1>1. TypeOK
  <2>1. script \in Script
    BY IdleTyped DEF Init
  <2>2. QED
    BY <2>1 DEF Init, TypeOK, NoFault, Core
<1>2. StateInv
  BY DEF Init, StateInv
<1>3. BoxInv
  BY DEF Init, BoxInv
<1>4. AttemptInv /\ PairInv /\ RedeployInv
  BY DEF Init, Idle, AttemptInv, PairInv, RedeployInv, Rebuild
<1>5. QED
  BY <1>1, <1>2, <1>3, <1>4 DEF IInv

(* The guard lets a start script on only when its core is startable.       *)
LEMMA GuardKeeps == IInv /\ Guard => IInv'
<1> SUFFICES ASSUME IInv, Guard PROVE IInv'
  OBVIOUS
<1> USE DEF IInv, cores, Covered, Sound, Rebuild
<1>1. TypeOK'
  <2>1. script' \in Script
    BY PcTyped, IdleTyped DEF Guard, TypeOK
  <2>2. QED
    BY <2>1 DEF Guard, TypeOK
<1>2. StateInv'
  BY DEF Guard, StateInv
<1>3. BoxInv'
  BY DEF Guard, BoxInv
<1>4. AttemptInv'
  <2>1. script.core \in Core /\ script.pc = "guard" /\ ~Rebuild
    BY DEF Guard, TypeOK, Script, PairInv
  <2>2. CASE Refused(script.core)
    BY <2>2 DEF Guard, Idle, AttemptInv
  <2>3. CASE ~Refused(script.core)
    <3>1. /\ script'.pc = "stop" /\ script'.core = script.core
          /\ script'.name = script.name /\ rp' = rp /\ cpu' = cpu
      BY <2>3 DEF Guard, TypeOK, Script
    <3>2. Covered(script.core) => Startable(script.core)
      BY <2>1, <2>3, TwoCores
      DEF Refused, TypeOK, StateInv, BoxInv, Startable
    <3> QED BY <2>1, <3>1, <3>2 DEF AttemptInv, Startable
  <2>4. QED
    BY <2>2, <2>3
<1>5. PairInv'
  BY DEF Guard, Idle, PairInv, Rebuild
<1>6. RedeployInv'
  BY DEF Guard, Idle, RedeployInv
<1>7. QED
  BY <1>1, <1>2, <1>3, <1>4, <1>5, <1>6 DEF IInv

(* A core that is stopped while its sibling is off comes out of it cold.   *)
LEMMA StopFirstKeeps == IInv /\ StopFirst => IInv'
<1> SUFFICES ASSUME IInv, StopFirst PROVE IInv'
  OBVIOUS
<1> USE DEF IInv, cores, Covered, Sound, Rebuild
<1>1. TypeOK'
  <2>1. script.core \in Core
    BY TwoCores DEF TypeOK, Script
  <2>2. [script EXCEPT !.pc = "offline"] \in Script
    BY PcTyped DEF TypeOK
  <2>3. QED
    BY <2>1, <2>2, StopTyped DEF StopFirst, TypeOK
<1>2. StateInv'
  BY TwoCores DEF StopFirst, Stop, Halt, TypeOK, Script, StateInv
<1>3. BoxInv'
  BY DEF StopFirst, Stop, Halt, TypeOK, StateInv, BoxInv
<1>4. AttemptInv'
  <2> DEFINE next == [script EXCEPT !.pc = "offline"]
  <2>1. CASE rp[script.core] = "offline"
             /\ script' = next /\ UNCHANGED <<rp, cpu>>
    BY <2>1 DEF StopFirst, AttemptInv, First, Startable
  <2>2. CASE rp[script.core] = "running" /\ script' = next /\ Halt(script.core)
    BY <2>2 DEF Halt, StopFirst, TypeOK, Script, AttemptInv, First, Startable
  <2>3. CASE rp[script.core] = "running"
             /\ script' = [next EXCEPT !.refused = TRUE]
             /\ UNCHANGED <<rp, cpu>>
    BY <2>3 DEF TypeOK, Script, StateInv, AttemptInv
  <2>4. QED
    BY <2>1, <2>2, <2>3 DEF Stop, StopFirst
<1>5. PairInv'
  <2> DEFINE next == [script EXCEPT !.pc = "offline"]
  <2>1. CASE rp[script.core] = "offline"
             /\ script' = next /\ UNCHANGED <<rp, cpu>>
    BY <2>1 DEF StopFirst, PairInv, Rebuild
  <2>2. CASE rp[script.core] = "running" /\ script' = next /\ Halt(script.core)
    BY <2>2, TwoCores DEF Halt, StopFirst, PairInv, Rebuild
  <2>3. CASE rp[script.core] = "running"
             /\ script' = [next EXCEPT !.refused = TRUE]
             /\ UNCHANGED <<rp, cpu>>
    BY <2>3 DEF StopFirst, PairInv
  <2>4. QED
    BY <2>1, <2>2, <2>3 DEF Stop, StopFirst
<1>6. RedeployInv'
  BY DEF StopFirst, Stop, TypeOK, Script, RedeployInv
<1>7. QED
  BY <1>1, <1>2, <1>3, <1>4, <1>5, <1>6 DEF IInv

(* A core that will not stop was refused, or this is a retry.              *)
LEMMA WontStopKeeps == IInv /\ WontStop => IInv'
<1> SUFFICES ASSUME IInv, WontStop PROVE IInv'
  OBVIOUS
<1> USE DEF IInv, cores, Covered, Sound, Rebuild
<1>1. TypeOK'
  <2>1. script' \in Script
    BY PcTyped, IdleTyped, FailedTyped DEF WontStop, TypeOK
  <2>2. QED
    BY <2>1 DEF WontStop, TypeOK
<1>2. StateInv'
  BY DEF WontStop, StateInv
<1>3. BoxInv'
  BY DEF WontStop, BoxInv
<1>4. AttemptInv'
  BY DEF WontStop, Failed, Done, Idle, TypeOK, Script, AttemptInv, PairInv,
         First, Startable, Rebuild
<1>5. PairInv'
  BY DEF WontStop, Failed, Done, Idle, PairInv, Rebuild
<1>6. RedeployInv'
  BY DEF WontStop, Failed, Done, Idle, RedeployInv
<1>7. QED
  BY <1>1, <1>2, <1>3, <1>4, <1>5, <1>6 DEF IInv

(* A first attempt starts a cold core.                                     *)
LEMMA StartOnceKeeps == IInv /\ start_once => IInv'
<1> SUFFICES ASSUME IInv, start_once PROVE IInv'
  OBVIOUS
<1> USE DEF IInv, cores, Covered, Sound, Rebuild
<1>1. TypeOK'
  <2>1. script' \in Script
    BY PcTyped DEF start_once, TypeOK
  <2>2. rp' \in [Core -> {"offline", "running"}]
        /\ cpu' \in [Core -> {"cold", "boot", "up", "dead", "halted", "wild"}]
    BY DEF start_once, Launch, TypeOK, Script
  <2>3. QED
    BY <2>1, <2>2 DEF start_once, TypeOK
<1>2. StateInv'
  BY TwoCores DEF start_once, Launch, TypeOK, StateInv
<1>3. BoxInv'
  BY DEF start_once, Launch, TypeOK, BoxInv
<1>4. AttemptInv'
  BY DEF start_once, Launch, TypeOK, Script, StateInv, AttemptInv, First
<1>5. PairInv'
  BY TwoCores DEF start_once, Launch, TypeOK, PairInv, Rebuild
<1>6. RedeployInv'
  BY DEF start_once, RedeployInv
<1>7. QED
  BY <1>1, <1>2, <1>3, <1>4, <1>5, <1>6 DEF IInv

(* After the first core of a pair the second one is still off.             *)
LEMMA CheckKeeps == IInv /\ Check => IInv'
<1> SUFFICES ASSUME IInv, Check PROVE IInv'
  OBVIOUS
<1> USE DEF IInv, cores, Covered, Sound, Rebuild
<1>1. TypeOK'
  <2>1. script' \in Script
    BY DoneTyped, FailedTyped DEF Check, TypeOK
  <2>2. verdict' \in Core \cup {-1}
    BY DEF Check, TypeOK, Script
  <2>3. QED
    BY <2>1, <2>2 DEF Check, TypeOK
<1>2. StateInv'
  BY DEF Check, StateInv
<1>3. BoxInv'
  BY DEF Check, BoxInv
<1>4. AttemptInv'
  <2>1. CASE script' = Done
    BY <2>1
    DEF Check, Done, Idle, AttemptInv, PairInv, First, Startable, Rebuild
  <2>2. CASE script.tries < TRIES
             /\ script' = [script EXCEPT !.pc = "stop", !.tries = script.tries + 1]
    BY <2>2 DEF TypeOK, Script, AttemptInv, First
  <2>3. QED
    BY <2>1, <2>2 DEF Check, Failed
<1>5. PairInv'
  <2>1. CASE script' = Done
    BY <2>1 DEF Done, Idle, PairInv
  <2>2. CASE script.tries < TRIES
             /\ script' = [script EXCEPT !.pc = "stop", !.tries = script.tries + 1]
    BY <2>2 DEF Check, PairInv, Rebuild
  <2>3. QED
    BY <2>1, <2>2 DEF Check, Failed
<1>6. RedeployInv'
  <2>1. CASE script' = Done
    BY <2>1 DEF Check, Done, Idle, RedeployInv
  <2>2. CASE script.tries < TRIES
             /\ script' = [script EXCEPT !.pc = "stop", !.tries = script.tries + 1]
    BY <2>2 DEF Check, RedeployInv
  <2>3. QED
    BY <2>1, <2>2 DEF Check, Failed
<1>7. QED
  BY <1>1, <1>2, <1>3, <1>4, <1>5, <1>6 DEF IInv

(* The deploy script stops its core and says nothing about the sibling.    *)
LEMMA DeployStopKeeps == IInv /\ DeployStop => IInv'
<1> SUFFICES ASSUME IInv, DeployStop PROVE IInv'
  OBVIOUS
<1> USE DEF IInv, cores, Covered, Sound, Rebuild
<1>0. script' = [script EXCEPT !.pc = "deployed"]
        \/ script' = [script EXCEPT !.pc = "deployed", !.refused = TRUE]
  BY DEF DeployStop, Stop
<1>1. TypeOK'
  <2>1. 0 \in Core
    BY TwoCores DEF TypeOK, Script
  <2>2. [script EXCEPT !.pc = "deployed"] \in Script
    BY PcTyped DEF TypeOK
  <2>3. QED
    BY <2>1, <2>2, StopTyped DEF DeployStop, TypeOK
<1>2. StateInv'
  BY TwoCores DEF DeployStop, Stop, Halt, TypeOK, StateInv
<1>3. BoxInv'
  BY DEF DeployStop, Stop, Halt, TypeOK, StateInv, BoxInv
<1>4. AttemptInv'
  BY DEF DeployStop, Stop, TypeOK, Script, AttemptInv, First
<1>5. PairInv'
  <2>1. /\ script'.pc = "deployed" /\ script'.name = script.name
        /\ script'.core = script.core /\ script'.tries = script.tries
    BY <1>0 DEF TypeOK, Script
  <2>2. script.pc = "deploy"
    BY DEF DeployStop
  <2>3. QED
    BY <2>1, <2>2 DEF PairInv, Rebuild
<1>6. RedeployInv'
  BY DEF DeployStop, Stop, TypeOK, Script, PairInv, RedeployInv
<1>7. QED
  BY <1>1, <1>2, <1>3, <1>4, <1>5, <1>6 DEF IInv

(* The deploy script goes on to the guard.                                 *)
LEMMA DeployInstallKeeps == IInv /\ DeployInstall => IInv'
<1> SUFFICES ASSUME IInv, DeployInstall PROVE IInv'
  OBVIOUS
<1> USE DEF IInv, cores, Covered, Sound, Rebuild
<1>1. TypeOK'
  <2>1. script' \in Script
    BY PcTyped, IdleTyped DEF DeployInstall, TypeOK
  <2>2. QED
    BY <2>1 DEF DeployInstall, TypeOK
<1>2. StateInv'
  BY DEF DeployInstall, StateInv
<1>3. BoxInv'
  BY DEF DeployInstall, BoxInv
<1>4. AttemptInv'
  BY DEF DeployInstall, Idle, AttemptInv
<1>5. PairInv'
  BY DEF DeployInstall, Idle, PairInv
<1>6. RedeployInv'
  BY DEF DeployInstall, Idle, RedeployInv
<1>7. QED
  BY <1>1, <1>2, <1>3, <1>4, <1>5, <1>6 DEF IInv

(* The pair script has stopped core 1, or was refused.                     *)
LEMMA PairStop1Keeps == IInv /\ PairStop1 => IInv'
<1> SUFFICES ASSUME IInv, PairStop1 PROVE IInv'
  OBVIOUS
<1> USE DEF IInv, cores, Covered, Sound, Rebuild
<1>0. script' = [script EXCEPT !.pc = "pair0"]
        \/ script' = [script EXCEPT !.pc = "pair0", !.refused = TRUE]
  BY DEF PairStop1, Stop
<1>1. TypeOK'
  <2>1. 1 \in Core
    BY TwoCores DEF TypeOK, Script
  <2>2. [script EXCEPT !.pc = "pair0"] \in Script
    BY PcTyped DEF TypeOK
  <2>3. QED
    BY <2>1, <2>2, StopTyped DEF PairStop1, TypeOK
<1>2. StateInv'
  BY TwoCores DEF PairStop1, Stop, Halt, TypeOK, StateInv
<1>3. BoxInv'
  BY DEF PairStop1, Stop, Halt, TypeOK, StateInv, BoxInv
<1>4. AttemptInv'
  <2>1. script'.pc = "pair0"
    BY <1>0 DEF TypeOK, Script
  <2>2. QED
    BY <2>1 DEF AttemptInv
<1>5. PairInv'
  <2>1. /\ script'.pc = "pair0" /\ script'.name = script.name
        /\ script'.core = script.core /\ script'.tries = script.tries
    BY <1>0 DEF TypeOK, Script
  <2>2. script.pc = "pair1"
    BY DEF PairStop1
  <2>3. ~script'.refused => rp'[1] = "offline"
    <3>1. CASE rp[1] = "offline" /\ UNCHANGED <<rp, cpu>>
      BY <3>1
    <3>2. CASE Halt(1)
      BY <3>2 DEF Halt, TypeOK, Core
    <3>3. CASE script' = [script EXCEPT !.pc = "pair0", !.refused = TRUE]
      BY <3>3 DEF TypeOK, Script
    <3>4. QED
      BY <3>1, <3>2, <3>3, <1>0 DEF PairStop1, Stop
  <2>4. QED
    BY <2>1, <2>2, <2>3 DEF PairInv, Rebuild
<1>6. RedeployInv'
  BY DEF PairStop1, Stop, TypeOK, Script, RedeployInv
<1>7. QED
  BY <1>1, <1>2, <1>3, <1>4, <1>5, <1>6 DEF IInv

(* The pair script has stopped both cores, or was refused: both are cold.  *)
LEMMA PairStop0Keeps == IInv /\ PairStop0 => IInv'
<1> SUFFICES ASSUME IInv, PairStop0 PROVE IInv'
  OBVIOUS
<1> USE DEF IInv, cores, Covered, Sound, Rebuild
<1>1. TypeOK'
  <2>1. 0 \in Core
    BY TwoCores DEF TypeOK, Script
  <2>2. [script EXCEPT !.pc = "stop"] \in Script
    BY PcTyped DEF TypeOK
  <2>3. QED
    BY <2>1, <2>2, StopTyped DEF PairStop0, TypeOK
<1>2. StateInv'
  BY TwoCores DEF PairStop0, Stop, Halt, TypeOK, StateInv
<1>3. BoxInv'
  BY DEF PairStop0, Stop, Halt, TypeOK, StateInv, BoxInv
<1>4. AttemptInv'
  <2> DEFINE next == [script EXCEPT !.pc = "stop"]
  <2>1. CASE rp[0] = "offline" /\ script' = next /\ UNCHANGED <<rp, cpu>>
    BY <2>1, TwoCores
    DEF PairStop0, StateInv, AttemptInv, PairInv, First, Startable
  <2>2. CASE rp[0] = "running" /\ script' = next /\ Halt(0)
    BY <2>2, TwoCores
    DEF Halt, PairStop0, AttemptInv, PairInv, First, Startable
  <2>3. CASE rp[0] = "running" /\ script' = [next EXCEPT !.refused = TRUE]
             /\ UNCHANGED <<rp, cpu>>
    BY <2>3 DEF AttemptInv, First
  <2>4. QED
    BY <2>1, <2>2, <2>3 DEF Stop, PairStop0
<1>5. PairInv'
  <2> DEFINE next == [script EXCEPT !.pc = "stop"]
  <2>1. CASE rp[0] = "offline" /\ script' = next /\ UNCHANGED <<rp, cpu>>
    BY <2>1, TwoCores DEF PairStop0, StateInv, PairInv
  <2>2. CASE rp[0] = "running" /\ script' = next /\ Halt(0)
    BY <2>2, TwoCores DEF Halt, PairStop0, PairInv
  <2>3. CASE rp[0] = "running" /\ script' = [next EXCEPT !.refused = TRUE]
             /\ UNCHANGED <<rp, cpu>>
    BY <2>3 DEF PairStop0, PairInv
  <2>4. QED
    BY <2>1, <2>2, <2>3 DEF Stop, PairStop0
<1>6. RedeployInv'
  BY DEF PairStop0, Stop, TypeOK, Script, RedeployInv
<1>7. QED
  BY <1>1, <1>2, <1>3, <1>4, <1>5, <1>6 DEF IInv

(* A stop of the CM33 leaves a covered box alone.                          *)
LEMMA CM33StopKeeps == IInv /\ CM33Stop => IInv'
<1> SUFFICES ASSUME IInv, CM33Stop PROVE IInv'
  OBVIOUS
<1> USE DEF IInv, cores, Covered, Sound, Rebuild
<1>0. /\ box' \in [Core -> [magic : BOOLEAN, fault : BOOLEAN]]
      /\ UNCHANGED <<rp, cpu, verdict, bothRan>>
      /\ box' # box => ~Split /\ box' = [box EXCEPT ![0] = NoFault]
  <2>1. UNCHANGED <<rp, cpu, verdict, bothRan>>
    BY DEF CM33Stop
  <2>2. box' # box => ~Split /\ box' = [box EXCEPT ![0] = NoFault]
    BY DEF CM33Stop
  <2>3. NoFault \in [magic : BOOLEAN, fault : BOOLEAN]
    BY DEF NoFault
  <2>4. box \in [Core -> [magic : BOOLEAN, fault : BOOLEAN]]
    BY DEF TypeOK
  <2>5. box' \in [Core -> [magic : BOOLEAN, fault : BOOLEAN]]
    BY <2>2, <2>3, <2>4
  <2>6. QED
    BY <2>1, <2>2, <2>5
<1>1. TypeOK'
  <2>1. script' \in Script
    BY PcTyped, IdleTyped DEF CM33Stop, TypeOK
  <2>2. cm33' \in {"offline", "running"} /\ cm33_fault' \in BOOLEAN
    BY DEF CM33Stop, TypeOK
  <2>3. QED
    BY <1>0, <2>1, <2>2 DEF TypeOK
<1>2. StateInv'
  BY DEF CM33Stop, StateInv
<1>3. BoxInv'
  <2>1. /\ cpu' = cpu /\ script.pc # "check"
        /\ \A c \in Core : Covered(c) => box'[c] = box[c]
    BY <1>0, TwoCores DEF CM33Stop
  <2>2. QED
    BY <2>1 DEF BoxInv
<1>4. AttemptInv'
  BY DEF CM33Stop, Idle, TypeOK, Script, AttemptInv
<1>5. PairInv'
  BY DEF CM33Stop, Idle, TypeOK, Script, PairInv, Rebuild
<1>6. RedeployInv'
  BY DEF CM33Stop, Idle, TypeOK, Script, RedeployInv
<1>7. QED
  BY <1>1, <1>2, <1>3, <1>4, <1>5, <1>6 DEF IInv

(* A start of the CM33 has nothing to do with the R8 cores.                *)
LEMMA CM33StartKeeps == IInv /\ CM33Start => IInv'
<1> SUFFICES ASSUME IInv, CM33Start PROVE IInv'
  OBVIOUS
<1> USE DEF IInv, cores, Covered, Sound, Rebuild
<1>1. TypeOK'
  <2>1. script' \in Script
    BY PcTyped, IdleTyped DEF CM33Start, TypeOK
  <2>2. QED
    BY <2>1 DEF CM33Start, TypeOK
<1>2. StateInv'
  BY DEF CM33Start, StateInv
<1>3. BoxInv'
  BY DEF CM33Start, BoxInv
<1>4. AttemptInv'
  BY DEF CM33Start, Idle, TypeOK, Script, AttemptInv
<1>5. PairInv'
  BY DEF CM33Start, Idle, TypeOK, Script, PairInv, Rebuild
<1>6. RedeployInv'
  BY DEF CM33Start, Idle, TypeOK, Script, RedeployInv
<1>7. QED
  BY <1>1, <1>2, <1>3, <1>4, <1>5, <1>6 DEF IInv

(* Boxes that were there when the script began are there now.              *)
LEMMA VerifyKeeps == IInv /\ Verify => IInv'
<1> SUFFICES ASSUME IInv, Verify PROVE IInv'
  OBVIOUS
<1> USE DEF IInv, cores, Covered, Sound, Rebuild
<1>1. TypeOK'
  <2>1. script' \in Script
    BY PcTyped, IdleTyped DEF Verify, TypeOK
  <2>2. QED
    BY <2>1 DEF Verify, TypeOK
<1>2. StateInv'
  BY DEF Verify, StateInv
<1>3. BoxInv'
  BY DEF Verify, BoxInv
<1>4. AttemptInv'
  BY DEF Verify, Idle, AttemptInv
<1>5. PairInv'
  BY DEF Verify, Idle, PairInv, Rebuild
<1>6. RedeployInv'
  BY DEF Verify, Idle, RedeployInv
<1>7. QED
  BY <1>1, <1>2, <1>3, <1>4, <1>5, <1>6 DEF IInv

(* A core that has booted has its box written.                             *)
LEMMA BootDoneKeeps ==
  ASSUME NEW c \in Core, IInv, BootDone(c) PROVE IInv'
<1> USE DEF IInv, cores, Covered, Sound, Rebuild
<1>1. TypeOK'
  BY DEF BootDone, TypeOK
<1>2. StateInv'
  BY DEF BootDone, StateInv
<1>3. BoxInv'
  BY DEF BootDone, TypeOK, BoxInv
<1>4. AttemptInv'
  BY DEF BootDone, BoxInv, AttemptInv
<1>5. PairInv'
  BY DEF BootDone, PairInv, Rebuild
<1>6. RedeployInv'
  BY DEF BootDone, RedeployInv
<1>7. QED
  BY <1>1, <1>2, <1>3, <1>4, <1>5, <1>6 DEF IInv

(* A core that dies has its box written, with the fault.                   *)
LEMMA DieKeeps ==
  ASSUME NEW c \in Core, IInv, Die(c) PROVE IInv'
<1> USE DEF IInv, cores, Covered, Sound, Rebuild
<1>1. TypeOK'
  BY DEF Die, TypeOK
<1>2. StateInv'
  BY DEF Die, StateInv
<1>3. BoxInv'
  BY DEF Die, TypeOK, BoxInv
<1>4. AttemptInv'
  BY DEF Die, AttemptInv, First, Startable
<1>5. PairInv'
  BY DEF Die, PairInv, Rebuild
<1>6. RedeployInv'
  BY DEF Die, RedeployInv
<1>7. QED
  BY <1>1, <1>2, <1>3, <1>4, <1>5, <1>6 DEF IInv

(* The CM33 has no part in the invariant.                                  *)
LEMMA CM33DiesKeeps ==
  ASSUME IInv, CM33Dies PROVE IInv'
<1> USE DEF IInv, cores, Covered, Sound, Rebuild
<1>1. TypeOK'
  BY DEF CM33Dies, TypeOK
<1>2. StateInv'
  BY DEF CM33Dies, StateInv
<1>3. BoxInv'
  BY DEF CM33Dies, BoxInv
<1>4. AttemptInv'
  BY DEF CM33Dies, AttemptInv, First, Startable
<1>5. PairInv'
  BY DEF CM33Dies, PairInv, Rebuild
<1>6. RedeployInv'
  BY DEF CM33Dies, RedeployInv
<1>7. QED
  BY <1>1, <1>2, <1>3, <1>4, <1>5, <1>6 DEF IInv

(* Nothing happens.                                                        *)
LEMMA StutterKeeps ==
  ASSUME IInv, UNCHANGED vars PROVE IInv'
<1> USE DEF IInv, cores, Covered, Sound, Rebuild
<1>1. TypeOK'
  BY DEF vars, TypeOK
<1>2. StateInv'
  BY DEF vars, StateInv
<1>3. BoxInv'
  BY DEF vars, BoxInv
<1>4. AttemptInv'
  BY DEF vars, AttemptInv, First, Startable
<1>5. PairInv'
  BY DEF vars, PairInv, Rebuild
<1>6. RedeployInv'
  BY DEF vars, RedeployInv
<1>7. QED
  BY <1>1, <1>2, <1>3, <1>4, <1>5, <1>6 DEF IInv

(* A script that begins has done nothing yet.                              *)
LEMMA CallKeeps ==
  ASSUME NEW name, NEW pc, NEW c \in Core, IInv, Call(name, pc, c),
         \/ name = "start" /\ pc = "guard"
         \/ name = "deploy" /\ pc = "deploy" /\ c = 0
         \/ name = "pair" /\ pc = "pair1" /\ c = 0
         \/ name = "redeploy" /\ pc = "cm33stop" /\ c = 0
  PROVE  IInv'
<1> USE DEF IInv, cores, Covered, Sound, Rebuild
<1>0. script' = [name |-> name, pc |-> pc, core |-> c,
              tries |-> 1, refused |-> FALSE]
  BY DEF Call
<1>1. TypeOK'
  <2>1. script' \in Script
    BY <1>0, TwoCores, LifecycleAssumption DEF Script
  <2>2. QED
    BY <2>1 DEF Call, TypeOK
<1>2. StateInv'
  BY DEF Call, StateInv
<1>3. BoxInv'
  BY DEF Call, BoxInv, TypeOK
<1>4. AttemptInv'
  BY <1>0 DEF AttemptInv
<1>5. PairInv'
  BY <1>0 DEF PairInv, Rebuild
<1>6. RedeployInv'
  <2>1. bothRan' => \A d \in Core : box'[d].magic
    BY DEF Call
  <2>2. QED
    BY <1>0, <2>1 DEF RedeployInv
<1>7. QED
  BY <1>1, <1>2, <1>3, <1>4, <1>5, <1>6 DEF IInv

(* Every step keeps the inductive invariant.                               *)
LEMMA StepInv == IInv /\ [Next]_vars => IInv'
<1> SUFFICES ASSUME IInv, [Next]_vars PROVE IInv'
  OBVIOUS
<1>1. CASE ScriptStep
  BY <1>1, GuardKeeps, StopFirstKeeps, WontStopKeeps, StartOnceKeeps,
     CheckKeeps, DeployStopKeeps,
     DeployInstallKeeps, PairStop1Keeps, PairStop0Keeps,
     CM33StopKeeps, CM33StartKeeps, VerifyKeeps
  DEF ScriptStep
<1>2. CASE Boot
  BY <1>2, BootDoneKeeps DEF Boot
<1>3. CASE \E c \in Core : Die(c)
  BY <1>3, DieKeeps
<1>4. CASE CM33Dies
  BY <1>4, CM33DiesKeeps
<1>5. CASE CallStart \/ CallDeploy \/ CallPair \/ CallRedeploy
  BY <1>5, CallKeeps, TwoCores
  DEF CallStart, CallDeploy, CallPair, CallRedeploy
<1>6. CASE UNCHANGED vars
  BY <1>6, StutterKeeps
<1>7. QED
  BY <1>1, <1>2, <1>3, <1>4, <1>5, <1>6 DEF Next

-----------------------------------------------------------------------------
(* The theorems.                                                           *)

(* What Linux can see of a core agrees with what the core does, at every   *)
(* step of every script of tools/, but for the box of core 0 on a DTB that *)
(* does not split the window of the CM33.                                  *)
THEOREM InductiveInvariant == Spec => []IInv
<1>1. Init => IInv
  BY InitInv
<1>2. IInv /\ [Next]_vars => IInv'
  BY StepInv
<1>3. QED
  BY <1>1, <1>2, PTL DEF Spec

(* The state of the scripts, of remoteproc and of the cores has its types. *)
THEOREM TypeCorrect == Spec => []TypeOK
<1>1. IInv => TypeOK
  BY DEF IInv
<1>2. QED
  BY <1>1, InductiveInvariant, PTL

(* Only a start of a halted core makes it run wild.                        *)
LEMMA WildByStart ==
  ASSUME TypeOK, [Next]_vars, NEW c \in Core, GoesWild(c)
  PROVE  start_once /\ script.core = c /\ cpu[c] = "halted"
<1>1. cpu \in [Core -> {"cold", "boot", "up", "dead", "halted", "wild"}]
  BY DEF TypeOK
<1>2. ~(UNCHANGED cpu) /\ cpu'[c] = "wild" /\ cpu[c] # "wild"
  BY DEF GoesWild
<1>3. ASSUME NEW d \in Core, NEW s, Stop(d, s) PROVE FALSE
  BY <1>1, <1>2, <1>3 DEF Stop, Halt
<1>4. ASSUME NEW d \in Core, BootDone(d) \/ Die(d) PROVE FALSE
  BY <1>1, <1>2, <1>4 DEF BootDone, Die
<1>5. start_once
  BY <1>2, <1>3, <1>4, TwoCores
  DEF TypeOK, Script, Next, vars, cores, ScriptStep, Guard, StopFirst, WontStop,
      Check, DeployStop, DeployInstall, PairStop1, PairStop0, CM33Stop,
      CM33Start, Verify, Boot, CM33Dies, CallStart, CallDeploy, CallPair,
      CallRedeploy, Call
<1>6. script.core = c /\ cpu[c] = "halted"
  BY <1>1, <1>2, <1>5 DEF start_once, Launch
<1>7. QED
  BY <1>5, <1>6

(* A first attempt of a script that can tell a halted core does not start  *)
(* it.                                                                     *)
LEMMA SoundAttempt ==
  ASSUME IInv, [Next]_vars, NEW c \in Core, GoesWild(c), Covered(c) \/ Rebuild
  PROVE  script.tries > 1 \/ script.refused
<1>1. start_once /\ script.core = c /\ cpu[c] = "halted"
  BY WildByStart DEF IInv
<1>2. ~First
  BY <1>1 DEF IInv, AttemptInv, Sound, start_once
<1>3. QED
  BY <1>2 DEF First, IInv, TypeOK, Script

(* The first attempt of a script never makes a core run wild unless        *)
(* remoteproc refused a stop, for any number of attempts.                  *)
THEOREM FirstAttemptIsSafe == ASSUME Split PROVE Spec => WildOnlyByRetry
<1>1. IInv /\ [Next]_vars =>
        [\A c \in Core : GoesWild(c) => script.tries > 1 \/ script.refused]_vars
  BY SoundAttempt DEF Covered
<1>2. QED
  BY <1>1, InductiveInvariant, PTL DEF Spec, WildOnlyByRetry

(* Without the split that still holds of core 1, whose box the CM33 does   *)
(* not share, and of every script that rebuilds the pair: what the shared  *)
(* window costs is the guard of core 0 alone.                              *)
THEOREM UnsplitFirstAttemptIsSafe ==
  Spec => [][\A c \in Core :
               GoesWild(c) /\ (c = 1 \/ script.name \in {"pair", "redeploy"}) =>
                 script.tries > 1 \/ script.refused]_vars
<1>1. IInv /\ [Next]_vars =>
        [\A c \in Core :
           GoesWild(c) /\ (c = 1 \/ script.name \in {"pair", "redeploy"}) =>
             script.tries > 1 \/ script.refused]_vars
  BY SoundAttempt DEF Covered, Rebuild
<1>2. QED
  BY <1>1, InductiveInvariant, PTL DEF Spec

(* A first attempt that reports a core it can tell about reports the truth.*)
LEMMA SoundReport ==
  ASSUME IInv, [Next]_vars, NEW c \in Core, Covered(c),
         verdict' = c, verdict # c, script.tries = 1, ~script.refused
  PROVE  cpu[c] = "up"
<1>1. /\ script.pc = "check" /\ script.core = c
      /\ rp[c] = "running" /\ bb_ok(c) /\ cpu[c] # "boot"
  <2>1. CASE Check
    BY <2>1, TwoCores DEF Check
  <2>2. CASE ~Check
    <3>1. verdict' \in {verdict, -1}
      BY <2>2
      DEF Next, vars, ScriptStep, Guard, StopFirst, WontStop, start_once,
          DeployStop, DeployInstall, PairStop1, PairStop0, CM33Stop, CM33Start,
          Verify, Boot, BootDone, Die, CM33Dies, CallStart, CallDeploy, CallPair,
          CallRedeploy, Call
    <3>2. QED
      BY <3>1, TwoCores
  <2>3. QED
    BY <2>1, <2>2
<1>2. cpu[c] \notin {"cold", "halted"}
  BY <1>1 DEF IInv, StateInv
<1>3. cpu[c] # "dead"
  BY <1>1 DEF IInv, BoxInv, bb_ok
<1>4. cpu[c] # "wild"
  BY <1>1 DEF IInv, AttemptInv, Sound, First
<1>5. QED
  BY <1>1, <1>2, <1>3, <1>4 DEF IInv, TypeOK

(* What the first attempt reports as running has booted the new image.     *)
THEOREM ReportIsTrue == ASSUME Split PROVE Spec => ReportedCoreBooted
<1>1. IInv /\ [Next]_vars =>
        [\A c \in Core : verdict' = c /\ verdict # c /\ script.tries = 1
             /\ ~script.refused => cpu[c] = "up"]_vars
  BY SoundReport DEF Covered
<1>2. QED
  BY <1>1, InductiveInvariant, PTL DEF Spec, ReportedCoreBooted

(* redeploy-cm33.sh never touches R8 cores that have both run before.      *)
THEOREM RedeployIsGentle == ASSUME Split PROVE Spec => RedeploySparesTheR8s
<1>1. ASSUME IInv, [Next]_vars, script.name = "redeploy", bothRan
      PROVE rp' = rp
  <2>1. script.pc \in {"cm33stop", "cm33start", "verify"}
    BY <1>1 DEF IInv, RedeployInv
  <2>2. QED
    BY <1>1, <2>1
    DEF Next, vars, cores, ScriptStep, Guard, StopFirst, WontStop, start_once,
        Check, DeployStop, DeployInstall, PairStop1, PairStop0, CM33Stop,
        CM33Start, Verify, Boot, BootDone, Die, CM33Dies, CallStart,
        CallDeploy, CallPair, CallRedeploy, Call
<1>2. IInv /\ [Next]_vars => [script.name = "redeploy" /\ bothRan =>
        rp' = rp]_vars
  BY <1>1
<1>3. QED
  BY <1>2, InductiveInvariant, PTL DEF Spec, RedeploySparesTheR8s

-----------------------------------------------------------------------------
(* The scripts come to an end.                                             *)

(* The measure of a script that runs, by its point and its attempt.        *)
Measured ==
  /\ StepsLeft \in 0 .. 6 * TRIES + 5
  /\ script.pc # "idle" => StepsLeft > 0

LEMMA MeasureTyped == TypeOK => Measured
<1> SUFFICES ASSUME TypeOK PROVE Measured
  OBVIOUS
<1>1. /\ script.tries \in 1 .. TRIES /\ TRIES \in Nat
      /\ script.pc \in {"idle", "guard", "stop", "offline", "check", "deploy",
                        "deployed", "pair1", "pair0", "cm33stop", "cm33start",
                        "verify"}
  BY LifecycleAssumption DEF TypeOK, Script
<1>2. CASE script.pc = "idle"
  BY <1>1, <1>2 DEF StepsLeft, Measured
<1>3. CASE script.pc # "idle"
  BY <1>1, <1>3 DEF StepsLeft, Measured
<1>4. QED
  BY <1>2, <1>3

(* Going on to a point nearer to the end, in the same attempt.             *)
Nearer == {<<"guard", "stop">>, <<"stop", "offline">>, <<"offline", "check">>,
           <<"deploy", "deployed">>, <<"deployed", "guard">>,
           <<"pair1", "pair0">>, <<"pair0", "stop">>,
           <<"cm33stop", "cm33start">>, <<"cm33start", "verify">>,
           <<"verify", "pair1">>}

LEMMA NearerCost ==
  ASSUME TypeOK, <<script.pc, script'.pc>> \in Nearer,
         script'.name = script.name, script'.core = script.core,
         script'.tries = script.tries
  PROVE  StepsLeft' < StepsLeft
<1>1. script.tries \in 1 .. TRIES /\ TRIES \in Nat
  BY LifecycleAssumption DEF TypeOK, Script
<1>2. QED
  BY <1>1 DEF StepsLeft, Nearer

(* The end is the end.                                                     *)
LEMMA IdleCost ==
  ASSUME TypeOK, script.pc # "idle", script' = Idle
  PROVE  StepsLeft' < StepsLeft
BY MeasureTyped DEF Measured, StepsLeft, Idle

(* Having done with a core, and having failed.                             *)
LEMMA DoneCost ==
  ASSUME TypeOK, script.pc \in {"offline", "check"}, script' = Done
  PROVE  StepsLeft' < StepsLeft
<1>1. /\ script.tries \in 1 .. TRIES /\ TRIES \in Nat
      /\ script \in Script
  BY LifecycleAssumption DEF TypeOK, Script
<1>2. CASE script.name \in {"pair", "redeploy"} /\ script.core = 0
  <2>1. /\ script'.pc = "stop" /\ script'.core = 1 /\ script'.tries = 1
        /\ script'.name = script.name
    BY <1>1, <1>2 DEF Done, Script
  <2>2. StepsLeft' = 3 + 3 * (TRIES - 1)
    BY <1>1, <2>1 DEF StepsLeft
  <2>3. StepsLeft >= 1 + 3 * TRIES
    BY <1>1, <1>2 DEF StepsLeft
  <2>4. StepsLeft \in Nat
    BY MeasureTyped, <1>1 DEF Measured
  <2>5. QED
    BY <1>1, <2>2, <2>3, <2>4
<1>3. CASE ~(script.name \in {"pair", "redeploy"} /\ script.core = 0)
  BY <1>3, IdleCost DEF Done
<1>4. QED
  BY <1>2, <1>3

LEMMA FailedCost ==
  ASSUME TypeOK, script.pc \in {"offline", "check"}, script' = Failed
  PROVE  StepsLeft' < StepsLeft
<1>1. /\ script.tries \in 1 .. TRIES /\ TRIES \in Nat
      /\ script \in Script
  BY LifecycleAssumption DEF TypeOK, Script
<1>2. CASE script.tries < TRIES
  <2>1. /\ script'.pc = "stop" /\ script'.tries = script.tries + 1
        /\ script'.core = script.core /\ script'.name = script.name
    BY <1>1, <1>2 DEF Failed, Script
  <2>2. QED
    BY <1>1, <2>1 DEF StepsLeft
<1>3. CASE ~(script.tries < TRIES)
  BY <1>3, DoneCost DEF Failed
<1>4. QED
  BY <1>2, <1>3

(* A stop goes on, also when it is refused.                                *)
LEMMA StopGoesOn ==
  ASSUME TypeOK, NEW c \in Core, NEW p,
         Stop(c, [script EXCEPT !.pc = p])
  PROVE  /\ script'.pc = p /\ script'.name = script.name
         /\ script'.core = script.core /\ script'.tries = script.tries
<1>1. script \in Script
  BY DEF TypeOK
<1>2. \/ script' = [script EXCEPT !.pc = p]
      \/ script' = [script EXCEPT !.pc = p, !.refused = TRUE]
  BY DEF Stop
<1>3. QED
  BY <1>1, <1>2 DEF Script

LEMMA ScriptCost ==
  ASSUME TypeOK, ScriptStep
  PROVE  StepsLeft' < StepsLeft
<1>1. script \in Script /\ script.core \in Core
  BY DEF TypeOK, Script
<1>2. ASSUME NEW p, <<script.pc, p>> \in Nearer,
             script'.pc = p, script'.name = script.name,
             script'.core = script.core, script'.tries = script.tries
      PROVE  StepsLeft' < StepsLeft
  BY <1>2, NearerCost
<1>3. CASE Guard \/ start_once \/ DeployInstall \/ CM33Stop \/ CM33Start \/ Verify
  <2>1. \/ script' = Idle /\ script.pc # "idle"
        \/ \E p \in {"stop", "check", "guard", "cm33start", "verify", "pair1"} :
             script' = [script EXCEPT !.pc = p] /\ <<script.pc, p>> \in Nearer
    BY <1>3
    DEF Guard, start_once, DeployInstall, CM33Stop, CM33Start, Verify, Nearer
  <2>2. ASSUME NEW p, script' = [script EXCEPT !.pc = p],
               <<script.pc, p>> \in Nearer
        PROVE  StepsLeft' < StepsLeft
    <3>1. /\ script'.pc = p /\ script'.name = script.name
          /\ script'.core = script.core /\ script'.tries = script.tries
      BY <1>1, <2>2 DEF Script
    <3>2. QED
      BY <1>2, <2>2, <3>1
  <2>3. CASE script' = Idle /\ script.pc # "idle"
    BY <2>3, IdleCost
  <2>4. QED
    BY <2>1, <2>2, <2>3
<1>4. ASSUME NEW c \in Core, NEW p, <<script.pc, p>> \in Nearer,
             Stop(c, [script EXCEPT !.pc = p])
      PROVE  StepsLeft' < StepsLeft
  <2>1. /\ script'.pc = p /\ script'.name = script.name
        /\ script'.core = script.core /\ script'.tries = script.tries
    BY <1>4, StopGoesOn
  <2>2. QED
    BY <1>2, <1>4, <2>1
<1>5. CASE StopFirst
  BY <1>1, <1>4, <1>5 DEF StopFirst, Nearer
<1>6. CASE DeployStop
  BY <1>4, <1>6, TwoCores DEF DeployStop, Nearer
<1>7. CASE PairStop1
  BY <1>4, <1>7, TwoCores DEF PairStop1, Nearer
<1>8. CASE PairStop0
  BY <1>4, <1>8, TwoCores DEF PairStop0, Nearer
<1>9. CASE WontStop \/ Check
  BY <1>9, DoneCost, FailedCost DEF WontStop, Check
<1>10. QED
  BY <1>3, <1>5, <1>6, <1>7, <1>8, <1>9 DEF ScriptStep

(* No script goes round in circles: for any number of attempts, with or    *)
(* without the split and whatever is refused, a script makes at most six   *)
(* steps per attempt and five more.                                        *)
THEOREM ScriptsAreBounded == Spec => ScriptsBounded
<1>1. ASSUME TypeOK, TypeOK', Next PROVE AdvanceStep
  <2>1. /\ StepsLeft' \in 0 .. 6 * TRIES + 5 /\ StepsLeft \in 0 .. 6 * TRIES + 5
        /\ TRIES \in Nat
    <3>1. TypeOK' => Measured'
      BY MeasureTyped, PTL
    <3>2. QED
      BY <1>1, <3>1, MeasureTyped, LifecycleAssumption DEF Measured
  <2>2. CASE ScriptStep
    BY <1>1, <2>1, <2>2, ScriptCost DEF AdvanceStep
  <2>3. CASE Boot \/ (\E c \in Core : Die(c)) \/ CM33Dies
    <3>1. script' = script
      BY <2>3 DEF Boot, BootDone, Die, CM33Dies
    <3>2. StepsLeft' = StepsLeft
      BY <3>1 DEF StepsLeft
    <3>3. QED
      BY <2>1, <3>1, <3>2 DEF AdvanceStep
  <2>4. CASE CallStart \/ CallDeploy \/ CallPair \/ CallRedeploy
    <3>1. script.pc = "idle"
      BY <2>4 DEF CallStart, CallDeploy, CallPair, CallRedeploy, Call
    <3>2. QED
      BY <2>1, <3>1 DEF AdvanceStep
  <2>5. QED
    BY <1>1, <2>2, <2>3, <2>4 DEF Next
<1>2. TypeOK /\ TypeOK' /\ [Next]_vars => [AdvanceStep]_vars
  BY <1>1
<1>3. QED
  BY <1>2, TypeCorrect, PTL DEF Spec, ScriptsBounded

-----------------------------------------------------------------------------
(* Each core and its box do what CoreBox allows.                           *)

(* A step as core c and its box see it.                                    *)
Still(c)   == UNCHANGED <<cpu[c], box[c]>>
Off(c)     == cpu'[c] \in {"cold", "halted"} /\ UNCHANGED box[c]
Started(c) == cpu'[c] = "boot" /\ UNCHANGED box[c]
Loose(c)   == cpu[c] = "halted" /\ cpu'[c] = "wild" /\ UNCHANGED box[c]
Came(c)    == cpu[c] = "boot" /\ cpu'[c] = "up" /\ box'[c].magic /\ ~box'[c].fault
Died(c)    == /\ cpu[c] \in {"boot", "up", "wild"} /\ cpu'[c] = "dead"
              /\ box'[c].magic /\ box'[c].fault

CoreStep(c) == Still(c) \/ Off(c) \/ Started(c) \/ Loose(c) \/ Came(c) \/ Died(c)

(* Every step is one of these for every core whose box nobody shares.      *)
LEMMA EveryCoreStep ==
  ASSUME TypeOK, [Next]_vars, NEW c \in Core, Covered(c)
  PROVE  CoreStep(c)
<1>1. /\ cpu \in [Core -> {"cold", "boot", "up", "dead", "halted", "wild"}]
      /\ box \in [Core -> [magic : BOOLEAN, fault : BOOLEAN]]
      /\ script.core \in Core
  BY DEF TypeOK, Script
<1>2. ASSUME UNCHANGED <<cpu, box>> PROVE CoreStep(c)
  BY <1>2 DEF CoreStep, Still
<1>3. ASSUME NEW d \in Core, NEW s, Stop(d, s), UNCHANGED box PROVE CoreStep(c)
  BY <1>1, <1>3 DEF Stop, Halt, CoreStep, Still, Off
<1>4. CASE StopFirst \/ DeployStop \/ PairStop1 \/ PairStop0
  BY <1>1, <1>3, <1>4, TwoCores
  DEF StopFirst, DeployStop, PairStop1, PairStop0
<1>5. CASE start_once
  <2>1. UNCHANGED box
    BY <1>5 DEF start_once
  <2>2. CASE Launch(script.core)
    BY <1>1, <2>1, <2>2 DEF Launch, CoreStep, Still, Started, Loose
  <2>3. QED
    BY <1>2, <1>5, <2>1, <2>2 DEF start_once
<1>6. CASE CM33Stop
  <2>1. /\ UNCHANGED cpu
        /\ box' = box \/ (~Split /\ box' = [box EXCEPT ![0] = NoFault])
    BY <1>6 DEF CM33Stop
  <2>2. box'[c] = box[c]
    BY <1>1, <2>1, TwoCores DEF Covered
  <2>3. QED
    BY <2>1, <2>2 DEF CoreStep, Still
<1>7. ASSUME NEW d \in Core, BootDone(d) PROVE CoreStep(c)
  BY <1>1, <1>7 DEF BootDone, CoreStep, Still, Came
<1>8. ASSUME NEW d \in Core, Die(d) PROVE CoreStep(c)
  BY <1>1, <1>8 DEF Die, CoreStep, Still, Died
<1>9. CASE \/ Guard \/ WontStop \/ Check \/ DeployInstall \/ CM33Start \/ Verify
           \/ CM33Dies \/ CallStart \/ CallDeploy \/ CallPair \/ CallRedeploy
           \/ UNCHANGED vars
  BY <1>2, <1>9
  DEF vars, cores, Guard, WontStop, Check, DeployInstall, CM33Start, Verify,
      CM33Dies, CallStart, CallDeploy, CallPair, CallRedeploy, Call
<1>10. QED
  BY <1>4, <1>5, <1>6, <1>7, <1>8, <1>9 DEF Next, ScriptStep, Boot

(* The box of core 1 is its own, whatever the DTB says: the scripts may go *)
(* by it without the split.                                                *)
THEOREM BoxOfCore1 == Spec => Box1!Spec
<1>1. Init => Box1!Init
  <2>1. Init => cpu[1] = "cold" /\ box[1] = NoFault
    BY TwoCores DEF Init
  <2>2. ~NoFault.magic /\ NoFault.fault \in BOOLEAN
    BY DEF NoFault
  <2>3. QED
    BY <2>1, <2>2 DEF Box1!Init, Life
<1>2. ASSUME TypeOK, [Next]_vars PROVE [Box1!Next]_Box1!vars
  <2>1. CoreStep(1) /\ cpu[1] \in {"cold", "boot", "up", "dead", "halted", "wild"}
    BY <1>2, EveryCoreStep, TwoCores DEF Covered, TypeOK
  <2>2. CASE Still(1)
    BY <2>2 DEF Still, Life, Box1!vars
  <2>3. CASE Off(1) \/ Started(1)
    BY <2>3 DEF Off, Started, Life, Box1!Next, Box1!Stop, Box1!Begin
  <2>4. CASE Loose(1)
    BY <2>4 DEF Loose, Life, Box1!Next, Box1!Run
  <2>5. CASE Came(1)
    BY <2>5 DEF Came, Life, Box1!Next, Box1!Ready
  <2>6. CASE Died(1)
    BY <2>6 DEF Died, Life, Box1!Next, Box1!Record
  <2>7. QED
    BY <2>1, <2>2, <2>3, <2>4, <2>5, <2>6 DEF CoreStep
<1>3. QED
  BY <1>1, <1>2, TypeCorrect, PTL DEF Spec, Box1!Spec

(* With the split the same holds of core 0: both cores and their boxes do  *)
(* what CoreBox promises, for any number of attempts and whatever stop is  *)
(* refused.                                                                *)
THEOREM BoxesKeepTheirPromise == ASSUME Split PROVE Spec => RefinesCoreBoxes
<1>1. Init => Box0!Init
  <2>1. Init => cpu[0] = "cold" /\ box[0] = NoFault
    BY TwoCores DEF Init
  <2>2. ~NoFault.magic /\ NoFault.fault \in BOOLEAN
    BY DEF NoFault
  <2>3. QED
    BY <2>1, <2>2 DEF Box0!Init, Life
<1>2. ASSUME TypeOK, [Next]_vars PROVE [Box0!Next]_Box0!vars
  <2>1. CoreStep(0) /\ cpu[0] \in {"cold", "boot", "up", "dead", "halted", "wild"}
    BY <1>2, EveryCoreStep, TwoCores DEF Covered, TypeOK
  <2>2. CASE Still(0)
    BY <2>2 DEF Still, Life, Box0!vars
  <2>3. CASE Off(0) \/ Started(0)
    BY <2>3 DEF Off, Started, Life, Box0!Next, Box0!Stop, Box0!Begin
  <2>4. CASE Loose(0)
    BY <2>4 DEF Loose, Life, Box0!Next, Box0!Run
  <2>5. CASE Came(0)
    BY <2>5 DEF Came, Life, Box0!Next, Box0!Ready
  <2>6. CASE Died(0)
    BY <2>6 DEF Died, Life, Box0!Next, Box0!Record
  <2>7. QED
    BY <2>1, <2>2, <2>3, <2>4, <2>5, <2>6 DEF CoreStep
<1>3. Spec => Box0!Spec
  BY <1>1, <1>2, TypeCorrect, PTL DEF Spec, Box0!Spec
<1>4. QED
  BY <1>3, BoxOfCore1 DEF RefinesCoreBoxes

(* So a core that is up has its magic and no fault in its box, and a core  *)
(* that died has its death there: what the scripts read of core 1 is true  *)
(* on any DTB, and of both cores with the split.                           *)
THEOREM BoxesAreTruthful ==
  /\ Spec => []Box1!Truthful
  /\ Split => (Spec => []Box0!Truthful)
<1>1. Spec => []Box1!Truthful
  <2>1. Box1!Init => Box1!Truthful
    BY DEF Box1!Init, Box1!Truthful
  <2>2. Box1!Truthful /\ [Box1!Next]_Box1!vars => Box1!Truthful'
    BY DEF Box1!Truthful, Box1!vars, Box1!Next, Box1!Stop, Box1!Begin, Box1!Run,
           Box1!Wipe, Box1!Ready, Box1!Stamp, Box1!Record, Box1!Power
  <2>3. QED
    BY <2>1, <2>2, BoxOfCore1, PTL DEF Box1!Spec
<1>2. ASSUME Split PROVE Spec => []Box0!Truthful
  <2>1. Box0!Init => Box0!Truthful
    BY DEF Box0!Init, Box0!Truthful
  <2>2. Box0!Truthful /\ [Box0!Next]_Box0!vars => Box0!Truthful'
    BY DEF Box0!Truthful, Box0!vars, Box0!Next, Box0!Stop, Box0!Begin, Box0!Run,
           Box0!Wipe, Box0!Ready, Box0!Stamp, Box0!Record, Box0!Power
  <2>3. Spec => Box0!Spec
    BY <1>2, BoxesKeepTheirPromise, PTL DEF RefinesCoreBoxes
  <2>4. QED
    BY <2>1, <2>2, <2>3, PTL DEF Box0!Spec
<1>3. QED
  BY <1>1, <1>2
=============================================================================

-------------------------- MODULE RzClient_proofs ---------------------------
(***************************************************************************)
(* Proofs about the Linux client, for any number of requests, processes,   *)
(* kills and buffers.  The inductive invariant IInv relates the devices to *)
(* the stage of the set-up, the rings to the numbers of the session, and   *)
(* what a process leaves behind to how it ended.                           *)
(***************************************************************************)
EXTENDS RzClient, TLAPS, WellFoundedInduction

Running  == Session \cup {"vdev", "release"}
Dropping == {"remove", "rmIrq", "rmUio"}

(* How often each device is open, stage by stage of the set-up.            *)
OpenAre(D) == known = D /\ fd = [d \in Device |-> IF d \in D THEN 1 ELSE 0]
DevicesInv ==
  /\ pc = "off" => OpenAre({})
  /\ pc = "init" => IF initialized THEN OpenAre(Device) ELSE OpenAre({})
  /\ pc = "irq" => OpenAre(Uio)
  /\ pc = "mem" => OpenAre(Uio) \/ OpenAre(Device)
  /\ pc = "map" => OpenAre(Device)
  /\ pc = "err1" => Uio \subseteq known /\ OpenAre(known)
  /\ pc \in Dropping =>
       /\ \A d \in Mem : fd[d] = IF d \in known THEN 1 ELSE 0
       /\ \A d \in Uio \ {"mbx"} : IF d \in known THEN fd[d] = 1 ELSE fd[d] \in {0, 1}
       /\ fd["mbx"] \in {0, 1}
  /\ pc \in {"rmIrq", "rmUio"} => known \cap Mem = {}
  /\ pc = "failed" => /\ known = {} /\ \A d \in Mem : fd[d] = 0
                      /\ \A d \in Uio \ {"mbx"} : fd[d] \in {0, 1}
  /\ pc \in Running => OpenAre(Device)

(* What the two instances have set up, and who can be interrupted.         *)
SetupInv ==
  /\ pc = "off" => ~initialized /\ ~tbl /\ inst = 1 /\ ~irqOn
  /\ pc = "init" => (initialized <=> inst = 2)
  /\ pc = "irq" => ~initialized
  /\ pc \in {"mem", "map"} \cup Running => initialized
  /\ initialized /\ pc # "rmUio" => irqOn
  /\ pc \in {"init", "irq", "mem", "map"} => (tbl <=> inst = 2)
  /\ pc \in Running => slice = 1

(* Calls return to where they were made from.                              *)
CallsInv ==
  /\ pc = "ring" => cont # "off"
  /\ pc \in {"poll", "cwait"} => ret # "off"
  /\ pc = "ring" /\ cont = "poll" => ret # "off"

(* Outside a session nothing is counted; inside, the rings hold requests   *)
(* of this session, in order, and all newer than the last answer taken.    *)
Fresh == rdy /\ Frame \in {"wait", "waited"}
NumbersInv ==
  /\ pc \in {"off", "release"} \cup InitSteps
     => n = 0 /\ got = 0 /\ givenUp = 0 /\ ~rdy /\ ~bound
  /\ got <= n /\ givenUp <= n
  /\ Waiting => givenUp < n
  /\ Frame = "send" => n < MaxReq
  /\ Waiting /\ ~Fresh => n - got <= givenUp + 1
  /\ ~Waiting \/ Fresh => n - got <= givenUp
RingsInv ==
  pc \in Session =>
    /\ toR \subseteq (1..n) \cup {Bye} /\ toA \subseteq 1..n
    /\ \A a \in toA : got < a
    /\ \A r \in toR : got < r
    /\ \A a \in toA, r \in toR : a < r

(* No request before the firmware has announced itself.                    *)
UnboundInv ==
  /\ Frame \in {"top", "send", "sent", "wait", "waited", "done", "shut"} => bound
  /\ pc \in Session /\ fw = "wait" /\ 1 \in drv => ~bound /\ ~ns /\ toR = {}

(* What is left behind by a process that ended in order.                   *)
Quiet == fw \in {"off", "wait"} /\ drv = {} /\ ~owe /\ ~bellA
QuietInv ==
  /\ drv \subseteq {1}
  /\ pc \in {"off"} \cup InitSteps /\ left \in {"none", "clean"} => Quiet
  /\ pc = "release" => drv = {}
  /\ pc # "release" => waited = 0
  /\ pc = "release" /\ waited >= 2 => Quiet

IInv ==
  /\ TypeOK /\ DevicesInv /\ SetupInv /\ CallsInv /\ NumbersInv /\ RingsInv
  /\ UnboundInv /\ QuietInv /\ NoRequestForgotten

RprocFrame ==
  UNCHANGED <<sesVars, modeVars, callVars, ringVars, drv, fwVars, countVars>>

-----------------------------------------------------------------------------
(* The order of the natural numbers, for the oldest and the newest.        *)
Less == {ss \in Nat \X Nat : ss[1] < ss[2]}
LEMMA LessWellFounded == IsWellFoundedOn(Less, Nat)
BY NatLessThanWellFounded DEF Less, OpToRel

(* What is not behind another number is not above it.                      *)
LEMMA LessOrder ==
  ASSUME NEW x \in Nat, NEW y \in Nat, ~(<<y, x>> \in Less) PROVE x <= y
<1>1. ~(y < x)
  BY DEF Less
<1>2. QED
  BY <1>1, SMT

(* A set of naturals has a least member.                                   *)
LEMMA LeastExists ==
  ASSUME NEW S \in SUBSET Nat, S # {}
  PROVE  \E x \in S : \A y \in S : x <= y
<1>1. PICK x \in S : \A y \in S : ~(<<y, x>> \in Less)
  BY LessWellFounded, WFMin
<1>2. ASSUME NEW y \in S PROVE x <= y
  BY <1>1, LessOrder
<1>3. QED
  BY <1>2

(* What CHOOSE picks for the oldest is the least.                          *)
LEMMA OldestIsLeast ==
  ASSUME NEW S \in SUBSET Nat, S # {}
  PROVE  Oldest(S) \in S /\ \A y \in S : Oldest(S) <= y
BY LeastExists DEF Oldest

(* A bounded set has a greatest member: reflect it.                        *)
LEMMA NewestIsMember ==
  ASSUME NEW m \in Nat, NEW S \in SUBSET (0..m), S # {}
  PROVE  Newest(S) \in S
<1> DEFINE T == {x \in 0..m : m - x \in S}
<1>1. T # {}
  <2>1. PICK s \in S : TRUE
    OBVIOUS
  <2>2. m - s \in T
    BY SMT
  <2>3. QED
    BY <2>2
<1>2. T \in SUBSET Nat
  BY SMT
<1>3. PICK x \in T : \A y \in T : x <= y
  <2> HIDE DEF T
  <2>1. QED
    BY <1>1, <1>2, LeastExists
<1>4. ASSUME NEW y \in S PROVE m - x >= y
  <2>1. m - y \in T
    BY SMT
  <2>2. x <= m - y
    BY <1>3, <2>1
  <2>3. QED
    BY <2>2, SMT
<1>5. m - x \in S
  OBVIOUS
<1>6. QED
  BY <1>4, <1>5 DEF Newest

(* Every call is made in a session and returns into it.                    *)
LEMMA Returns ==
  /\ PollReturn \subseteq RingReturn /\ RingReturn \subseteq Session
  /\ {"ring", "poll", "cwait"} \subseteq Session
BY DEF PollReturn, RingReturn, Session

(* The answers in the ring, when there are any.                            *)
LEMMA NewestAnswer ==
  ASSUME TypeOK, toA # {} PROVE Newest(toA) \in toA
<1>1. toA \in SUBSET (0..MaxReq)
  BY DEF TypeOK, SharedTypeOK, Req
<1>2. QED
  BY <1>1, BoundsAssumption, NewestIsMember

(* The requests in the ring, when there are any.                           *)
LEMMA OldestRequest ==
  ASSUME TypeOK, toR # {}
  PROVE  Oldest(toR) \in toR /\ \A y \in toR : Oldest(toR) <= y
<1>1. toR \in SUBSET Nat
  BY BoundsAssumption DEF TypeOK, SharedTypeOK, Req, Bye
<1>2. QED
  BY <1>1, OldestIsLeast

(* The answer a drain keeps is one of this session and newer than the last.*)
LEMMA DrainGot ==
  ASSUME TypeOK, NumbersInv, RingsInv, pc \in Session, NEW next, Drain(next)
  PROVE  /\ got' \in 0..MaxReq /\ got <= got' /\ got' <= n
         /\ toA = {} => got' = got /\ (rdy' <=> rdy)
         /\ toA # {} => got < got' /\ rdy'
<1>1. CASE toA = {}
  BY <1>1 DEF Drain, TypeOK, NumberTypeOK, NumbersInv, ControlTypeOK
<1>2. CASE toA # {}
  <2>1. got' \in toA /\ rdy'
    BY <1>2, NewestAnswer DEF Drain
  <2>2. got' \in Req /\ got' \in 1..n /\ got < got'
    BY <2>1 DEF RingsInv, TypeOK, SharedTypeOK
  <2>3. got \in Nat /\ n \in Nat
    BY BoundsAssumption DEF TypeOK, NumberTypeOK
  <2>4. got' \in 0..MaxReq /\ got <= got' /\ got' <= n
    BY <2>2, <2>3, BoundsAssumption DEF Req
  <2>5. QED
    BY <1>2, <2>1, <2>2, <2>4
<1>3. QED
  BY <1>1, <1>2

(* One answer more makes up for one request.                               *)
LEMMA CatchUp ==
  ASSUME NEW m \in Nat, NEW h \in Nat, NEW h2 \in Nat, NEW u \in Nat,
         h < h2, m - h <= u + 1
  PROVE  m - h2 <= u
OBVIOUS

(* An answer that arrives makes up for the request that is waited for.     *)
LEMMA DrainNumbers ==
  ASSUME TypeOK, NumbersInv, RingsInv, pc \in Session, pc' \in Session,
         NEW next, Drain(next), UNCHANGED <<n, givenUp, ret>>,
         Waiting' <=> Waiting,
         Frame' = "send" <=> Frame = "send",
         Waiting <=> Frame \in {"wait", "waited"},
         Waiting' <=> Frame' \in {"wait", "waited"}
  PROVE  NumbersInv'
<1>1. /\ got' \in 0..MaxReq /\ got <= got' /\ got' <= n
      /\ toA = {} => got' = got /\ (rdy' <=> rdy)
      /\ toA # {} => got < got' /\ rdy'
  BY DrainGot
<1>2. n \in Nat /\ got \in Nat /\ got' \in Nat /\ givenUp \in Nat
  BY <1>1, BoundsAssumption DEF TypeOK, NumberTypeOK
<1>3. pc' \notin {"off", "release"} \cup InitSteps
  BY DEF Session, InitSteps
<1>4. Fresh' <=> rdy' /\ Waiting
  BY DEF Fresh
<1>5. Fresh <=> rdy /\ Waiting
  BY DEF Fresh
<1>6. CASE toA = {}
  BY <1>1, <1>2, <1>3, <1>4, <1>5, <1>6 DEF NumbersInv
<1>7. CASE toA # {}
  <2>1. got < got' /\ got' <= n /\ rdy'
    BY <1>1, <1>7
  <2>2. Waiting' => givenUp' < n'
    BY DEF NumbersInv
  <2>3. Frame' = "send" => n' < MaxReq
    BY DEF NumbersInv
  <2>4. n - got <= givenUp + 1
    <3>1. n - got <= givenUp \/ n - got <= givenUp + 1
      BY Zenon DEF NumbersInv
    <3>2. QED
      BY <1>2, <3>1
  <2>5. n - got' <= givenUp
    BY <1>2, <2>1, <2>4, CatchUp
  <2>6. QED
    BY <1>2, <1>3, <1>4, <2>1, <2>2, <2>3, <2>4, <2>5 DEF NumbersInv
<1>8. QED
  BY <1>6, <1>7

(* All that the invariants need of a step of a mode.                       *)
ModeProps ==
  /\ pc \in {"top", "done"} /\ pc' \in {"top", "send", "shut"}
  /\ pc' = "send" => n < MaxReq
  /\ phase' \in Phases /\ k' \in Nat /\ out' = "none" /\ busy' \in BOOLEAN

(* Each mode asks within its budget, and only from its own places.         *)
LEMMA JitterProps ==
  ASSUME TypeOK, Jitter PROVE ModeProps
<1>1. Budget[mode] \in 0..MaxReq
  BY BoundsAssumption DEF Jitter, Modes
<1>2. pc \in {"top", "done"} /\ pc' \in {"top", "send", "shut"} /\ out' = "none"
  BY DEF Jitter, Ask, Go, End
<1>3. pc' = "send" => n < MaxReq
  BY <1>1, BoundsAssumption DEF Jitter, Ask, Go, End, TypeOK, NumberTypeOK
<1>4. phase' \in Phases
  BY DEF Jitter, Ask, Go, End, Phases
<1>5. k' \in Nat
  <2>1. k' \in {0, k, k + 1}
    BY DEF Jitter, Ask, Go, End
  <2>2. QED
    BY <2>1 DEF TypeOK, NumberTypeOK
<1>6. busy' \in BOOLEAN
  BY DEF Jitter, TypeOK, ControlTypeOK
<1>7. QED
  BY <1>2, <1>3, <1>4, <1>5, <1>6 DEF ModeProps

LEMMA SnsJsonProps ==
  ASSUME TypeOK, SnsJson PROVE ModeProps
BY BoundsAssumption
  DEF SnsJson, Ask, Go, End, Fails, ModeProps, TypeOK, ControlTypeOK,
      NumberTypeOK, Phases

LEMMA SnsProps ==
  ASSUME TypeOK, Sns PROVE ModeProps
BY BoundsAssumption
  DEF Sns, Ask, Go, End, ModeProps, TypeOK, ControlTypeOK, NumberTypeOK, Phases

LEMMA UartdProps ==
  ASSUME TypeOK, Uartd PROVE ModeProps
BY BoundsAssumption
  DEF Uartd, Ask, Go, End, Fails, ModeProps, TypeOK, ControlTypeOK,
      NumberTypeOK, Phases

LEMMA PwmdProps ==
  ASSUME TypeOK, Pwmd PROVE ModeProps
BY BoundsAssumption
  DEF Pwmd, Ask, Go, End, Fails, ModeProps, TypeOK, ControlTypeOK,
      NumberTypeOK, Phases

LEMMA PwmProps ==
  ASSUME TypeOK, Pwm PROVE ModeProps
BY BoundsAssumption
  DEF Pwm, Ask, Go, End, ModeProps, TypeOK, ControlTypeOK, NumberTypeOK, Phases

LEMMA BenchProbeProps ==
  ASSUME TypeOK, BenchProbe PROVE ModeProps
BY BoundsAssumption
  DEF BenchProbe, Ask, Go, End, ModeProps, TypeOK, ControlTypeOK, NumberTypeOK,
      Phases

LEMMA BenchRoundsProps ==
  ASSUME TypeOK, BenchRounds PROVE ModeProps
BY BoundsAssumption
  DEF BenchRounds, Ask, Go, End, ModeProps, TypeOK, ControlTypeOK,
      NumberTypeOK, Phases

(* Whichever mode it is.                                                   *)
LEMMA ModeStep ==
  ASSUME TypeOK, Mode PROVE ModeProps
BY JitterProps, SnsJsonProps, SnsProps, UartdProps, PwmdProps, PwmProps,
   BenchProbeProps, BenchRoundsProps
  DEF Mode

(* The initial state satisfies the inductive invariant.                    *)
LEMMA InitInv == Init => IInv
<1> SUFFICES ASSUME Init PROVE IInv
  OBVIOUS
<1>1. ControlTypeOK
  BY DEF Init, RprocInit, ControlTypeOK, Phases
<1>2. DeviceTypeOK
  BY DEF Init, RprocInit, DeviceTypeOK
<1>3. NumberTypeOK
  BY BoundsAssumption DEF Init, NumberTypeOK
<1>4. SharedTypeOK
  BY DEF Init, RprocInit, SharedTypeOK
<1>5. DevicesInv
  BY DEF Init, RprocInit, DevicesInv, OpenAre, Running, Dropping, Session
<1>6. SetupInv
  BY DEF Init, RprocInit, SetupInv, Running, Session
<1>7. CallsInv
  BY DEF Init, RprocInit, CallsInv
<1>8. NumbersInv
  BY DEF Init, RprocInit, NumbersInv, Frame, Waiting
<1>9. RingsInv
  BY DEF Init, RingsInv
<1>10. UnboundInv
  BY DEF Init, RprocInit, UnboundInv, Frame
<1>11. QuietInv
  BY DEF Init, RprocInit, QuietInv, Quiet
<1>12. NoRequestForgotten
  BY DEF Init, NoRequestForgotten
<1>13. QED
  BY <1>1, <1>2, <1>3, <1>4, <1>5, <1>6, <1>7, <1>8, <1>9, <1>10, <1>11, <1>12
    DEF IInv, TypeOK

(* A process starts with nothing open and the counts at zero.              *)
LEMMA StartKeeps ==
  ASSUME NEW m \in Modes, NEW b \in BOOLEAN, IInv, Start(m, b) PROVE IInv'
<1> USE DEF IInv, TypeOK, vars, rprocVars, sesVars, modeVars, callVars,
            ringVars, fwVars, countVars, devVars, setVars, bellVars,
            stillRproc, RprocFrame
<1>1. DeviceTypeOK' /\ SharedTypeOK'
  BY DEF Start, DeviceTypeOK, SharedTypeOK
<1>2. ControlTypeOK'
  BY DEF Start, FirstPhase, ControlTypeOK, InitSteps, Phases
<1>3. NumberTypeOK'
  BY BoundsAssumption DEF Start, NumberTypeOK
<1>4. DevicesInv'
  BY DEF Start, DevicesInv, SetupInv, Session, OpenAre, Running, Dropping
<1>5. SetupInv'
  BY DEF Start, SetupInv, Session, Running
<1>6. CallsInv'
  BY DEF Start, CallsInv
<1>7. NumbersInv'
  BY DEF Start, NumbersInv, Frame, Waiting
<1>8. RingsInv'
  BY DEF Start, RingsInv, Session
<1>9. UnboundInv'
  BY DEF Start, UnboundInv, Session, Frame
<1>10. QuietInv'
  BY DEF Start, QuietInv, Quiet
<1>11. NoRequestForgotten'
  BY DEF Start, NoRequestForgotten, Session
<1>12. QED
  BY <1>1, <1>2, <1>3, <1>4, <1>5, <1>6, <1>7, <1>8, <1>9, <1>10, <1>11

(* The uio devices are opened once, all of them or all but one.            *)
LEMMA InitUioKeeps ==
  ASSUME IInv, InitUio, RprocFrame PROVE IInv'
<1> USE DEF IInv, TypeOK, vars, rprocVars, sesVars, modeVars, callVars,
            ringVars, fwVars, countVars, devVars, setVars, bellVars,
            stillRproc, RprocFrame
<1>1. NumberTypeOK' /\ SharedTypeOK'
  BY DEF InitUio, NumberTypeOK, SharedTypeOK
<1>2. ControlTypeOK'
  BY DEF InitUio, ControlTypeOK, InitSteps
<1>3. DeviceTypeOK'
  <2>1. \A d \in Device : ~initialized => fd[d] = 0
    BY DEF InitUio, DevicesInv, OpenAre
  <2>2. CASE pc' = "mem"
    BY <2>2 DEF InitUio, DeviceTypeOK
  <2>3. CASE pc' = "irq"
    <3>1. ~initialized /\ known' = known \cup Uio /\ fd' = Opened(Uio)
      BY <2>3 DEF InitUio
    <3>2. fd' = [d \in Device |-> IF d \in Uio THEN 1 ELSE 0]
      BY <2>1, <3>1 DEF Opened
    <3>3. QED
      BY <2>3, <3>1, <3>2 DEF InitUio, DeviceTypeOK, Device, Uio, Mem
  <2>4. CASE pc' = "remove"
    <3>1. PICK e \in Uio : fd' = Opened(Uio \ {e})
      BY <2>4 DEF InitUio
    <3>2. ~initialized /\ known' = known
      BY <2>4 DEF InitUio
    <3>3. fd' = [d \in Device |-> IF d \in Uio \ {e} THEN 1 ELSE 0]
      BY <2>1, <3>1, <3>2 DEF Opened
    <3>4. QED
      BY <2>4, <3>1, <3>2, <3>3 DEF InitUio, DeviceTypeOK, Device, Uio, Mem
  <2>5. QED
    BY <2>2, <2>3, <2>4 DEF InitUio
<1>4. DevicesInv'
  <2>1. \A d \in Device : ~initialized => fd[d] = 0
    BY DEF InitUio, DevicesInv, OpenAre
  <2>2. CASE pc' = "mem"
    BY <2>2 DEF InitUio, DevicesInv, Dropping, OpenAre
  <2>3. CASE pc' = "irq"
    <3>1. ~initialized /\ known' = known \cup Uio /\ fd' = Opened(Uio)
      BY <2>3 DEF InitUio
    <3>2. fd' = [d \in Device |-> IF d \in Uio THEN 1 ELSE 0]
      BY <2>1, <3>1 DEF Opened
    <3>3. QED
      BY <2>3, <3>1, <3>2
        DEF InitUio, DevicesInv, OpenAre, Running, Session, Dropping, Device,
            Uio, Mem
  <2>4. CASE pc' = "remove"
    <3>1. PICK e \in Uio : fd' = Opened(Uio \ {e})
      BY <2>4 DEF InitUio
    <3>2. ~initialized /\ known' = known
      BY <2>4 DEF InitUio
    <3>3. fd' = [d \in Device |-> IF d \in Uio \ {e} THEN 1 ELSE 0]
      BY <2>1, <3>1, <3>2 DEF Opened
    <3>4. QED
      BY <2>4, <3>1, <3>2, <3>3
        DEF InitUio, DevicesInv, OpenAre, Running, Session, Dropping, Device,
            Uio, Mem
  <2>5. QED
    BY <2>2, <2>3, <2>4 DEF InitUio
<1>5. SetupInv'
  BY DEF InitUio, SetupInv, Session, Running
<1>6. CallsInv'
  BY DEF InitUio, CallsInv
<1>7. NumbersInv'
  BY DEF InitUio, NumbersInv, InitSteps, Frame, Waiting
<1>8. RingsInv'
  BY DEF InitUio, RingsInv, Session
<1>9. UnboundInv'
  BY DEF InitUio, UnboundInv, Session, Frame
<1>10. QuietInv'
  BY DEF InitUio, QuietInv, InitSteps, Quiet
<1>11. NoRequestForgotten'
  BY DEF InitUio, NoRequestForgotten, Session
<1>12. QED
  BY <1>1, <1>2, <1>3, <1>4, <1>5, <1>6, <1>7, <1>8, <1>9, <1>10, <1>11

(* The handler is enabled before initialized is set.                       *)
LEMMA InitIrqKeeps ==
  ASSUME IInv, InitIrq, RprocFrame PROVE IInv'
<1> USE DEF IInv, TypeOK, vars, rprocVars, sesVars, modeVars, callVars,
            ringVars, fwVars, countVars, devVars, setVars, bellVars,
            stillRproc, RprocFrame
<1>1. NumberTypeOK' /\ SharedTypeOK'
  BY DEF InitIrq, NumberTypeOK, SharedTypeOK
<1>2. ControlTypeOK'
  BY DEF InitIrq, ControlTypeOK, InitSteps
<1>3. DeviceTypeOK'
  BY DEF InitIrq, DeviceTypeOK
<1>4. DevicesInv'
  BY DEF InitIrq, DevicesInv, Session, OpenAre, Running, Dropping
<1>5. SetupInv'
  BY DEF InitIrq, SetupInv, Session, Running
<1>6. CallsInv'
  BY DEF InitIrq, CallsInv
<1>7. NumbersInv'
  BY DEF InitIrq, NumbersInv, InitSteps, Frame, Waiting
<1>8. RingsInv'
  BY DEF InitIrq, RingsInv, Session
<1>9. UnboundInv'
  BY DEF InitIrq, UnboundInv, Session, Frame
<1>10. QuietInv'
  BY DEF InitIrq, QuietInv, InitSteps, Quiet
<1>11. NoRequestForgotten'
  BY DEF InitIrq, NoRequestForgotten, Session
<1>12. QED
  BY <1>1, <1>2, <1>3, <1>4, <1>5, <1>6, <1>7, <1>8, <1>9, <1>10, <1>11

(* The memory devices are opened by the first instance only.               *)
LEMMA InitMemKeeps ==
  ASSUME IInv, InitMem, RprocFrame PROVE IInv'
<1> USE DEF IInv, TypeOK, vars, rprocVars, sesVars, modeVars, callVars,
            ringVars, fwVars, countVars, devVars, setVars, bellVars,
            stillRproc, RprocFrame
<1>1. NumberTypeOK' /\ SharedTypeOK'
  BY DEF InitMem, NumberTypeOK, SharedTypeOK
<1>2. ControlTypeOK'
  BY DEF InitMem, ControlTypeOK, InitSteps
<1>3. DeviceTypeOK'
  BY DEF InitMem, Opened, MemShared, DeviceTypeOK, DevicesInv, Device, Uio,
         Mem, OpenAre
<1>4. DevicesInv'
  BY DEF InitMem, Opened, MemShared, DevicesInv, Session, Device, Uio, Mem,
         OpenAre, Running
<1>5. SetupInv'
  BY DEF InitMem, SetupInv, Session, Running
<1>6. CallsInv'
  BY DEF InitMem, CallsInv
<1>7. NumbersInv'
  BY DEF InitMem, NumbersInv, InitSteps, Frame, Waiting
<1>8. RingsInv'
  BY DEF InitMem, RingsInv, Session
<1>9. UnboundInv'
  BY DEF InitMem, UnboundInv, Session, Frame
<1>10. QuietInv'
  BY DEF InitMem, QuietInv, InitSteps, Quiet
<1>11. NoRequestForgotten'
  BY DEF InitMem, NoRequestForgotten, Session
<1>12. QED
  BY <1>1, <1>2, <1>3, <1>4, <1>5, <1>6, <1>7, <1>8, <1>9, <1>10, <1>11

(* The instance that is kept gets the slice it names.                      *)
LEMMA MapTableKeeps ==
  ASSUME NEW ok \in BOOLEAN, IInv, MapTable(ok), RprocFrame PROVE IInv'
<1> USE DEF IInv, TypeOK, vars, rprocVars, sesVars, modeVars, callVars,
            ringVars, fwVars, countVars, devVars, setVars, bellVars,
            stillRproc, RprocFrame
<1>1. NumberTypeOK' /\ SharedTypeOK'
  BY DEF MapTable, NumberTypeOK, SharedTypeOK
<1>2. ControlTypeOK'
  BY DEF MapTable, ControlTypeOK, InitSteps
<1>3. DeviceTypeOK'
  BY DEF MapTable, DeviceTypeOK
<1>4. DevicesInv'
  BY DEF MapTable, DevicesInv, SetupInv, Device, Uio, OpenAre
<1>5. SetupInv'
  BY DEF MapTable, DeviceTypeOK, SetupInv, Session, Running
<1>6. CallsInv'
  BY DEF MapTable, CallsInv
<1>7. NumbersInv'
  BY DEF MapTable, NumbersInv, InitSteps, Frame, Waiting
<1>8. RingsInv'
  BY DEF MapTable, RingsInv, Session
<1>9. UnboundInv'
  BY DEF MapTable, UnboundInv, Session, Frame
<1>10. QuietInv'
  BY DEF MapTable, QuietInv, InitSteps, Quiet
<1>11. NoRequestForgotten'
  BY DEF MapTable, NoRequestForgotten, Session
<1>12. QED
  BY <1>1, <1>2, <1>3, <1>4, <1>5, <1>6, <1>7, <1>8, <1>9, <1>10, <1>11

(* The mailbox is closed and stays known.                                  *)
LEMMA Err1Keeps ==
  ASSUME IInv, Err1, RprocFrame PROVE IInv'
<1> USE DEF IInv, TypeOK, vars, rprocVars, sesVars, modeVars, callVars,
            ringVars, fwVars, countVars, devVars, setVars, bellVars,
            stillRproc, RprocFrame
<1>1. NumberTypeOK' /\ SharedTypeOK'
  BY DEF Err1, NumberTypeOK, SharedTypeOK
<1>2. ControlTypeOK'
  BY DEF Err1, ControlTypeOK, InitSteps
<1>3. DeviceTypeOK'
  BY DEF Err1, Closed, DeviceTypeOK, DevicesInv, OpenAre
<1>4. DevicesInv'
  BY DEF Err1, Closed, DevicesInv, Session, Device, Uio, Mem, OpenAre, Running
<1>5. SetupInv'
  BY DEF Err1, SetupInv, Session, Running
<1>6. CallsInv'
  BY DEF Err1, CallsInv
<1>7. NumbersInv'
  BY DEF Err1, NumbersInv, InitSteps, Frame, Waiting
<1>8. RingsInv'
  BY DEF Err1, RingsInv, Session
<1>9. UnboundInv'
  BY DEF Err1, UnboundInv, Session, Frame
<1>10. QuietInv'
  BY DEF Err1, QuietInv, InitSteps, Quiet
<1>11. NoRequestForgotten'
  BY DEF Err1, NoRequestForgotten, Session
<1>12. QED
  BY <1>1, <1>2, <1>3, <1>4, <1>5, <1>6, <1>7, <1>8, <1>9, <1>10, <1>11

(* What is known of the memory is open.                                    *)
LEMMA RemoveMemKeeps ==
  ASSUME IInv, RemoveMem, RprocFrame PROVE IInv'
<1> USE DEF IInv, TypeOK, vars, rprocVars, sesVars, modeVars, callVars,
            ringVars, fwVars, countVars, devVars, setVars, bellVars,
            stillRproc, RprocFrame
<1>1. NumberTypeOK' /\ SharedTypeOK'
  BY DEF RemoveMem, NumberTypeOK, SharedTypeOK
<1>2. ControlTypeOK'
  BY DEF RemoveMem, ControlTypeOK, InitSteps
<1>3. DeviceTypeOK'
  BY DEF RemoveMem, Closed, DeviceTypeOK, DevicesInv, Dropping
<1>4. DevicesInv'
  BY DEF RemoveMem, Closed, DevicesInv, Session, Device, Uio, Running, Dropping
<1>5. SetupInv'
  BY DEF RemoveMem, SetupInv, Session, Running
<1>6. CallsInv'
  BY DEF RemoveMem, CallsInv
<1>7. NumbersInv'
  BY DEF RemoveMem, NumbersInv, InitSteps, Frame, Waiting
<1>8. RingsInv'
  BY DEF RemoveMem, RingsInv, Session
<1>9. UnboundInv'
  BY DEF RemoveMem, UnboundInv, Session, Frame
<1>10. QuietInv'
  BY DEF RemoveMem, QuietInv, InitSteps, Quiet
<1>11. NoRequestForgotten'
  BY DEF RemoveMem, NoRequestForgotten, Session
<1>12. QED
  BY <1>1, <1>2, <1>3, <1>4, <1>5, <1>6, <1>7, <1>8, <1>9, <1>10, <1>11

(* Until here the handler stays enabled.                                   *)
LEMMA RemoveIrqKeeps ==
  ASSUME IInv, RemoveIrq, RprocFrame PROVE IInv'
<1> USE DEF IInv, TypeOK, vars, rprocVars, sesVars, modeVars, callVars,
            ringVars, fwVars, countVars, devVars, setVars, bellVars,
            stillRproc, RprocFrame
<1>1. NumberTypeOK' /\ SharedTypeOK'
  BY DEF RemoveIrq, NumberTypeOK, SharedTypeOK
<1>2. ControlTypeOK'
  BY DEF RemoveIrq, ControlTypeOK, InitSteps
<1>3. DeviceTypeOK'
  BY DEF RemoveIrq, DeviceTypeOK
<1>4. DevicesInv'
  BY DEF RemoveIrq, DevicesInv, Session, Running, Dropping
<1>5. SetupInv'
  BY DEF RemoveIrq, SetupInv, Session, Running
<1>6. CallsInv'
  BY DEF RemoveIrq, CallsInv
<1>7. NumbersInv'
  BY DEF RemoveIrq, NumbersInv, InitSteps, Frame, Waiting
<1>8. RingsInv'
  BY DEF RemoveIrq, RingsInv, Session
<1>9. UnboundInv'
  BY DEF RemoveIrq, UnboundInv, Session, Frame
<1>10. QuietInv'
  BY DEF RemoveIrq, QuietInv, InitSteps, Quiet
<1>11. NoRequestForgotten'
  BY DEF RemoveIrq, NoRequestForgotten, Session
<1>12. QED
  BY <1>1, <1>2, <1>3, <1>4, <1>5, <1>6, <1>7, <1>8, <1>9, <1>10, <1>11

(* Nothing stays known.                                                    *)
LEMMA RemoveUioKeeps ==
  ASSUME IInv, RemoveUio, RprocFrame PROVE IInv'
<1> USE DEF IInv, TypeOK, vars, rprocVars, sesVars, modeVars, callVars,
            ringVars, fwVars, countVars, devVars, setVars, bellVars,
            stillRproc, RprocFrame
<1>1. NumberTypeOK' /\ SharedTypeOK'
  BY DEF RemoveUio, NumberTypeOK, SharedTypeOK
<1>2. ControlTypeOK'
  BY DEF RemoveUio, ControlTypeOK, InitSteps
<1>3. DeviceTypeOK'
  <2>1. \A d \in Device : fd[d] \in {0, 1}
    BY DEF RemoveUio, DevicesInv, Dropping, Device
  <2>2. fd' \in [Device -> {-1, 0, 1}]
    BY <2>1 DEF RemoveUio, Closed
  <2>3. QED
    BY <2>2 DEF RemoveUio, DeviceTypeOK, Device, Uio, Mem
<1>4. DevicesInv'
  BY DEF RemoveUio, Closed, DeviceTypeOK, DevicesInv, Session, Device, Running,
         Dropping
<1>5. SetupInv'
  BY DEF RemoveUio, SetupInv, Session, Running
<1>6. CallsInv'
  BY DEF RemoveUio, CallsInv
<1>7. NumbersInv'
  BY DEF RemoveUio, NumbersInv, InitSteps, Frame, Waiting
<1>8. RingsInv'
  BY DEF RemoveUio, RingsInv, Session
<1>9. UnboundInv'
  BY DEF RemoveUio, UnboundInv, Session, Frame
<1>10. QuietInv'
  BY DEF RemoveUio, QuietInv, InitSteps, Quiet
<1>11. NoRequestForgotten'
  BY DEF RemoveUio, NoRequestForgotten, Session
<1>12. QED
  BY <1>1, <1>2, <1>3, <1>4, <1>5, <1>6, <1>7, <1>8, <1>9, <1>10, <1>11

(* Whether it rings or gives up, the doorbell is set afterwards.           *)
LEMMA RingKeeps ==
  ASSUME IInv, Ring, RprocFrame PROVE IInv'
<1> USE DEF IInv, TypeOK, vars, rprocVars, sesVars, modeVars, callVars,
            ringVars, fwVars, countVars, devVars, setVars, bellVars,
            stillRproc, RprocFrame
<1>1. DeviceTypeOK' /\ NumberTypeOK'
  BY DEF Ring, DeviceTypeOK, NumberTypeOK
<1>2. ControlTypeOK'
  BY DEF Ring, ControlTypeOK, Session, RingReturn, PollReturn
<1>3. SharedTypeOK'
  BY DEF Ring, SharedTypeOK
<1>4. DevicesInv'
  BY DEF Ring, ControlTypeOK, DevicesInv, CallsInv, Session, RingReturn,
         PollReturn, OpenAre, Running, Dropping
<1>5. SetupInv'
  BY DEF Ring, ControlTypeOK, SetupInv, CallsInv, Session, RingReturn,
         PollReturn, Running
<1>6. CallsInv'
  BY DEF Ring, ControlTypeOK, CallsInv, RingReturn, PollReturn
<1>7. NumbersInv'
  BY DEF Ring, ControlTypeOK, CallsInv, NumbersInv, InitSteps, RingReturn,
         PollReturn, Fresh, Frame, Waiting
<1>8. RingsInv'
  BY DEF Ring, RingsInv, Session
<1>9. UnboundInv'
  BY DEF Ring, UnboundInv, Session, Frame
<1>10. QuietInv'
  BY DEF Ring, ControlTypeOK, CallsInv, QuietInv, InitSteps, RingReturn,
         PollReturn
<1>11. NoRequestForgotten'
  BY DEF Ring, NoRequestForgotten
<1>12. QED
  BY <1>1, <1>2, <1>3, <1>4, <1>5, <1>6, <1>7, <1>8, <1>9, <1>10, <1>11

(* The handler takes the doorbell.                                         *)
LEMMA IrqTakeKeeps ==
  ASSUME IInv, IrqTake, RprocFrame PROVE IInv'
<1> USE DEF IInv, TypeOK, vars, rprocVars, sesVars, modeVars, callVars,
            ringVars, fwVars, countVars, devVars, setVars, bellVars,
            stillRproc, RprocFrame
<1>1. /\ ControlTypeOK' /\ NumberTypeOK' /\ DevicesInv'
      /\ SetupInv' /\ CallsInv' /\ NumbersInv'
      /\ RingsInv' /\ UnboundInv' /\ NoRequestForgotten'
  BY DEF IrqTake, ClearDoorbell, ControlTypeOK, NumberTypeOK, DevicesInv,
         SetupInv, CallsInv, NumbersInv, RingsInv, UnboundInv,
         NoRequestForgotten, OpenAre, Fresh, Frame, Waiting, Frame
<1>2. DeviceTypeOK'
  BY DEF IrqTake, ClearSync, DeviceTypeOK
<1>3. SharedTypeOK'
  BY DEF IrqTake, ClearDoorbell, SharedTypeOK
<1>4. QuietInv'
  BY DEF IrqTake, QuietInv, Quiet
<1>5. QED
  BY <1>1, <1>2, <1>3, <1>4

(* A sleeping poller wakes, or the signal is lost.                         *)
LEMMA IrqSignalKeeps ==
  ASSUME IInv, IrqSignal, RprocFrame PROVE IInv'
<1> USE DEF IInv, TypeOK, vars, rprocVars, sesVars, modeVars, callVars,
            ringVars, fwVars, countVars, devVars, setVars, bellVars,
            stillRproc, RprocFrame
<1>1. NumberTypeOK' /\ SharedTypeOK'
  BY DEF IrqSignal, NumberTypeOK, SharedTypeOK
<1>2. ControlTypeOK'
  BY DEF IrqSignal, ControlTypeOK, Session
<1>3. DeviceTypeOK'
  BY DEF IrqSignal, DeviceTypeOK
<1>4. DevicesInv'
  BY DEF IrqSignal, DevicesInv, Session, OpenAre, Running, Dropping
<1>5. SetupInv'
  BY DEF IrqSignal, SetupInv, Session, Running
<1>6. CallsInv'
  BY DEF IrqSignal, CallsInv
<1>7. NumbersInv'
  BY DEF IrqSignal, NumbersInv, InitSteps, Fresh, Frame, Waiting
<1>8. RingsInv'
  BY DEF IrqSignal, RingsInv, Session
<1>9. UnboundInv'
  BY DEF IrqSignal, UnboundInv, Session, Frame
<1>10. QuietInv'
  BY DEF IrqSignal, QuietInv, InitSteps, Quiet
<1>11. NoRequestForgotten'
  BY DEF IrqSignal, NoRequestForgotten, Session
<1>12. QED
  BY <1>1, <1>2, <1>3, <1>4, <1>5, <1>6, <1>7, <1>8, <1>9, <1>10, <1>11

(* A process that dies leaves no numbers.                                  *)
LEMMA CrashKeeps ==
  ASSUME IInv, Crash PROVE IInv'
<1> USE DEF IInv, TypeOK, vars, rprocVars, sesVars, modeVars, callVars,
            ringVars, fwVars, countVars, devVars, setVars, bellVars,
            stillRproc, RprocFrame
<1>1. ControlTypeOK'
  BY DEF Crash, Gone, RprocGone, ControlTypeOK, Phases
<1>2. DeviceTypeOK'
  BY DEF Crash, Gone, RprocGone, DeviceTypeOK
<1>3. NumberTypeOK'
  BY BoundsAssumption DEF Crash, Gone, NumberTypeOK
<1>4. SharedTypeOK'
  BY DEF Crash, ClearDoorbell, SharedTypeOK
<1>5. DevicesInv'
  BY DEF Crash, Gone, RprocGone, DevicesInv, Session, Device, Uio, OpenAre,
         Running
<1>6. SetupInv'
  BY DEF Crash, Gone, RprocGone, SetupInv, Session, Running
<1>7. CallsInv'
  BY DEF Crash, Gone, RprocGone, CallsInv
<1>8. NumbersInv'
  BY DEF Crash, Gone, RprocGone, NumbersInv, Frame, Waiting
<1>9. RingsInv'
  BY DEF Crash, Gone, RprocGone, RingsInv, Session
<1>10. UnboundInv'
  BY DEF Crash, Gone, RprocGone, UnboundInv, Session, Frame
<1>11. QuietInv'
  BY DEF Crash, Gone, RprocGone, QuietInv
<1>12. NoRequestForgotten'
  BY DEF Crash, Gone, RprocGone, NoRequestForgotten, Session
<1>13. QED
  BY <1>1, <1>2, <1>3, <1>4, <1>5, <1>6, <1>7, <1>8, <1>9, <1>10, <1>11, <1>12

(* A signal only takes DRIVER_OK away.                                     *)
LEMMA SignalKeeps ==
  ASSUME IInv, Signal PROVE IInv'
<1> USE DEF IInv, TypeOK, vars, rprocVars, sesVars, modeVars, callVars,
            ringVars, fwVars, countVars, devVars, setVars, bellVars,
            stillRproc, RprocFrame
<1>1. /\ DeviceTypeOK' /\ NumberTypeOK' /\ DevicesInv'
      /\ SetupInv' /\ CallsInv' /\ NumbersInv'
      /\ RingsInv' /\ NoRequestForgotten'
  BY DEF Signal, DeviceTypeOK, NumberTypeOK, DevicesInv, SetupInv, CallsInv,
         NumbersInv, RingsInv, NoRequestForgotten, OpenAre, Fresh, Frame,
         Waiting
<1>2. ControlTypeOK'
  BY DEF Signal, ControlTypeOK
<1>3. SharedTypeOK'
  BY DEF Signal, Released, SharedTypeOK
<1>4. UnboundInv'
  BY DEF Signal, Released, UnboundInv, Frame
<1>5. QuietInv'
  BY DEF Signal, Released, QuietInv, Quiet
<1>6. QED
  BY <1>1, <1>2, <1>3, <1>4, <1>5

(* A killed process is not one that ended in order.                        *)
LEMMA KillKeeps ==
  ASSUME IInv, Kill PROVE IInv'
<1> USE DEF IInv, TypeOK, vars, rprocVars, sesVars, modeVars, callVars,
            ringVars, fwVars, countVars, devVars, setVars, bellVars,
            stillRproc, RprocFrame
<1>1. SharedTypeOK'
  BY DEF Kill, SharedTypeOK
<1>2. ControlTypeOK'
  BY DEF Kill, Gone, RprocGone, ControlTypeOK, Phases
<1>3. DeviceTypeOK'
  BY DEF Kill, Gone, RprocGone, DeviceTypeOK
<1>4. NumberTypeOK'
  BY BoundsAssumption DEF Kill, Gone, NumberTypeOK
<1>5. DevicesInv'
  BY DEF Kill, Gone, RprocGone, DevicesInv, Session, OpenAre, Running, Dropping
<1>6. SetupInv'
  BY DEF Kill, Gone, RprocGone, SetupInv, Session, Running
<1>7. CallsInv'
  BY DEF Kill, Gone, RprocGone, CallsInv
<1>8. NumbersInv'
  BY DEF Kill, Gone, RprocGone, NumbersInv, Frame, Waiting
<1>9. RingsInv'
  BY DEF Kill, Gone, RprocGone, RingsInv, Session
<1>10. UnboundInv'
  BY DEF Kill, Gone, RprocGone, UnboundInv, Session, Frame
<1>11. QuietInv'
  BY DEF Kill, Gone, RprocGone, QuietInv
<1>12. NoRequestForgotten'
  BY DEF Kill, Gone, RprocGone, NoRequestForgotten, Session
<1>13. QED
  BY <1>1, <1>2, <1>3, <1>4, <1>5, <1>6, <1>7, <1>8, <1>9, <1>10, <1>11, <1>12

(* A failed process has left nothing behind.                               *)
LEMMA FailedKeeps ==
  ASSUME IInv, Failed PROVE IInv'
<1> USE DEF IInv, TypeOK, vars, rprocVars, sesVars, modeVars, callVars,
            ringVars, fwVars, countVars, devVars, setVars, bellVars,
            stillRproc, RprocFrame
<1>1. SharedTypeOK'
  BY DEF Failed, SharedTypeOK
<1>2. ControlTypeOK'
  BY DEF Failed, Gone, RprocGone, ControlTypeOK, Phases
<1>3. DeviceTypeOK'
  BY DEF Failed, Gone, RprocGone, DeviceTypeOK
<1>4. NumberTypeOK'
  BY BoundsAssumption DEF Failed, Gone, NumberTypeOK
<1>5. DevicesInv'
  BY DEF Failed, Gone, RprocGone, DevicesInv, Session, OpenAre, Running,
         Dropping
<1>6. SetupInv'
  BY DEF Failed, Gone, RprocGone, SetupInv, Session, Running
<1>7. CallsInv'
  BY DEF Failed, Gone, RprocGone, CallsInv
<1>8. NumbersInv'
  BY DEF Failed, Gone, RprocGone, NumbersInv, Frame, Waiting
<1>9. RingsInv'
  BY DEF Failed, Gone, RprocGone, RingsInv, Session
<1>10. UnboundInv'
  BY DEF Failed, Gone, RprocGone, UnboundInv, Session, Frame
<1>11. QuietInv'
  BY DEF Failed, Gone, RprocGone, QuietInv, InitSteps, Quiet
<1>12. NoRequestForgotten'
  BY DEF Failed, Gone, RprocGone, NoRequestForgotten, Session
<1>13. QED
  BY <1>1, <1>2, <1>3, <1>4, <1>5, <1>6, <1>7, <1>8, <1>9, <1>10, <1>11, <1>12

(* The session begins with empty rings and unbound.                        *)
LEMMA CreateVdevKeeps ==
  ASSUME IInv, CreateVdev PROVE IInv'
<1> USE DEF IInv, TypeOK, vars, rprocVars, sesVars, modeVars, callVars,
            ringVars, fwVars, countVars, devVars, setVars, bellVars,
            stillRproc, RprocFrame
<1>1. DeviceTypeOK' /\ NumberTypeOK'
  BY DEF CreateVdev, DeviceTypeOK, NumberTypeOK
<1>2. ControlTypeOK'
  BY DEF CreateVdev, ControlTypeOK, Session
<1>3. SharedTypeOK'
  BY DEF CreateVdev, SharedTypeOK, SetupInv, Running
<1>4. DevicesInv'
  BY DEF CreateVdev, DevicesInv, OpenAre, Running, Dropping
<1>5. SetupInv'
  BY DEF CreateVdev, SetupInv, Running
<1>6. CallsInv'
  BY DEF CreateVdev, CallsInv
<1>7. NumbersInv'
  BY DEF CreateVdev, NumbersInv, InitSteps, Frame, Waiting
<1>8. RingsInv'
  BY DEF CreateVdev, RingsInv
<1>9. UnboundInv'
  BY DEF CreateVdev, NumbersInv, UnboundInv, InitSteps, Frame
<1>10. QuietInv'
  BY DEF CreateVdev, SetupInv, QuietInv, InitSteps, Running
<1>11. NoRequestForgotten'
  BY DEF CreateVdev, NoRequestForgotten
<1>12. QED
  BY <1>1, <1>2, <1>3, <1>4, <1>5, <1>6, <1>7, <1>8, <1>9, <1>10, <1>11

(* DRIVER_OK goes with the device.                                         *)
LEMMA VdevFailsKeeps ==
  ASSUME IInv, VdevFails PROVE IInv'
<1> USE DEF IInv, TypeOK, vars, rprocVars, sesVars, modeVars, callVars,
            ringVars, fwVars, countVars, devVars, setVars, bellVars,
            stillRproc, RprocFrame
<1>1. ControlTypeOK'
  <2>1. CASE pc' = "remove"
    BY <2>1 DEF VdevFails, Gone, RprocGone, ControlTypeOK, InitSteps
  <2>2. CASE Gone("failed")
    BY <2>2 DEF Gone, RprocGone, ControlTypeOK, Phases
  <2>3. QED
    BY <2>1, <2>2 DEF VdevFails, Gone, RprocGone
<1>2. DeviceTypeOK'
  BY DEF VdevFails, Gone, RprocGone, DeviceTypeOK, Device, Uio, Mem, NoSlice
<1>3. NumberTypeOK'
  BY BoundsAssumption DEF VdevFails, Gone, NumberTypeOK
<1>4. SharedTypeOK'
  BY BoundsAssumption
    DEF VdevFails, Gone, RprocGone, NumberTypeOK, SharedTypeOK, SetupInv,
        NumbersInv, Req, Bye, Running, Session, InitSteps, Fresh, Frame,
        Waiting, Mapped
<1>5. DevicesInv'
  BY DEF VdevFails, Gone, RprocGone, DevicesInv, OpenAre, Running, Dropping,
         Session, Device, Uio, Mem
<1>6. SetupInv'
  BY DEF VdevFails, Gone, RprocGone, SetupInv, Session, Running
<1>7. CallsInv'
  BY DEF VdevFails, Gone, RprocGone, CallsInv
<1>8. NumbersInv'
  BY DEF VdevFails, Gone, RprocGone, NumbersInv, InitSteps, Frame, Waiting
<1>9. RingsInv'
  BY DEF VdevFails, Gone, RprocGone, RingsInv, Session
<1>10. UnboundInv'
  BY DEF VdevFails, Gone, RprocGone, UnboundInv, Session, Frame
<1>11. QuietInv'
  <2>1. drv' = {}
    BY DEF VdevFails, QuietInv, SetupInv, Running
  <2>2. pc' \in {"remove", "off"} /\ left' = left /\ waited' = 0
    BY DEF VdevFails, Gone, RprocGone, QuietInv
  <2>3. left \in {"none", "clean"} => Quiet
    BY DEF VdevFails, QuietInv, InitSteps
  <2>4. UNCHANGED <<fw, owe, bellA>>
    BY DEF VdevFails
  <2>5. QED
    BY <2>1, <2>2, <2>3, <2>4 DEF QuietInv, Quiet
<1>12. NoRequestForgotten'
  BY DEF VdevFails, Gone, RprocGone, NoRequestForgotten, Session
<1>13. QED
  BY <1>1, <1>2, <1>3, <1>4, <1>5, <1>6, <1>7, <1>8, <1>9, <1>10, <1>11, <1>12

(* The mode begins only when bound.                                        *)
LEMMA BindKeeps ==
  ASSUME IInv, Bind PROVE IInv'
<1> USE DEF IInv, TypeOK, vars, rprocVars, sesVars, modeVars, callVars,
            ringVars, fwVars, countVars, devVars, setVars, bellVars,
            stillRproc, RprocFrame
<1>1. DeviceTypeOK' /\ NumberTypeOK' /\ SharedTypeOK'
  BY DEF Bind, DeviceTypeOK, NumberTypeOK, SharedTypeOK
<1>2. ControlTypeOK'
  BY DEF Bind, CallPoll, ControlTypeOK, Session, PollReturn
<1>3. DevicesInv'
  BY DEF Bind, CallPoll, DevicesInv, Session, OpenAre, Running, Dropping
<1>4. SetupInv'
  BY DEF Bind, CallPoll, SetupInv, Session, Running
<1>5. CallsInv'
  BY DEF Bind, CallPoll, CallsInv
<1>6. NumbersInv'
  BY DEF Bind, CallPoll, NumbersInv, InitSteps, Frame, Waiting
<1>7. RingsInv'
  BY DEF Bind, RingsInv, Session
<1>8. UnboundInv'
  BY DEF Bind, CallPoll, UnboundInv, Session, Frame
<1>9. QuietInv'
  BY DEF Bind, CallPoll, QuietInv, InitSteps
<1>10. NoRequestForgotten'
  BY DEF Bind, NoRequestForgotten, Session
<1>11. QED
  BY <1>1, <1>2, <1>3, <1>4, <1>5, <1>6, <1>7, <1>8, <1>9, <1>10

(* A poll takes the newest answer, which is newer than the last.           *)
LEMMA PollKeeps ==
  ASSUME IInv, Poll PROVE IInv'
<1> USE DEF IInv, TypeOK, vars, rprocVars, sesVars, modeVars, callVars,
            ringVars, fwVars, countVars, devVars, setVars, bellVars,
            stillRproc, RprocFrame
<1>0. toA # {} => Newest(toA) \in toA
  BY NewestAnswer
<1>1. ControlTypeOK'
  <2>1. ret \in PollReturn
    BY DEF Poll, CallsInv, ControlTypeOK
  <2>2. pc' \in Session /\ cont' \in RingReturn \cup {"off"}
    BY <2>1, Returns DEF Poll, Drain, ControlTypeOK
  <2>3. bound' \in BOOLEAN /\ rdy' \in BOOLEAN
    BY DEF Poll, Drain, ControlTypeOK
  <2>4. QED
    BY <2>2, <2>3 DEF Poll, ControlTypeOK
<1>2. DeviceTypeOK'
  BY DEF Poll, DeviceTypeOK
<1>3. NumberTypeOK'
  <2>1. CASE Stopped \/ sync
    BY <2>1 DEF Poll, NumberTypeOK
  <2>2. CASE ~Stopped /\ ~sync
    <3>1. Drain(ret) /\ pc \in Session
      BY <2>2 DEF Poll, Session
    <3>2. QED
      BY <3>1, DrainGot DEF Poll, NumberTypeOK
  <2>3. QED
    BY <2>1, <2>2
<1>4. SharedTypeOK'
  BY DEF Poll, Drain, SharedTypeOK
<1>5. DevicesInv'
  BY DEF Poll, Drain, ControlTypeOK, DevicesInv, CallsInv, Session, PollReturn,
         OpenAre, Running, Dropping
<1>6. SetupInv'
  BY DEF Poll, Drain, ControlTypeOK, SetupInv, CallsInv, InitSteps, PollReturn,
         Running
<1>7. CallsInv'
  BY DEF Poll, Drain, ControlTypeOK, CallsInv, PollReturn
<1>8. NumbersInv'
  <2>1. CASE Stopped
    BY <2>1
      DEF Poll, NumbersInv, Fresh, Waiting, Frame, CallsInv, ControlTypeOK,
          PollReturn, InitSteps
  <2>2. CASE ~Stopped /\ sync
    <3>0. pc = "poll" /\ pc' = "cwait" /\ UNCHANGED <<n, got, givenUp, rdy, bound, ret>>
      BY <2>2 DEF Poll
    <3>1. Frame' = Frame
      BY <3>0 DEF Frame
    <3>2. (Waiting' <=> Waiting) /\ (Fresh' <=> Fresh)
      BY <3>0, <3>1 DEF Waiting, Fresh
    <3>3. pc' \notin {"off", "release"} \cup InitSteps
      BY <3>0 DEF InitSteps
    <3>4. QED
      BY <3>0, <3>1, <3>2, <3>3 DEF NumbersInv
  <2>3. CASE ~Stopped /\ ~sync
    <3>1. Drain(ret) /\ UNCHANGED <<n, givenUp, ret>>
      BY <2>3 DEF Poll
    <3>2. /\ Waiting' <=> Waiting
          /\ Frame' = "send" <=> Frame = "send"
          /\ Waiting <=> Frame \in {"wait", "waited"}
          /\ Waiting' <=> Frame' \in {"wait", "waited"}
      BY <2>3 DEF Poll, Drain, Frame, Waiting, ControlTypeOK, PollReturn
    <3>3. pc \in Session /\ pc' \in Session
      BY <2>3 DEF Poll, Drain, Session, ControlTypeOK, CallsInv, PollReturn
    <3>4. QED
      BY <3>1, <3>2, <3>3, DrainNumbers
  <2>4. QED
    BY <2>1, <2>2, <2>3
<1>9. RingsInv'
  BY <1>0 DEF Poll, Drain, RingsInv, Session
<1>10. UnboundInv'
  BY DEF Poll, Drain, ControlTypeOK, UnboundInv, Session, PollReturn, Frame
<1>11. QuietInv'
  BY DEF Poll, Drain, ControlTypeOK, CallsInv, QuietInv, InitSteps, PollReturn
<1>12. NoRequestForgotten'
  BY DEF Poll, NoRequestForgotten, Session
<1>13. QED
  BY <1>1, <1>2, <1>3, <1>4, <1>5, <1>6, <1>7, <1>8, <1>9, <1>10, <1>11, <1>12

(* So does a wait that ends.                                               *)
LEMMA TimedOutKeeps ==
  ASSUME IInv, TimedOut PROVE IInv'
<1> USE DEF IInv, TypeOK, vars, rprocVars, sesVars, modeVars, callVars,
            ringVars, fwVars, countVars, devVars, setVars, bellVars,
            stillRproc, RprocFrame
<1>0. toA # {} => Newest(toA) \in toA
  BY NewestAnswer
<1>1. DeviceTypeOK'
  BY DEF TimedOut, DeviceTypeOK
<1>2. ControlTypeOK'
  BY DEF TimedOut, Drain, ControlTypeOK, Session, RingReturn
<1>3. NumberTypeOK'
  BY <1>0 DEF TimedOut, Drain, NumberTypeOK, SharedTypeOK, Req
<1>4. SharedTypeOK'
  BY DEF TimedOut, Drain, SharedTypeOK
<1>5. DevicesInv'
  BY DEF TimedOut, Drain, DevicesInv, Session, OpenAre, Running, Dropping
<1>6. SetupInv'
  BY DEF TimedOut, Drain, SetupInv, Session, Running
<1>7. CallsInv'
  BY DEF TimedOut, Drain, CallsInv
<1>8. NumbersInv'
  <2>1. Drain("poll") /\ UNCHANGED <<n, givenUp, ret>>
    BY DEF TimedOut
  <2>2. /\ Waiting' <=> Waiting
        /\ Frame' = "send" <=> Frame = "send"
        /\ Waiting <=> Frame \in {"wait", "waited"}
        /\ Waiting' <=> Frame' \in {"wait", "waited"}
    BY DEF TimedOut, Drain, Frame, Waiting, ControlTypeOK, PollReturn
  <2>3. pc \in Session /\ pc' \in Session
    BY DEF TimedOut, Drain, Session
  <2>4. QED
    BY <2>1, <2>2, <2>3, DrainNumbers
<1>9. RingsInv'
  BY <1>0 DEF TimedOut, Drain, RingsInv, Session
<1>10. UnboundInv'
  BY DEF TimedOut, Drain, UnboundInv, Session, Frame
<1>11. QuietInv'
  BY DEF TimedOut, Drain, QuietInv, InitSteps
<1>12. NoRequestForgotten'
  BY DEF TimedOut, NoRequestForgotten, Session
<1>13. QED
  BY <1>1, <1>2, <1>3, <1>4, <1>5, <1>6, <1>7, <1>8, <1>9, <1>10, <1>11, <1>12

(* The request sent is newer than everything in the rings.                 *)
LEMMA TrysendKeeps ==
  ASSUME IInv, Trysend PROVE IInv'
<1> USE DEF IInv, TypeOK, vars, rprocVars, sesVars, modeVars, callVars,
            ringVars, fwVars, countVars, devVars, setVars, bellVars,
            stillRproc, RprocFrame
<1>1. DeviceTypeOK'
  BY DEF Trysend, DeviceTypeOK
<1>2. ControlTypeOK'
  BY DEF Trysend, Finish, CallPoll, ControlTypeOK, Session, RingReturn,
         PollReturn
<1>3. NumberTypeOK'
  BY BoundsAssumption DEF Trysend, Finish, NumberTypeOK, NumbersInv, Frame
<1>4. SharedTypeOK'
  <2>1. n < MaxReq /\ n \in Nat
    BY DEF Trysend, NumbersInv, Frame, NumberTypeOK
  <2>2. n + 1 \in Req
    BY <2>1, BoundsAssumption DEF Req
  <2>3. toR' \in {toR, toR \cup {n + 1}}
    BY DEF Trysend
  <2>4. QED
    BY <2>2, <2>3 DEF Trysend, SharedTypeOK
<1>5. DevicesInv'
  BY DEF Trysend, Finish, CallPoll, DevicesInv, Session, OpenAre, Running,
         Dropping
<1>6. SetupInv'
  BY DEF Trysend, Finish, CallPoll, SetupInv, Session, Running
<1>7. CallsInv'
  BY DEF Trysend, Finish, CallPoll, CallsInv
<1>8. NumbersInv'
  BY DEF Trysend, Finish, CallPoll, NumberTypeOK, NumbersInv, InitSteps, Fresh,
         Frame, Waiting
<1>9. RingsInv'
  <2>1. n < MaxReq /\ n \in Nat /\ got \in Nat /\ got <= n /\ n + 1 < Bye
    BY BoundsAssumption DEF Trysend, NumbersInv, Frame, NumberTypeOK, Bye
  <2>2. CASE toR' = toR /\ n' = n
    BY <2>2 DEF Trysend, RingsInv, Session
  <2>3. CASE toR' = toR \cup {n + 1} /\ n' = n + 1
    <3>1. pc \in Session
      BY DEF Trysend, Session
    <3>2. 1..n \subseteq 1..(n + 1)
      BY <2>1
    <3>3. \A a \in toA : a < n + 1
      BY <2>1, <3>1 DEF RingsInv
    <3>4. UNCHANGED <<toA, got>>
      BY DEF Trysend
    <3>5. QED
      BY <2>1, <2>3, <3>1, <3>2, <3>3, <3>4 DEF RingsInv
  <2>4. QED
    BY <2>2, <2>3 DEF Trysend
<1>10. UnboundInv'
  BY DEF Trysend, UnboundInv, Session, Frame
<1>11. QuietInv'
  BY DEF Trysend, Finish, CallPoll, QuietInv, InitSteps
<1>12. NoRequestForgotten'
  BY DEF Trysend, NoRequestForgotten, Session
<1>13. QED
  BY <1>1, <1>2, <1>3, <1>4, <1>5, <1>6, <1>7, <1>8, <1>9, <1>10, <1>11, <1>12

(* Whatever arrived before the wait is forgotten.                          *)
LEMMA SentKeeps ==
  ASSUME IInv, Sent PROVE IInv'
<1> USE DEF IInv, TypeOK, vars, rprocVars, sesVars, modeVars, callVars,
            ringVars, fwVars, countVars, devVars, setVars, bellVars,
            stillRproc, RprocFrame
<1>1. DeviceTypeOK' /\ SharedTypeOK'
  BY DEF Sent, DeviceTypeOK, SharedTypeOK
<1>2. ControlTypeOK'
  <2>1. pc' \in Session /\ ret' \in PollReturn \cup {"off"}
    BY DEF Sent, Finish, Session, PollReturn
  <2>2. rdy' \in BOOLEAN
    BY DEF Sent, ClearReady, ControlTypeOK
  <2>3. out' \in {"none", "reply", "timeout", "nobuf", "stop"}
    BY DEF Sent, Finish, ControlTypeOK
  <2>4. QED
    BY <2>1, <2>2, <2>3 DEF Sent, ControlTypeOK
<1>3. NumberTypeOK'
  BY BoundsAssumption
    DEF Sent, Finish, NumberTypeOK, NumbersInv, Frame, Waiting
<1>4. DevicesInv'
  BY DEF Sent, Finish, DevicesInv, Session, OpenAre, Running, Dropping
<1>5. SetupInv'
  BY DEF Sent, Finish, SetupInv, Session, Running
<1>6. CallsInv'
  BY DEF Sent, Finish, CallsInv
<1>7. NumbersInv'
  BY DEF Sent, Finish, ClearReady, NumberTypeOK, NumbersInv, InitSteps, Fresh,
         Frame, Waiting
<1>8. RingsInv'
  BY DEF Sent, RingsInv, Session
<1>9. UnboundInv'
  BY DEF Sent, UnboundInv, Session, Frame
<1>10. QuietInv'
  BY DEF Sent, Finish, QuietInv, InitSteps
<1>11. NoRequestForgotten'
  BY DEF Sent, NoRequestForgotten, Session
<1>12. QED
  BY <1>1, <1>2, <1>3, <1>4, <1>5, <1>6, <1>7, <1>8, <1>9, <1>10, <1>11

(* An answer accepted has made up for the request waited for.              *)
LEMMA WaitReplyKeeps ==
  ASSUME IInv, WaitReply PROVE IInv'
<1> USE DEF IInv, TypeOK, vars, rprocVars, sesVars, modeVars, callVars,
            ringVars, fwVars, countVars, devVars, setVars, bellVars,
            stillRproc, RprocFrame
<1>0. toA # {} => Newest(toA) \in toA
  BY NewestAnswer
<1>1. DeviceTypeOK'
  BY DEF WaitReply, DeviceTypeOK
<1>2. ControlTypeOK'
  BY DEF WaitReply, Drain, Finish, CallPoll, BusyPolls, ControlTypeOK, Session,
         RingReturn, PollReturn
<1>3. NumberTypeOK'
  <2>1. CASE pc' = "done"
    BY <2>1, BoundsAssumption
      DEF WaitReply, Drain, Finish, NumberTypeOK, NumbersInv, Frame, Waiting
  <2>2. CASE pc' = "poll"
    BY <2>2 DEF WaitReply, Drain, Finish, NumberTypeOK
  <2>3. CASE pc' \notin {"done", "poll"}
    <3>1. Drain("waited") /\ pc \in Session /\ UNCHANGED <<n, givenUp, tries>>
      BY <2>3 DEF WaitReply, Finish, CallPoll, Session
    <3>2. QED
      BY <3>1, DrainGot DEF WaitReply, NumberTypeOK
  <2>4. QED
    BY <2>1, <2>2, <2>3
<1>4. SharedTypeOK'
  BY DEF WaitReply, Drain, SharedTypeOK
<1>5. DevicesInv'
  BY DEF WaitReply, Drain, Finish, CallPoll, DevicesInv, Session, OpenAre,
         Running, Dropping
<1>6. SetupInv'
  BY DEF WaitReply, Drain, Finish, CallPoll, SetupInv, Session, Running
<1>7. CallsInv'
  BY DEF WaitReply, Drain, Finish, CallPoll, CallsInv
<1>8. NumbersInv'
  <2>1. CASE pc' = "done"
    BY <2>1
      DEF WaitReply, Drain, CallPoll, Answered, NumberTypeOK, NumbersInv,
          InitSteps, Fresh, Frame, Waiting
  <2>2. CASE pc' = "poll"
    BY <2>2
      DEF WaitReply, Drain, Finish, CallPoll, NumbersInv, Fresh, Frame,
          Waiting, InitSteps
  <2>3. CASE pc' \notin {"done", "poll"}
    <3>1. Drain("waited") /\ UNCHANGED <<n, givenUp, ret>>
      BY <2>3 DEF WaitReply, Finish, CallPoll
    <3>2. /\ Waiting' <=> Waiting
          /\ Frame' = "send" <=> Frame = "send"
          /\ Waiting <=> Frame \in {"wait", "waited"}
          /\ Waiting' <=> Frame' \in {"wait", "waited"}
      BY <3>1, <2>3 DEF WaitReply, Drain, Frame, Waiting
    <3>3. pc \in Session /\ pc' \in Session
      BY <3>1 DEF WaitReply, Drain, Session
    <3>4. QED
      BY <3>1, <3>2, <3>3, DrainNumbers
  <2>4. QED
    BY <2>1, <2>2, <2>3
<1>9. RingsInv'
  <2>1. pc \in Session /\ UNCHANGED <<n, toR>>
    BY DEF WaitReply, Session
  <2>2. UNCHANGED <<got, toA>> \/ Drain("waited")
    BY DEF WaitReply
  <2>3. CASE UNCHANGED <<got, toA>>
    BY <2>1, <2>3 DEF RingsInv
  <2>4. CASE Drain("waited")
    <3>1. toA' = {} /\ got' \in {got} \cup toA
      BY <1>0, <2>4 DEF Drain
    <3>2. QED
      BY <2>1, <3>1 DEF RingsInv
  <2>5. QED
    BY <2>2, <2>3, <2>4
<1>10. UnboundInv'
  BY DEF WaitReply, Drain, UnboundInv, Session, Frame
<1>11. QuietInv'
  BY DEF WaitReply, Drain, Finish, CallPoll, QuietInv, InitSteps
<1>12. NoRequestForgotten'
  BY DEF WaitReply, NoRequestForgotten, Session
<1>13. QED
  BY <1>1, <1>2, <1>3, <1>4, <1>5, <1>6, <1>7, <1>8, <1>9, <1>10, <1>11, <1>12

(* A timeout is counted.                                                   *)
LEMMA CheckDeadlineKeeps ==
  ASSUME IInv, CheckDeadline PROVE IInv'
<1> USE DEF IInv, TypeOK, vars, rprocVars, sesVars, modeVars, callVars,
            ringVars, fwVars, countVars, devVars, setVars, bellVars,
            stillRproc, RprocFrame
<1>1. DeviceTypeOK' /\ SharedTypeOK'
  BY DEF CheckDeadline, DeviceTypeOK, SharedTypeOK
<1>2. ControlTypeOK'
  BY DEF CheckDeadline, Finish, ControlTypeOK, Session
<1>3. NumberTypeOK'
  BY BoundsAssumption
    DEF CheckDeadline, Finish, NumberTypeOK, NumbersInv, Frame, Waiting
<1>4. DevicesInv'
  BY DEF CheckDeadline, Finish, DevicesInv, Session, OpenAre, Running, Dropping
<1>5. SetupInv'
  BY DEF CheckDeadline, Finish, SetupInv, Session, Running
<1>6. CallsInv'
  BY DEF CheckDeadline, Finish, CallsInv
<1>7. NumbersInv'
  BY DEF CheckDeadline, Finish, NumberTypeOK, NumbersInv, InitSteps, Fresh,
         Frame, Waiting
<1>8. RingsInv'
  BY DEF CheckDeadline, RingsInv, Session
<1>9. UnboundInv'
  BY DEF CheckDeadline, UnboundInv, Session, Frame
<1>10. QuietInv'
  BY DEF CheckDeadline, Finish, QuietInv, InitSteps
<1>11. NoRequestForgotten'
  BY DEF CheckDeadline, NoRequestForgotten, Session
<1>12. QED
  BY <1>1, <1>2, <1>3, <1>4, <1>5, <1>6, <1>7, <1>8, <1>9, <1>10, <1>11

(* The modes ask, one request at a time.                                   *)
LEMMA ModeKeeps ==
  ASSUME IInv, Mode PROVE IInv'
<1> USE DEF IInv, TypeOK, vars, rprocVars, sesVars, modeVars, callVars,
            ringVars, fwVars, countVars, devVars, setVars, bellVars,
            stillRproc, RprocFrame
<1>0. ModeProps
  BY ModeStep
<1>a. UNCHANGED <<cont, stillRproc, sesVars, mode, saved, tries, ret, waited,
                  ringVars, drv, fwVars, countVars>>
  BY DEF Mode
<1>1. DeviceTypeOK' /\ SharedTypeOK'
  BY <1>a DEF DeviceTypeOK, SharedTypeOK
<1>2. ControlTypeOK'
  BY <1>0, <1>a DEF ModeProps, ControlTypeOK, Session
<1>3. NumberTypeOK'
  BY <1>0, <1>a DEF ModeProps, NumberTypeOK
<1>4. DevicesInv'
  BY <1>0, <1>a DEF ModeProps, DevicesInv, Session, OpenAre, Running, Dropping
<1>5. SetupInv'
  BY <1>0, <1>a DEF ModeProps, SetupInv, Session, Running
<1>6. CallsInv'
  BY <1>0 DEF ModeProps, CallsInv
<1>7. NumbersInv'
  BY <1>0, <1>a DEF ModeProps, NumbersInv, InitSteps, Frame, Waiting
<1>8. RingsInv'
  BY <1>0, <1>a DEF ModeProps, RingsInv, Session
<1>9. UnboundInv'
  BY <1>0, <1>a DEF ModeProps, UnboundInv, Session, Frame
<1>10. QuietInv'
  BY <1>0, <1>a DEF ModeProps, QuietInv, InitSteps
<1>11. NoRequestForgotten'
  BY <1>0, <1>a DEF ModeProps, NoRequestForgotten, Session
<1>12. QED
  BY <1>1, <1>2, <1>3, <1>4, <1>5, <1>6, <1>7, <1>8, <1>9, <1>10, <1>11

(* The shutdown message is the last of the session.                        *)
LEMMA ShutdownKeeps ==
  ASSUME IInv, Shutdown PROVE IInv'
<1> USE DEF IInv, TypeOK, vars, rprocVars, sesVars, modeVars, callVars,
            ringVars, fwVars, countVars, devVars, setVars, bellVars,
            stillRproc, RprocFrame
<1>1. DeviceTypeOK'
  BY DEF Shutdown, DeviceTypeOK
<1>2. ControlTypeOK'
  BY DEF Shutdown, CallPoll, ControlTypeOK, Session, RingReturn, PollReturn
<1>3. NumberTypeOK'
  BY BoundsAssumption DEF Shutdown, NumberTypeOK
<1>4. SharedTypeOK'
  BY DEF Shutdown, SharedTypeOK
<1>5. DevicesInv'
  BY DEF Shutdown, CallPoll, DevicesInv, Session, OpenAre, Running, Dropping
<1>6. SetupInv'
  BY DEF Shutdown, CallPoll, SetupInv, Session, Running
<1>7. CallsInv'
  BY DEF Shutdown, CallPoll, CallsInv
<1>8. NumbersInv'
  BY DEF Shutdown, CallPoll, NumbersInv, InitSteps, Frame, Waiting
<1>9. RingsInv'
  <2>1. n \in Nat /\ got \in Nat /\ got <= n /\ n < Bye /\ Bye \in Nat
    BY BoundsAssumption DEF NumbersInv, NumberTypeOK, Bye
  <2>2. pc \in Session /\ toR' \in {toR, toR \cup {Bye}}
    BY DEF Shutdown, Session
  <2>3. \A a \in toA : a < Bye
    BY <2>1, <2>2 DEF RingsInv
  <2>4. UNCHANGED <<toA, got, n>>
    BY DEF Shutdown
  <2>5. QED
    BY <2>1, <2>2, <2>3, <2>4 DEF RingsInv
<1>10. UnboundInv'
  BY DEF Shutdown, UnboundInv, Session, Frame
<1>11. QuietInv'
  BY DEF Shutdown, CallPoll, QuietInv, InitSteps
<1>12. NoRequestForgotten'
  BY DEF Shutdown, NoRequestForgotten, Session
<1>13. QED
  BY <1>1, <1>2, <1>3, <1>4, <1>5, <1>6, <1>7, <1>8, <1>9, <1>10, <1>11, <1>12

(* DRIVER_OK is taken away.                                                *)
LEMMA ReleaseKeeps ==
  ASSUME IInv, release_channel PROVE IInv'
<1> USE DEF IInv, TypeOK, vars, rprocVars, sesVars, modeVars, callVars,
            ringVars, fwVars, countVars, devVars, setVars, bellVars,
            stillRproc, RprocFrame
<1>1. DeviceTypeOK'
  BY DEF release_channel, DeviceTypeOK
<1>2. ControlTypeOK'
  BY DEF release_channel, ControlTypeOK, PollReturn, Phases
<1>3. NumberTypeOK'
  BY BoundsAssumption DEF release_channel, NumberTypeOK
<1>4. SharedTypeOK'
  BY DEF release_channel, Released, SharedTypeOK
<1>5. DevicesInv'
  BY DEF release_channel, DevicesInv, Session, OpenAre, Running, Dropping
<1>6. SetupInv'
  BY DEF release_channel, SetupInv, Session, Running
<1>7. CallsInv'
  BY DEF release_channel, CallsInv
<1>8. NumbersInv'
  BY DEF release_channel, NumbersInv, Frame, Waiting
<1>9. RingsInv'
  BY DEF release_channel, RingsInv, Session
<1>10. UnboundInv'
  BY DEF release_channel, UnboundInv, Session, Frame
<1>11. QuietInv'
  <2>1. drv' = {}
    BY DEF release_channel, Released, QuietInv, SetupInv, Running, Session
  <2>2. pc' = "release" /\ waited' = 0
    BY DEF release_channel, QuietInv
  <2>3. QED
    BY <2>1, <2>2 DEF QuietInv, InitSteps
<1>12. NoRequestForgotten'
  BY DEF release_channel, NoRequestForgotten, Session
<1>13. QED
  BY <1>1, <1>2, <1>3, <1>4, <1>5, <1>6, <1>7, <1>8, <1>9, <1>10, <1>11, <1>12

(* Behind the first period everything is quiet.                            *)
LEMMA ReleaseTickKeeps ==
  ASSUME IInv, ReleaseTick PROVE IInv'
<1> USE DEF IInv, TypeOK, vars, rprocVars, sesVars, modeVars, callVars,
            ringVars, fwVars, countVars, devVars, setVars, bellVars,
            stillRproc, RprocFrame
<1>1. /\ ControlTypeOK' /\ DeviceTypeOK' /\ SharedTypeOK'
      /\ DevicesInv' /\ SetupInv' /\ CallsInv'
      /\ NumbersInv' /\ RingsInv' /\ UnboundInv'
      /\ NoRequestForgotten'
  BY DEF ReleaseTick, ControlTypeOK, DeviceTypeOK, SharedTypeOK, DevicesInv,
         SetupInv, CallsInv, NumbersInv, RingsInv, UnboundInv,
         NoRequestForgotten, OpenAre, Frame, Waiting, Frame
<1>2. NumberTypeOK'
  BY BoundsAssumption DEF ReleaseTick, NumberTypeOK
<1>3. QuietInv'
  BY DEF ReleaseTick, Due, NumberTypeOK, SharedTypeOK, SetupInv, QuietInv,
         Running, Quiet
<1>4. QED
  BY <1>1, <1>2, <1>3

(* The release was long enough.                                            *)
LEMMA ExitKeeps ==
  ASSUME IInv, Exit PROVE IInv'
<1> USE DEF IInv, TypeOK, vars, rprocVars, sesVars, modeVars, callVars,
            ringVars, fwVars, countVars, devVars, setVars, bellVars,
            stillRproc, RprocFrame
<1>1. SharedTypeOK'
  BY DEF Exit, SharedTypeOK
<1>2. ControlTypeOK'
  BY DEF Exit, Gone, RprocGone, ControlTypeOK, Phases
<1>3. DeviceTypeOK'
  BY DEF Exit, Gone, RprocGone, DeviceTypeOK
<1>4. NumberTypeOK'
  BY BoundsAssumption DEF Exit, Gone, NumberTypeOK
<1>5. DevicesInv'
  BY DEF Exit, Gone, RprocGone, DevicesInv, Session, Device, Uio, OpenAre,
         Running
<1>6. SetupInv'
  BY DEF Exit, Gone, RprocGone, SetupInv, Session, Running
<1>7. CallsInv'
  BY DEF Exit, Gone, RprocGone, CallsInv
<1>8. NumbersInv'
  BY DEF Exit, Gone, RprocGone, NumbersInv, Frame, Waiting
<1>9. RingsInv'
  BY DEF Exit, Gone, RprocGone, RingsInv, Session
<1>10. UnboundInv'
  BY DEF Exit, Gone, RprocGone, UnboundInv, Session, Frame
<1>11. QuietInv'
  BY BoundsAssumption DEF Exit, WaitedEnough, Gone, QuietInv, Quiet
<1>12. NoRequestForgotten'
  BY DEF Exit, Gone, RprocGone, NoRequestForgotten, Session
<1>13. QED
  BY <1>1, <1>2, <1>3, <1>4, <1>5, <1>6, <1>7, <1>8, <1>9, <1>10, <1>11, <1>12

(* The firmware comes up with an empty ring.                               *)
LEMMA FwPollKeeps ==
  ASSUME IInv, FwPoll PROVE IInv'
<1> USE DEF IInv, TypeOK, vars, rprocVars, sesVars, modeVars, callVars,
            ringVars, fwVars, countVars, devVars, setVars, bellVars,
            stillRproc, RprocFrame
<1>1. /\ ControlTypeOK' /\ DeviceTypeOK' /\ NumberTypeOK'
      /\ DevicesInv' /\ SetupInv' /\ CallsInv'
      /\ NumbersInv' /\ RingsInv'
  BY DEF FwPoll, fwFrame, ControlTypeOK, DeviceTypeOK, NumberTypeOK,
         DevicesInv, SetupInv, CallsInv, NumbersInv, RingsInv, OpenAre, Fresh,
         Frame, Waiting
<1>2. SharedTypeOK'
  BY DEF FwPoll, SharedTypeOK
<1>3. UnboundInv'
  BY DEF FwPoll, fwFrame, UnboundInv, Frame
<1>4. QuietInv'
  BY DEF FwPoll, fwFrame, QuietInv, Quiet
<1>5. NoRequestForgotten'
  BY DEF FwPoll, UnboundInv, NoRequestForgotten
<1>6. QED
  BY <1>1, <1>2, <1>3, <1>4, <1>5

(* A firmware that is up and rung goes to work.                            *)
LEMMA FwTakeKeeps ==
  ASSUME IInv, FwTake PROVE IInv'
<1> USE DEF IInv, TypeOK, vars, rprocVars, sesVars, modeVars, callVars,
            ringVars, fwVars, countVars, devVars, setVars, bellVars,
            stillRproc, RprocFrame
<1>1. /\ ControlTypeOK' /\ DeviceTypeOK' /\ NumberTypeOK'
      /\ DevicesInv' /\ SetupInv' /\ CallsInv'
      /\ NumbersInv' /\ RingsInv' /\ UnboundInv'
      /\ QuietInv'
  BY DEF FwTake, fwFrame, ControlTypeOK, DeviceTypeOK, NumberTypeOK,
         DevicesInv, SetupInv, CallsInv, NumbersInv, RingsInv, UnboundInv,
         QuietInv, OpenAre, Fresh, Frame, Waiting, Frame, Quiet
<1>2. SharedTypeOK'
  BY DEF FwTake, SharedTypeOK
<1>3. NoRequestForgotten'
  BY DEF FwTake, NoRequestForgotten
<1>4. QED
  BY <1>1, <1>2, <1>3

(* It answers the oldest request, and is done when there is none.          *)
LEMMA FwServeKeeps ==
  ASSUME IInv, FwServe PROVE IInv'
<1> USE DEF IInv, TypeOK, vars, rprocVars, sesVars, modeVars, callVars,
            ringVars, fwVars, countVars, devVars, setVars, bellVars,
            stillRproc, RprocFrame
<1>0. toR # {} => Oldest(toR) \in toR /\ \A y \in toR : Oldest(toR) <= y
  BY OldestRequest
<1>1. /\ ControlTypeOK' /\ DeviceTypeOK' /\ NumberTypeOK'
      /\ DevicesInv' /\ SetupInv' /\ CallsInv'
      /\ NumbersInv'
  BY DEF FwServe, fwFrame, ControlTypeOK, DeviceTypeOK, NumberTypeOK,
         DevicesInv, SetupInv, CallsInv, NumbersInv, OpenAre, Fresh, Frame,
         Waiting
<1>2. SharedTypeOK'
  BY <1>0 DEF FwServe, SharedTypeOK
<1>3. RingsInv'
  <2> DEFINE x == Oldest(toR)
  <2>1. CASE toR = {}
    BY <2>1 DEF FwServe, fwFrame, RingsInv
  <2>2. CASE toR # {} /\ pc \in Session
    <3>1. /\ x \in toR /\ \A y \in toR : x <= y
          /\ toR' = toR \ {x}
          /\ toA' \in {toA, toA \cup ({x} \ {Bye})}
          /\ UNCHANGED <<n, got>>
      BY <1>0, <2>2 DEF FwServe, fwFrame
    <3> HIDE DEF x
    <3>2. n \in Nat /\ got \in Nat /\ \A y \in toR : y \in Nat
      BY <2>2, BoundsAssumption DEF NumberTypeOK, SharedTypeOK, Req, Bye
    <3>3. \A a \in toA' : (a \in toA \/ a = x) /\ a \in 1..n /\ got < a
      BY <2>2, <3>1 DEF RingsInv
    <3>4. \A r \in toR' : r \in toR /\ r \in Nat /\ x < r
      BY <3>1, <3>2
    <3>5. \A r \in toR' : r \in (1..n) \cup {Bye} /\ got < r /\ \A a \in toA : a < r
      BY <2>2, <3>4 DEF RingsInv
    <3>6. QED
      BY <3>1, <3>3, <3>4, <3>5 DEF RingsInv
  <2>3. CASE pc \notin Session
    BY <2>3 DEF FwServe, RingsInv
  <2>4. QED
    BY <2>1, <2>2, <2>3
<1>4. UnboundInv'
  BY DEF FwServe, fwFrame, UnboundInv, Frame
<1>5. QuietInv'
  BY DEF FwServe, fwFrame, QuietInv, Quiet
<1>6. NoRequestForgotten'
  BY DEF FwServe, NoRequestForgotten
<1>7. QED
  BY <1>1, <1>2, <1>3, <1>4, <1>5, <1>6

(* It rings only when it owes a doorbell.                                  *)
LEMMA FwRingKeeps ==
  ASSUME IInv, FwRing PROVE IInv'
<1> USE DEF IInv, TypeOK, vars, rprocVars, sesVars, modeVars, callVars,
            ringVars, fwVars, countVars, devVars, setVars, bellVars,
            stillRproc, RprocFrame
<1>1. /\ ControlTypeOK' /\ DeviceTypeOK' /\ NumberTypeOK'
      /\ DevicesInv' /\ SetupInv' /\ CallsInv'
      /\ NumbersInv' /\ RingsInv' /\ UnboundInv'
      /\ NoRequestForgotten'
  BY DEF FwRing, fwFrame, ControlTypeOK, DeviceTypeOK, NumberTypeOK,
         DevicesInv, SetupInv, CallsInv, NumbersInv, RingsInv, UnboundInv,
         NoRequestForgotten, OpenAre, Fresh, Frame, Waiting, Frame
<1>2. SharedTypeOK'
  BY DEF FwRing, SharedTypeOK
<1>3. QuietInv'
  BY DEF FwRing, fwFrame, QuietInv, Quiet
<1>4. QED
  BY <1>1, <1>2, <1>3

(* A dead firmware owes nothing.                                           *)
LEMMA FwDieKeeps ==
  ASSUME IInv, FwDie PROVE IInv'
<1> USE DEF IInv, TypeOK, vars, rprocVars, sesVars, modeVars, callVars,
            ringVars, fwVars, countVars, devVars, setVars, bellVars,
            stillRproc, RprocFrame
<1>1. /\ ControlTypeOK' /\ DeviceTypeOK' /\ NumberTypeOK'
      /\ DevicesInv' /\ SetupInv' /\ CallsInv'
      /\ NumbersInv' /\ RingsInv'
  BY DEF FwDie, fwFrame, ControlTypeOK, DeviceTypeOK, NumberTypeOK, DevicesInv,
         SetupInv, CallsInv, NumbersInv, RingsInv, OpenAre, Fresh, Frame,
         Waiting
<1>2. SharedTypeOK'
  BY DEF FwDie, SharedTypeOK
<1>3. UnboundInv'
  BY DEF FwDie, fwFrame, UnboundInv, Frame
<1>4. QuietInv'
  BY DEF FwDie, fwFrame, QuietInv, Quiet
<1>5. NoRequestForgotten'
  BY DEF FwDie, NoRequestForgotten
<1>6. QED
  BY <1>1, <1>2, <1>3, <1>4, <1>5

(* A restart takes DRIVER_OK away.                                         *)
LEMMA FwBootKeeps ==
  ASSUME IInv, FwBoot PROVE IInv'
<1> USE DEF IInv, TypeOK, vars, rprocVars, sesVars, modeVars, callVars,
            ringVars, fwVars, countVars, devVars, setVars, bellVars,
            stillRproc, RprocFrame
<1>1. /\ ControlTypeOK' /\ DeviceTypeOK' /\ NumberTypeOK'
      /\ DevicesInv' /\ SetupInv' /\ CallsInv'
      /\ NumbersInv' /\ RingsInv'
  BY DEF FwBoot, ControlTypeOK, DeviceTypeOK, NumberTypeOK, DevicesInv,
         SetupInv, CallsInv, NumbersInv, RingsInv, OpenAre, Fresh, Frame,
         Waiting
<1>2. SharedTypeOK'
  BY DEF FwBoot, SharedTypeOK
<1>3. UnboundInv'
  BY DEF FwBoot, UnboundInv, Frame
<1>4. QuietInv'
  BY DEF FwBoot, QuietInv, Quiet
<1>5. NoRequestForgotten'
  BY DEF FwBoot, NoRequestForgotten
<1>6. QED
  BY <1>1, <1>2, <1>3, <1>4, <1>5

(* Nothing happens.                                                        *)
LEMMA StutterKeeps ==
  ASSUME IInv, UNCHANGED vars PROVE IInv'
<1> USE DEF IInv, TypeOK, vars, rprocVars, sesVars, modeVars, callVars,
            ringVars, fwVars, countVars, devVars, setVars, bellVars,
            stillRproc, RprocFrame
<1>1. /\ ControlTypeOK' /\ DeviceTypeOK' /\ NumberTypeOK'
      /\ SharedTypeOK' /\ DevicesInv' /\ SetupInv'
      /\ CallsInv' /\ NumbersInv' /\ RingsInv'
      /\ UnboundInv' /\ QuietInv' /\ NoRequestForgotten'
  BY DEF ControlTypeOK, DeviceTypeOK, NumberTypeOK, SharedTypeOK, DevicesInv,
         SetupInv, CallsInv, NumbersInv, RingsInv, UnboundInv, QuietInv,
         NoRequestForgotten, OpenAre, Fresh, Frame, Waiting, Frame, Quiet
<1>2. QED
  BY <1>1

(* Every step keeps the inductive invariant.                               *)
LEMMA StepInv == IInv /\ [Next]_vars => IInv'
<1> SUFFICES ASSUME IInv, [Next]_vars PROVE IInv'
  OBVIOUS
<1>1. CASE \E c \in IF runs = 0 THEN FirstCalls ELSE LaterCalls : Start(c[1], c[2])
  <2>1. PICK c \in Modes \X BOOLEAN : Start(c[1], c[2])
    BY <1>1, BoundsAssumption
  <2>2. QED
    BY <2>1, StartKeeps
<1>2. CASE Rproc
  BY <1>2, InitUioKeeps, InitIrqKeeps, InitMemKeeps, MapTableKeeps, Err1Keeps,
     RemoveMemKeeps, RemoveIrqKeeps, RemoveUioKeeps, RingKeeps DEF Rproc, RprocFrame
<1>3. CASE IrqThread
  BY <1>3, IrqTakeKeeps, IrqSignalKeeps, CrashKeeps DEF IrqThread, RprocFrame
<1>4. CASE CreateVdev \/ VdevFails \/ Bind \/ Poll \/ TimedOut
  BY <1>4, CreateVdevKeeps, VdevFailsKeeps, BindKeeps, PollKeeps, TimedOutKeeps
<1>5. CASE Trysend \/ Sent \/ WaitReply \/ CheckDeadline \/ Mode
  BY <1>5, TrysendKeeps, SentKeeps, WaitReplyKeeps, CheckDeadlineKeeps,
     ModeKeeps
<1>6. CASE Shutdown \/ release_channel \/ ReleaseTick \/ Exit \/ Failed
  BY <1>6, ShutdownKeeps, ReleaseKeeps, ReleaseTickKeeps, ExitKeeps,
     FailedKeeps
<1>7. CASE Signal \/ Kill
  BY <1>7, SignalKeeps, KillKeeps
<1>8. CASE Firmware \/ FwDie \/ FwBoot
  BY <1>8, FwPollKeeps, FwTakeKeeps, FwServeKeeps, FwRingKeeps, FwDieKeeps,
     FwBootKeeps
  DEF Firmware
<1>9. CASE UNCHANGED vars
  BY <1>9, StutterKeeps
<1>10. QED
  BY <1>1, <1>2, <1>3, <1>4, <1>5, <1>6, <1>7, <1>8, <1>9 DEF Next, Main

-----------------------------------------------------------------------------
(* The theorems.                                                           *)

(* Devices, numbers, rings and what is left behind agree, over all signals,*)
(* kills, crashes and restarts of both sides.                              *)
THEOREM InductiveInvariant == Spec => []IInv
<1>1. Init => IInv
  BY InitInv
<1>2. IInv /\ [Next]_vars => IInv'
  BY StepInv
<1>3. QED
  BY <1>1, <1>2, PTL DEF Spec

(* A device is never open twice, the requests fit the numbers given out,   *)
(* and no wait is longer than its bound.                                   *)
THEOREM TypeCorrect == Spec => []TypeOK
<1>1. IInv => TypeOK
  BY DEF IInv
<1>2. QED
  BY <1>1, InductiveInvariant, PTL

(* Whichever of the two instances opened a device, it is open once in a    *)
(* session; when main gives up the memory is closed, and no uio device but *)
(* the mailbox is closed too often.                                        *)
THEOREM DevicesAreBalanced == Spec => []DevicesBalanced
<1>1. IInv => DevicesBalanced
  BY DEF IInv, TypeOK, DeviceTypeOK, DevicesInv, OpenAre, Running, Device, Uio,
         Mem, DevicesBalanced
<1>2. QED
  BY <1>1, InductiveInvariant, PTL

(* An answer that wait_reply takes is behind its request by no more than   *)
(* the session has given up.                                               *)
THEOREM SkewIsBounded == Spec => []AnswerSkewBounded
<1>1. IInv => AnswerSkewBounded
  BY DEF IInv, NumbersInv, Waiting, Frame, AnswerSkewBounded
<1>2. QED
  BY <1>1, InductiveInvariant, PTL

(* The release is long enough whenever it spans two polling periods.       *)
THEOREM ExitIsClean == Spec => []CleanExitLeavesNoTrace
<1>1. IInv => CleanExitLeavesNoTrace
  BY DEF IInv, QuietInv, Quiet, CleanExitLeavesNoTrace
<1>2. QED
  BY <1>1, InductiveInvariant, PTL

(* A notification that was given up is never the one that is needed.       *)
THEOREM RequestsAreNotForgotten == Spec => []NoRequestForgotten
<1>1. IInv => NoRequestForgotten
  BY DEF IInv
<1>2. QED
  BY <1>1, InductiveInvariant, PTL

(* A doorbell that ends a process in its set-up was left by one that was   *)
(* killed.                                                                 *)
THEOREM CrashNeedsKill == Spec => CrashOnlyAfterKill
<1>1. IInv /\ IInv' /\ [Next]_vars =>
     (left' = "crashed" /\ left # "crashed" => left = "killed")
  <2> SUFFICES ASSUME IInv, [Next]_vars, left' = "crashed", left # "crashed"
               PROVE  left = "killed"
    OBVIOUS
  <2>1. Crash
    <3>1. UNCHANGED left \/ left' \in {"clean", "killed"} \/ Crash
      <4>1. CASE \E c \in IF runs = 0 THEN FirstCalls ELSE LaterCalls : Start(c[1], c[2])
        BY <4>1 DEF Start
      <4>2. CASE Rproc \/ IrqThread
        BY <4>2 DEF Rproc, IrqThread, countVars
      <4>3. CASE CreateVdev \/ VdevFails \/ Failed
        BY <4>3 DEF CreateVdev, VdevFails, Failed, Gone, countVars
      <4>4. CASE Bind \/ Poll \/ TimedOut
        BY <4>4 DEF Bind, Poll, TimedOut, countVars
      <4>5. CASE Trysend \/ Sent \/ WaitReply \/ CheckDeadline \/ Mode
        BY <4>5 DEF Trysend, Sent, WaitReply, CheckDeadline, Mode, countVars
      <4>6. CASE Shutdown \/ release_channel \/ ReleaseTick \/ Exit
        BY <4>6
          DEF Shutdown, release_channel, ReleaseTick, Exit, Gone, countVars
      <4>7. CASE Signal \/ Kill
        BY <4>7 DEF Signal, Kill, Gone, countVars
      <4>8. CASE Firmware \/ FwDie \/ FwBoot
        BY <4>8
          DEF Firmware, FwPoll, FwTake, FwServe, FwRing, FwDie, FwBoot,
              fwFrame, countVars
      <4>9. CASE UNCHANGED vars
        BY <4>9 DEF vars, countVars
      <4>10. QED
        BY <4>1, <4>2, <4>3, <4>4, <4>5, <4>6, <4>7, <4>8, <4>9 DEF Next, Main
    <3>2. QED
      BY <3>1
  <2>2. bellA /\ irqOn /\ ~Mapped
    BY <2>1 DEF Crash
  <2>3. pc \notin Running \cup {"off"}
    BY <2>2 DEF IInv, DevicesInv, SetupInv, OpenAre, Device, Uio, Mem, Mapped
  <2>4. pc \in InitSteps
    BY <2>3 DEF IInv, TypeOK, ControlTypeOK, Running, InitSteps
  <2>5. left \notin {"none", "clean"}
    BY <2>2, <2>4 DEF IInv, QuietInv, Quiet
  <2>6. QED
    BY <2>5 DEF IInv, TypeOK, ControlTypeOK
<1>2. QED
  BY <1>1, InductiveInvariant, PTL DEF Spec, CrashOnlyAfterKill

-----------------------------------------------------------------------------
(* The refinement.                                                         *)

(* What RzSession sees of a state does not change.                         *)
SessionStill ==
  /\ UNCHANGED <<n, got, givenUp>>
  /\ Waiting' <=> Waiting
  /\ Fresh' <=> Fresh
AbsStep == Abs!Next \/ UNCHANGED Abs!vars

(* What is still to the session is a stutter.                              *)
LEMMA StillMaps == ASSUME SessionStill PROVE AbsStep
<1>1. Waiting' = Waiting
  BY DEF SessionStill, Waiting
<1>2. (rdy /\ Frame \in {"wait", "waited"})' = (rdy /\ Frame \in {"wait", "waited"})
  BY DEF SessionStill, Fresh
<1>3. QED
  BY <1>1, <1>2 DEF SessionStill, AbsStep, Abs!vars

(* A session that ends.                                                    *)
LEMMA CloseMaps ==
  ASSUME pc' \in {"off", "release"},
         n' = 0, got' = 0, givenUp' = 0
  PROVE  AbsStep
<1>1. Waiting' = FALSE /\ (rdy /\ Frame \in {"wait", "waited"})' = FALSE
  BY DEF Waiting, Frame
<1>2. QED
  BY <1>1 DEF AbsStep, Abs!Next, Abs!Close

(* A request that ends without an answer.                                  *)
LEMMA GiveUpMaps ==
  ASSUME Waiting, pc' = "done", givenUp' = givenUp + 1, UNCHANGED <<n, got>>
  PROVE  AbsStep
<1>1. Waiting' = FALSE /\ (rdy /\ Frame \in {"wait", "waited"})' = FALSE
  BY DEF Waiting, Frame
<1>2. QED
  BY <1>1 DEF AbsStep, Abs!Next, Abs!GiveUp

(* A drain is an answer that arrives, or nothing to the session.           *)
LEMMA DrainMaps ==
  ASSUME TypeOK, NumbersInv, RingsInv, pc \in Session,
         NEW next, Drain(next), UNCHANGED <<n, givenUp, ret>>,
         Waiting' <=> Waiting,
         Waiting <=> Frame \in {"wait", "waited"},
         Waiting' <=> Frame' \in {"wait", "waited"}
  PROVE  AbsStep
<1>1. /\ got' \in 0..MaxReq /\ got <= got' /\ got' <= n
      /\ toA = {} => got' = got /\ (rdy' <=> rdy)
      /\ toA # {} => got < got' /\ rdy'
  BY DrainGot
<1>2. CASE toA = {}
  BY <1>1, <1>2, StillMaps DEF SessionStill, Fresh
<1>3. CASE toA # {}
  <2>1. Waiting' = Waiting
    BY DEF Waiting
  <2>2. (rdy /\ Frame \in {"wait", "waited"})' = Waiting
    BY <1>1, <1>3 DEF Waiting
  <2>3. got' \in Nat
    BY <1>1, BoundsAssumption
  <2>4. Abs!Arrive
    BY <1>1, <1>3, <2>1, <2>2, <2>3 DEF Abs!Arrive
  <2>5. QED
    BY <2>4 DEF AbsStep, Abs!Next
<1>4. QED
  BY <1>2, <1>3

(* The back end has no part in the session.                                *)
LEMMA RprocStill ==
  ASSUME IInv, Rproc PROVE SessionStill
<1> USE DEF IInv, TypeOK, sesVars, countVars, modeVars, callVars, stillRproc
<1>1. CASE InitUio
  BY <1>1 DEF Rproc, InitUio, SessionStill, Frame, Waiting, Fresh
<1>2. CASE InitIrq
  BY <1>2 DEF Rproc, InitIrq, SessionStill, Frame, Waiting, Fresh
<1>3. CASE InitMem
  BY <1>3 DEF Rproc, InitMem, SessionStill, Frame, Waiting, Fresh
<1>4. CASE Err1
  BY <1>4 DEF Rproc, Err1, SessionStill, Frame, Waiting, Fresh
<1>5. CASE RemoveMem
  BY <1>5 DEF Rproc, RemoveMem, SessionStill, Frame, Waiting, Fresh
<1>6. CASE RemoveIrq
  BY <1>6 DEF Rproc, RemoveIrq, SessionStill, Frame, Waiting, Fresh
<1>7. CASE RemoveUio
  BY <1>7 DEF Rproc, RemoveUio, SessionStill, Frame, Waiting, Fresh
<1>8. CASE Ring
  BY <1>8 DEF Rproc, Ring, SessionStill, Frame, Waiting, Fresh
<1>9. CASE \E ok \in {TRUE, fw # "off"} : MapTable(ok)
  BY <1>9 DEF Rproc, MapTable, SessionStill, Frame, Waiting, Fresh
<1>10. QED
  BY <1>1, <1>2, <1>3, <1>4, <1>5, <1>6, <1>7, <1>8, <1>9 DEF Rproc

(* A poller that wakes is still in its call.                               *)
LEMMA IrqStill ==
  ASSUME IInv, (IrqTake \/ IrqSignal) /\ RprocFrame PROVE SessionStill
<1> USE DEF IInv, TypeOK, sesVars, countVars, modeVars, callVars, stillRproc
<1>1. CASE IrqTake /\ RprocFrame
  BY <1>1 DEF IrqTake, RprocFrame, SessionStill, Frame, Waiting, Fresh
<1>2. CASE IrqSignal /\ RprocFrame
  BY <1>2 DEF IrqSignal, RprocFrame, SessionStill, Frame, Waiting, Fresh
<1>3. QED
  BY <1>1, <1>2

(* The firmware does not reach into the client.                            *)
LEMMA FirmwareStill ==
  ASSUME IInv, Firmware \/ FwDie \/ FwBoot PROVE SessionStill
<1> USE DEF IInv, TypeOK, sesVars, countVars, modeVars, callVars, stillRproc
<1>1. CASE FwPoll
  BY <1>1 DEF FwPoll, fwFrame, rprocVars, SessionStill, Frame, Waiting, Fresh
<1>2. CASE FwTake
  BY <1>2 DEF FwTake, fwFrame, SessionStill, Frame, Waiting, Fresh
<1>3. CASE FwServe
  BY <1>3 DEF FwServe, fwFrame, rprocVars, SessionStill, Frame, Waiting, Fresh
<1>4. CASE FwRing
  BY <1>4 DEF FwRing, fwFrame, SessionStill, Frame, Waiting, Fresh
<1>5. CASE FwDie
  BY <1>5 DEF FwDie, fwFrame, rprocVars, SessionStill, Frame, Waiting, Fresh
<1>6. CASE FwBoot
  BY <1>6 DEF FwBoot, SessionStill, Frame, Waiting, Fresh
<1>7. QED
  BY <1>1, <1>2, <1>3, <1>4, <1>5, <1>6 DEF Firmware

(* Between its requests the main thread is not waiting.                    *)
LEMMA MainStill ==
  ASSUME IInv, CreateVdev \/ Bind \/ Mode \/ Shutdown \/ ReleaseTick \/ Signal PROVE SessionStill
<1> USE DEF IInv, TypeOK, sesVars, countVars, modeVars, callVars, stillRproc
<1>1. CASE CreateVdev
  BY <1>1 DEF CreateVdev, SessionStill, Frame, Waiting, Fresh
<1>2. CASE Bind
  BY <1>2 DEF Bind, CallPoll, SessionStill, Frame, Waiting, Fresh
<1>3. CASE Mode
  BY <1>3, ModeStep DEF Mode, ModeProps, SessionStill, Frame, Waiting, Fresh
<1>4. CASE Shutdown
  BY <1>4 DEF Shutdown, CallPoll, SessionStill, Frame, Waiting, Fresh
<1>5. CASE ReleaseTick
  BY <1>5 DEF ReleaseTick, rprocVars, SessionStill, Frame, Waiting, Fresh
<1>6. CASE Signal
  BY <1>6 DEF Signal, SessionStill, Frame, Waiting, Fresh
<1>7. QED
  BY <1>1, <1>2, <1>3, <1>4, <1>5, <1>6

(* The main thread in a request.                                           *)
LEMMA TrysendMaps == ASSUME IInv, Trysend PROVE AbsStep
<1>1. CASE pc' # "ring"
  <2>1. SessionStill
    BY <1>1 DEF Trysend, Finish, CallPoll, SessionStill, Frame, Waiting, Fresh
  <2>2. QED
    BY <2>1, StillMaps
<1>2. CASE pc' = "ring"
  <2>0. n' = n + 1 /\ cont' = "sent"
    BY <1>2 DEF Trysend, Finish, CallPoll
  <2>1. ~Waiting
    BY DEF Trysend, Waiting, Frame
  <2>2. Waiting' = TRUE /\ (rdy /\ Frame \in {"wait", "waited"})' = FALSE
    BY <1>2, <2>0 DEF Waiting, Frame
  <2>3. Abs!Ask
    BY <2>0, <2>1, <2>2 DEF Trysend, Abs!Ask
  <2>4. QED
    BY <2>3 DEF AbsStep, Abs!Next
<1>3. QED
  BY <1>1, <1>2

(* It forgets what arrived before the wait, or gives up.                   *)
LEMMA SentMaps == ASSUME IInv, Sent PROVE AbsStep
<1>1. CASE pc' = "done"
  <2>1. Waiting
    BY DEF Sent, Waiting, Frame
  <2>2. QED
    BY <1>1, <2>1, GiveUpMaps DEF Sent, Finish
<1>2. CASE pc' = "wait"
  <2>1. SessionStill
    BY <1>2 DEF Sent, Finish, ClearReady, SessionStill, Frame, Waiting, Fresh
  <2>2. QED
    BY <2>1, StillMaps
<1>3. QED
  BY <1>1, <1>2 DEF Sent, Finish

(* It accepts, gives up, or goes on waiting.                               *)
LEMMA WaitReplyMaps == ASSUME IInv, WaitReply PROVE AbsStep
<1>1. pc = "wait" /\ pc \in Session /\ Waiting
  BY DEF WaitReply, Session, Waiting, Frame
<1>2. CASE Answered
  <2>1. rdy /\ Waiting /\ Fresh
    BY <1>1, <1>2 DEF Answered, Fresh, Waiting, Frame
  <2>2. pc' = "done" /\ UNCHANGED <<n, got, givenUp>>
    BY <1>2 DEF WaitReply, Finish
  <2>3. Waiting' = FALSE /\ (rdy /\ Frame \in {"wait", "waited"})' = FALSE
    BY <2>2 DEF Waiting, Frame
  <2>4. n - got <= givenUp
    BY <2>1 DEF IInv, NumbersInv
  <2>5. Abs!Accept
    BY <2>1, <2>2, <2>3, <2>4 DEF Fresh, Abs!Accept
  <2>6. QED
    BY <2>5 DEF AbsStep, Abs!Next
<1>3. CASE ~Answered /\ fs
  BY <1>1, <1>3, GiveUpMaps DEF WaitReply, Finish
<1>4. CASE ~Answered /\ ~fs /\ ~BusyPolls
  <2>1. SessionStill
    BY <1>1, <1>4 DEF WaitReply, CallPoll, SessionStill, Frame, Waiting, Fresh
  <2>2. QED
    BY <2>1, StillMaps
<1>5. CASE ~Answered /\ ~fs /\ BusyPolls
  <2>1. Drain("waited") /\ UNCHANGED <<n, givenUp, ret>>
    BY <1>5 DEF WaitReply
  <2>2. /\ Waiting' <=> Waiting
        /\ Waiting <=> Frame \in {"wait", "waited"}
        /\ Waiting' <=> Frame' \in {"wait", "waited"}
    BY <1>1, <2>1 DEF Drain, Frame, Waiting
  <2>3. QED
    BY <1>1, <2>1, <2>2, DrainMaps DEF IInv
<1>6. QED
  BY <1>2, <1>3, <1>4, <1>5

(* A timeout is a request given up.                                        *)
LEMMA CheckDeadlineMaps == ASSUME IInv, CheckDeadline PROVE AbsStep
<1>1. CASE pc' = "done"
  <2>1. Waiting
    BY DEF CheckDeadline, Waiting, Frame
  <2>2. QED
    BY <1>1, <2>1, GiveUpMaps DEF CheckDeadline, Finish
<1>2. CASE pc' = "wait"
  <2>1. SessionStill
    BY <1>2 DEF CheckDeadline, Finish, SessionStill, Frame, Waiting, Fresh
  <2>2. QED
    BY <2>1, StillMaps
<1>3. QED
  BY <1>1, <1>2 DEF CheckDeadline, Finish

(* A poll that takes the flag may bring an answer,                         *)
LEMMA PollMaps == ASSUME IInv, Poll PROVE AbsStep
<1> USE DEF IInv, TypeOK
<1>1. CASE Stopped \/ sync
  <2>1. UNCHANGED <<n, got, givenUp, rdy, ret>> /\ pc = "poll" /\ pc' \in {ret, "cwait"}
    BY <1>1 DEF Poll, callVars
  <2>2. ret \in PollReturn
    BY <2>1 DEF CallsInv, ControlTypeOK
  <2>3. Frame' = Frame
    BY <2>1, <2>2 DEF Frame, PollReturn
  <2>4. SessionStill
    BY <2>1, <2>3 DEF SessionStill, Waiting, Fresh
  <2>5. QED
    BY <2>4, StillMaps
<1>2. CASE ~Stopped /\ ~sync
  <2>1. Drain(ret) /\ UNCHANGED <<n, givenUp, ret>> /\ pc = "poll"
    BY <1>2 DEF Poll, callVars
  <2>2. /\ Waiting' <=> Waiting
        /\ Waiting <=> Frame \in {"wait", "waited"}
        /\ Waiting' <=> Frame' \in {"wait", "waited"}
    BY <2>1 DEF Drain, Frame, Waiting, ControlTypeOK, CallsInv, PollReturn
  <2>3. pc \in Session
    BY <2>1 DEF Session
  <2>4. QED
    BY <2>1, <2>2, <2>3, DrainMaps
<1>3. QED
  BY <1>1, <1>2

(* and so may one that does not.                                           *)
LEMMA TimedOutMaps == ASSUME IInv, TimedOut PROVE AbsStep
<1> USE DEF IInv, TypeOK
<1>1. Drain("poll") /\ UNCHANGED <<n, givenUp, ret>> /\ pc = "cwait"
  BY DEF TimedOut, callVars
<1>2. /\ Waiting' <=> Waiting
      /\ Waiting <=> Frame \in {"wait", "waited"}
      /\ Waiting' <=> Frame' \in {"wait", "waited"}
  BY <1>1 DEF Drain, Frame, Waiting, ControlTypeOK, CallsInv, PollReturn
<1>3. pc \in Session
  BY <1>1 DEF Session
<1>4. QED
  BY <1>1, <1>2, <1>3, DrainMaps

(* Every step is one of RzSession, or nothing to it.                       *)
LEMMA StepMaps == IInv /\ [Next]_vars => AbsStep
<1> SUFFICES ASSUME IInv, [Next]_vars PROVE AbsStep
  OBVIOUS
<1>1. CASE \E c \in IF runs = 0 THEN FirstCalls ELSE LaterCalls : Start(c[1], c[2])
  <2>1. SessionStill
    BY <1>1 DEF Start, SessionStill, Frame, Waiting, Fresh, sesVars, callVars
  <2>2. QED
    BY <2>1, StillMaps
<1>2. CASE Rproc
  BY <1>2, RprocStill, StillMaps
<1>3. CASE (IrqTake \/ IrqSignal) /\ RprocFrame
  BY <1>3, IrqStill, StillMaps
<1>4. CASE Crash \/ Kill \/ Exit \/ Failed
  BY <1>4, CloseMaps DEF Crash, Kill, Exit, Failed, Gone, RprocGone
<1>5. CASE release_channel
  BY <1>5, CloseMaps DEF release_channel
<1>6. CASE VdevFails
  <2>1. CASE Gone("failed")
    BY <2>1, CloseMaps DEF Gone, RprocGone
  <2>2. CASE pc' = "remove"
    <3>1. SessionStill
      BY <1>6, <2>2
        DEF VdevFails, Gone, RprocGone, SessionStill, Frame, Waiting, Fresh,
            sesVars
    <3>2. QED
      BY <3>1, StillMaps
  <2>3. QED
    BY <1>6, <2>1, <2>2 DEF VdevFails
<1>7. CASE CreateVdev \/ Bind \/ Mode \/ Shutdown \/ ReleaseTick \/ Signal
  BY <1>7, MainStill, StillMaps
<1>8. CASE Trysend \/ Sent \/ WaitReply \/ CheckDeadline \/ Poll \/ TimedOut
  BY <1>8, TrysendMaps, SentMaps, WaitReplyMaps, CheckDeadlineMaps, PollMaps,
     TimedOutMaps
<1>9. CASE Firmware \/ FwDie \/ FwBoot
  BY <1>9, FirmwareStill, StillMaps
<1>10. CASE UNCHANGED vars
  <2>1. SessionStill
    BY <1>10
      DEF vars, rprocVars, sesVars, callVars, SessionStill, Frame, Waiting,
          Fresh
  <2>2. QED
    BY <2>1, StillMaps
<1>11. QED
  BY <1>1, <1>2, <1>3, <1>4, <1>5, <1>6, <1>7, <1>8, <1>9, <1>10
  DEF Next, Main, IrqThread, RprocFrame

(* The requests of all modes, with polling, signals, timeouts and restarts *)
(* of either side, are a session of RzSession.                             *)
THEOREM RefinesTheSession == Spec => RefinesSession
<1>1. Init => Abs!Init
  BY DEF Init, RprocInit, Abs!Init, Waiting, Frame
<1>2. IInv /\ [Next]_vars => [Abs!Next]_Abs!vars
  BY StepMaps DEF AbsStep
<1>3. QED
  BY <1>1, <1>2, InductiveInvariant, PTL DEF Spec, RefinesSession, Abs!Spec
=============================================================================

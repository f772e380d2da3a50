------------------------------- MODULE CoreBox -------------------------------
(***************************************************************************)
(* What one CR8 core and its black box promise to those who look at the    *)
(* box from Linux: the scripts of tools/, which see a magic word and a     *)
(* fault word, and never the core.                                         *)
(*                                                                         *)
(* Two detailed models keep the promise.  R8Fault is the firmware, word by *)
(* word and with every way to die; CoreLifecycle is the scripts, the two   *)
(* cores and the CM33, whose stop wipes a window of DDR.                   *)
(*                                                                         *)
(* life is what the core does: it is off, it boots and its firmware is     *)
(* not initialised yet, it is up, it is dead and its cause of death is in  *)
(* the box, or it was halted and made to go on, and runs wild.             *)
(***************************************************************************)
VARIABLES life, magic, fault

vars == <<life, magic, fault>>

Life == {"off", "boot", "up", "dead", "wild"}

(* Cold DDR has no magic, and anything for a fault.                        *)
Init ==
  /\ life \in {"off", "boot"}
  /\ ~magic
  /\ fault \in BOOLEAN

(* The box outlives its core: neither a stop nor a start touches it.       *)
Stop  == life' = "off" /\ UNCHANGED <<magic, fault>>
Begin == life' = "boot" /\ UNCHANGED <<magic, fault>>
Run   == life = "off" /\ life' = "wild" /\ UNCHANGED <<magic, fault>>

(* The box is emptied by start-up alone.                                   *)
Wipe == life = "boot" /\ ~magic' /\ ~fault' /\ UNCHANGED life

(* The magic comes with an empty fault word, and the firmware is up.       *)
Ready == life = "boot" /\ life' = "up" /\ magic' /\ ~fault'

(* A core that dies in start-up gives itself the magic it lacks.           *)
Stamp == life = "boot" /\ ~magic /\ magic' /\ ~fault' /\ UNCHANGED life

(* A death is recorded.                                                    *)
Record == life \in {"boot", "up", "wild"} /\ life' = "dead" /\ magic' /\ fault'

(* The power is cut.                                                       *)
Power == life' = "boot" /\ ~magic' /\ fault' \in BOOLEAN

Next == Stop \/ Begin \/ Run \/ Wipe \/ Ready \/ Stamp \/ Record \/ Power

Spec == Init /\ [][Next]_vars
-----------------------------------------------------------------------------
(* What a script may conclude from the box of a core that was started and  *)
(* given its three seconds.                                                *)
Truthful ==
  /\ life = "up" => magic /\ ~fault
  /\ life = "dead" => magic /\ fault
=============================================================================

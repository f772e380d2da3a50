----------------------------- MODULE RzSession -----------------------------
(***************************************************************************)
(* What a session with the R8 promises to the modes of the client.  The    *)
(* protocol carries no request number, so an answer cannot be matched to   *)
(* its request.  What holds instead: an answer is accepted only if it      *)
(* arrived during the wait, answers are seen in the order of their         *)
(* requests, and the answer accepted is behind its request by no more than *)
(* the number of requests given up earlier in the session.                 *)
(***************************************************************************)
EXTENDS Integers

VARIABLES
  waiting,  \* a request has been sent and its caller waits
  fresh,    \* an answer arrived during this wait
  asked,    \* requests sent in this session
  seen,     \* the request whose answer arrived last
  missed    \* requests given up

vars == <<waiting, fresh, asked, seen, missed>>

Init ==
  /\ waiting = FALSE /\ fresh = FALSE
  /\ asked = 0 /\ seen = 0 /\ missed = 0

Ask ==
  /\ ~waiting
  /\ waiting' = TRUE
  /\ fresh' = FALSE
  /\ asked' = asked + 1
  /\ UNCHANGED <<seen, missed>>

(* Answers arrive, in order; some may never do.                            *)
Arrive ==
  /\ seen' \in Nat /\ seen < seen' /\ seen' <= asked
  /\ fresh' = waiting
  /\ UNCHANGED <<waiting, asked, missed>>

Accept ==
  /\ waiting /\ fresh
  /\ asked - seen <= missed
  /\ waiting' = FALSE
  /\ fresh' = FALSE
  /\ UNCHANGED <<asked, seen, missed>>

GiveUp ==
  /\ waiting
  /\ waiting' = FALSE
  /\ fresh' = FALSE
  /\ missed' = missed + 1
  /\ UNCHANGED <<asked, seen>>

(* The session ends, whatever its state; the next one begins afresh.       *)
Close ==
  /\ waiting' = FALSE /\ fresh' = FALSE
  /\ asked' = 0 /\ seen' = 0 /\ missed' = 0

Next == Ask \/ Arrive \/ Accept \/ GiveUp \/ Close

Spec == Init /\ [][Next]_vars
=============================================================================

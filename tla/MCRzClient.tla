----------------------------- MODULE MCRzClient -----------------------------
(* Every mode first, a one-shot client after it; and for the liveness run  *)
(* a daemon, a busy-polling client and the benchmark.                      *)
EXTENDS RzClient, TLC
MCBudget == [m \in Modes |-> CASE m = "pwm" -> 1 [] m \in {"jitter","pwmd"} -> 3 [] OTHER -> 2]
MCFirstCalls == {<<m, FALSE>> : m \in Modes} \cup {<<"pwmd", TRUE>>}
MCLaterCalls == {<<"pwm", FALSE>>}
MCLiveCalls == {<<"pwmd", FALSE>>, <<"pwm", TRUE>>, <<"bench", FALSE>>}
=============================================================================

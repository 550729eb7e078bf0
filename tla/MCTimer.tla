------------------------------ MODULE MCTimer -------------------------------
(* Timers whose callbacks detach them. The run data checks the others.       *)
EXTENDS Timer

CONSTANTS t1, t2

TwoTimers == {t1, t2}
MCDelays == {1, 2}
DetachInCallback == {"none", "detach"}
NoTimer == {}
=============================================================================

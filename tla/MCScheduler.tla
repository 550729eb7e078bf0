---------------------------- MODULE MCScheduler -----------------------------
(* The instances of Scheduler that TLC checks.                              *)
EXTENDS Scheduler

CONSTANTS idle, m, a, b, none

MCThreads == {idle, m, a, b}
MAThreads == {idle, m, a}
MAPriority == [t \in MAThreads |-> IF t = idle THEN 2 ELSE 1]
MATick == [t \in MAThreads |-> IF t = m THEN 2 ELSE 1]

\* The manager starts in the middle; a shares its priority, b is above.
MCPriority == [t \in MCThreads |-> IF t = idle THEN 2 ELSE IF t = b THEN 0 ELSE 1]
\* Only the manager outlives one tick.
MCTick == [t \in MCThreads |-> IF t = m THEN 2 ELSE 1]
MCNewPrios == {1}
MCQueues == {"defunct", "waiting"}
OnlyA == {a}
OnlyB == {b}
AB == {a, b}
MB == {m, b}
Nobody == {}
=============================================================================

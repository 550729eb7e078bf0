---------------------------- MODULE MCSemaphore -----------------------------
(* The instances of Semaphore that TLC checks.                              *)
EXTENDS Semaphore

CONSTANTS idle, a, b, c, none, shared, deleted

MCThreads == {idle, a, b, c}
\* a is the most urgent thread; b and c share a priority.
MCPriority == [t \in MCThreads |-> IF t = a THEN 0 ELSE IF t = idle THEN 2 ELSE 1]
MCSems == {shared, deleted}
MCDeletable == {deleted}
Mixed == [q \in MCSems |-> IF q = shared THEN "RT_IPC_FLAG_FIFO" ELSE "RT_IPC_FLAG_PRIO"]
=============================================================================

------------------------------ MODULE MCMutex -------------------------------
(* The instances of Mutex that TLC checks.                                  *)
EXTENDS Mutex

CONSTANTS idle, a, b, c, none, shared, deleted

MCThreads == {idle, a, b, c}
\* a is the most urgent thread, c the least.
MCPriority == [t \in MCThreads |-> CASE t = a -> 0 [] t = b -> 1 [] t = c -> 2 [] t = idle -> 3]
MCMutexes == {shared, deleted}
MCDeletable == {deleted}
Nothing == {}
Prio == [q \in MCMutexes |-> "RT_IPC_FLAG_PRIO"]
Mixed == [q \in MCMutexes |-> IF q = shared THEN "RT_IPC_FLAG_PRIO" ELSE "RT_IPC_FLAG_FIFO"]
=============================================================================

SPECIFICATION Spec
CONSTANTS
    idle = idle
    a = a
    b = b
    c = c
    none = none
    shared = shared
    deleted = deleted
    Threads <- MCThreads
    NoThread = none
    RT_THREAD_PRIORITY_MAX = 4
    Queues <- MCMutexes
    init_priority <- MCPriority
    Idle = idle
    Deletable <- Nothing
    Mutexes <- MCMutexes
    flag <- Prio
    MaxHold = 1
    MaxOwned = 2
INVARIANT
    PriorityRestored
CHECK_DEADLOCK FALSE

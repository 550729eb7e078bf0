SPECIFICATION Spec
CONSTANTS
    idle = idle
    a = a
    b = b
    c = c
    none = none
    shared = shared
    deleted = deleted
    Threads <- MCThreads
    NoThread = none
    RT_THREAD_PRIORITY_MAX = 4
    Queues <- MCMutexes
    init_priority <- MCPriority
    Idle = idle
    Deletable <- MCDeletable
    Mutexes <- MCMutexes
    flag <- Mixed
    MaxHold = 2
    MaxOwned = 1
INVARIANTS
    TypeOK
    MutexOK
    OwnerInherits
    PriorityRestored
PROPERTIES
    Implements
CHECK_DEADLOCK FALSE

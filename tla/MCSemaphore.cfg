SPECIFICATION FairSpec
CONSTANTS
    idle = idle
    a = a
    b = b
    c = c
    none = none
    shared = shared
    deleted = deleted
    Threads <- MCThreads
    NoThread = none
    RT_THREAD_PRIORITY_MAX = 3
    Queues <- MCSems
    init_priority <- MCPriority
    Idle = idle
    Sems <- MCSems
    Deletable <- MCDeletable
    flag <- Mixed
    MaxValue = 1
INVARIANTS
    TypeOK
    WaitListOK
    NoWaitWithToken
    DetachSafe
PROPERTIES
    Implements
    FifoServed
CHECK_DEADLOCK FALSE

SPECIFICATION FairSpec
CONSTANTS
    idle = idle
    m = m
    a = a
    b = b
    none = none
    Threads <- MAThreads
    NoThread = none
    RT_THREAD_PRIORITY_MAX = 3
    Queues <- MCQueues
    init_priority <- MAPriority
    Idle = idle
    Manager = m
    Managed <- Nobody
    Detachable <- Nobody
    Waiters <- OnlyA
    Sleepers <- OnlyA
    Reaped <- Nobody
    NewPrios <- Nobody
    init_tick <- MATick
    MaxNest = 1
    MaxLock = 1
    Defunct = "defunct"
    Waiting = "waiting"
PROPERTIES
    FairShare
    SleepEnds

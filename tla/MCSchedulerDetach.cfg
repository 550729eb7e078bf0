SPECIFICATION Spec
CONSTANTS
    idle = idle
    m = m
    a = a
    b = b
    none = none
    Threads <- MCThreads
    NoThread = none
    RT_THREAD_PRIORITY_MAX = 3
    Queues <- MCQueues
    init_priority <- MCPriority
    Idle = idle
    Manager = m
    Managed <- OnlyA
    Detachable <- OnlyB
    Waiters <- OnlyB
    Sleepers <- OnlyB
    Reaped <- OnlyA
    NewPrios <- MCNewPrios
    init_tick <- MCTick
    MaxNest = 1
    MaxLock = 0
    Defunct = "defunct"
    Waiting = "waiting"
INVARIANT
    DetachedLeavesQueue

SPECIFICATION Spec
CONSTANTS
    idle = idle
    m = m
    a = a
    b = b
    none = none
    Threads <- MCThreads
    NoThread = none
    RT_THREAD_PRIORITY_MAX = 3
    Queues <- MCQueues
    init_priority <- MCPriority
    Idle = idle
    Manager = m
    Managed <- OnlyA
    Detachable <- OnlyA
    Waiters <- MB
    Sleepers <- OnlyB
    Reaped <- AB
    NewPrios <- MCNewPrios
    init_tick <- MCTick
    MaxNest = 2
    MaxLock = 1
    Defunct = "defunct"
    Waiting = "waiting"
INVARIANTS
    TypeOK
    ReadyTable
    ContextOK
    TimeoutOnlySuspended
    HighestPriorityRuns
    NoUseAfterFree
PROPERTIES
    CriticalKeepsProcessor
    SwitchesToReady

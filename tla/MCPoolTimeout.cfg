SPECIFICATION Spec
CONSTANTS
    idle = idle
    a = a
    b = b
    c = c
    none = none
    p = p
    d = d
    x = x
    y = y
    z = z
    box = box
    box_s = box_s
    old = old
    old_s = old_s
    ev = ev
    ex = ex
    mq1 = mq1
    mq2 = mq2
    i1 = i1
    i2 = i2
    j1 = j1
    j2 = j2
    dq1 = dq1
    dq1_s = dq1_s
    dq2 = dq2
    dq2_s = dq2_s
    done = done
    works = works
    w1 = w1
    w2 = w2
    pp1 = pp1
    pp2 = pp2
    pp3 = pp3
    pp1_s = pp1_s
    pp2_s = pp2_s
    pp3_s = pp3_s
    m1 = m1
    m2 = m2
    Subjects = {p}
    Threads <- MCThreads
    NoThread = none
    RT_THREAD_PRIORITY_MAX = 3
    Queues <- MCQueues
    init_priority <- MCPriority
    Idle = idle
    Deletable <- MCDeletable
    Pools <- MCPools
    Blocks <- MCBlocks
    TimedWaits = TRUE
    MaxSuspended = 4
    Mailboxes <- MCMailboxes
    suspend_sender_thread <- MCSenders
    mb_size <- TwoMails
    mb_flag <- MCMailFlag
    mail <- MCMail
    Events <- MCEvents
    Bits = {1, 2}
    ev_flag <- MCEventFlag
    Requests <- MCRequests
    MsgQueues <- MCMsgQueues
    Messages <- MCMessages
    mq_flag <- MCMsgFlag
    content <- MCMail
    DataQueues <- MCDataQueues
    suspended_push_list <- MCPushers
    dq_size <- TwoData
    dq_lwm <- LowWater
    data <- MCMail
    MaxIndex = 4
    Completions <- MCCompletions
    Worker = a
    Callers = {b}
    Works = {w1, w2}
    Pipes <- MCPipes
    suspended_write_list <- MCWriters
    pipe_size <- TwoBytes
    pipe_flag <- MCPipeFlag
INVARIANTS
    SuspendCountOK
CHECK_DEADLOCK FALSE

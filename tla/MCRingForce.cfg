SPECIFICATION MCSpec
CONSTANTS
    Subjects = {"ring"}
    t1 = t1
    t2 = t2
    t3 = t3
    Timers <- MCTimers
    TickModulus = 8
    Delays <- MCDelays
    CallbackOps <- MCCallbackOps
    Retyped <- MCRetyped
    MaxStall = 1
    SIZEOF_STRUCT_MEM = 3
    MIN_SIZE_ALIGNED = 3
    mem_size_aligned = 21
    Sizes = {0, 3, 5, 8}
    hp = hp
    side = side
    Heaps = {hp, side}
    RT_MEMHEAP_SIZE = 6
    RT_MEMHEAP_MINIALLOC = 3
    heap_size <- MCHeapSize
    Requests = {3, 4, 8}
    pool_size = 6
    Bytes = {0, 1}
    Forced = {2}
    Counters <- MCCounters
    Edited <- MCEdited
    MaxEdits = 2
    FINSH_CMD_SIZE = 3
    FINSH_HISTORY_LINES = 2
    UART_RX_BUFSZ = 2
    Chars = {"x", "y"}
    Strokes <- MCStrokes
    Commands <- MCCommands
    Hasty <- MCHasty
    MaxTokens = 2
    uart = uart
    modem = modem
    pipe0 = pipe0
    pipe1 = pipe1
    portal0 = portal0
    portal1 = portal1
    Devices = {uart, modem, pipe0, pipe1, portal0, portal1}
    Portals = {portal0, portal1}
    Refusing = {modem}
    Unclosing = {uart}
    NoDevice = NoDevice
    read_dev <- MCReadDev
    write_dev <- MCWriteDev
    MaxOpens = 1
PROPERTY
    RingIsQueue
CHECK_DEADLOCK FALSE

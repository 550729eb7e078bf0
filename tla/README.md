# A TLA+ verification of the MM32 RT-Thread kernel

This directory models the core of the firmware in `src/`: the RT-Thread 2.1.1
kernel (`src/RT_Thread/2.1.1`) as configured for the MM32 evaluation board
(`src/RT_Thread/MM32_EVBoard/inc/rtconfig.h`: one Cortex-M0 core, 8 priorities,
hard timers, semaphores and mailboxes). Mutexes and memory pools are switched off
there; they are modelled because they are kernel sources an application switches
on with one line, and they share the wait lists of the semaphore. So are events,
message queues, the allocators, the helpers of the device framework and the shell.
Beside the kernel there is the calendar of the board (`src/Board/datetime.c`). TLC
checks small instances of every module; TLAPS proves the safety of the scheduler, the
timers and the objects that threads wait on for all instances.

    tlc -config MCScheduler.cfg MCScheduler.tla      # one run; see "Runs"
    tlapm Scheduler_proofs.tla                       # the proofs of one module

## 1. Inventory

Paths are relative to `src/RT_Thread/2.1.1/` unless they begin with `src/`.

| Component | State | Operations | What makes it correct | Module |
|---|---|---|---|---|
| Scheduler (`src/scheduler.c`) | ready list per priority, bitmap of non-empty lists, `rt_current_thread`, lock nesting | insert, remove, `rt_schedule`, enter/exit critical, start | lists, bitmap and thread states agree; the running thread heads the highest list; the lock is respected | `Kernel`, `Scheduler` |
| Threads (`src/thread.c`) | state, priority, error, timer, slice | startup, suspend, resume, yield, sleep, exit, detach/delete, change of priority, timeout | no thread is lost, runs while not ready, or is used after its release | `Kernel`, `Scheduler` |
| Interrupts, tick (`src/irq.c`, `src/clock.c`) | nesting counter, tick counter | enter, leave, `rt_tick_increase` | the slice ends exactly once; peers get their turn | `Scheduler`, `Timer` |
| Context switch (`libcpu/arm/cortex-m0/context_rvds.S`) | switch flag, from and to | request, PendSV | the registers are saved into the thread they belong to | `Scheduler` |
| Idle thread (`src/idle.c`) | list of dead threads | release one | only threads nobody uses are released | `Scheduler` |
| Hard timers (`src/timer.c`) | ordered list, flags, timeout ticks | start, stop, control, detach, `rt_timer_check` with callbacks | order survives the wrap of the counter; never early; a stopped timer is silent | `Timer`, `AlarmClock` |
| Semaphore (`src/ipc.c`) | value, wait list | take, release, reset, detach/delete | tokens neither lost nor made; no thread waits beside a token | `Ipc`, `Semaphore`, `CountingSemaphore` |
| Mutex (`src/ipc.c`) | value, owner, hold, original priority, wait list | take, release, detach/delete | one owner; no priority inversion; priorities come back | `Ipc`, `Mutex`, `RecursiveLock` |
| Memory pool (`src/mempool.c`) | free list and count, wait list and count | alloc, free, detach/delete | no block twice or lost; no lost wakeup | `Ipc`, `MemPool` |
| Event, mailbox, message queue (`src/ipc.c`) | bits; ring; message lists; wait lists | send, recv, urgent, control, detach/delete | what was sent comes out once and in order; no lost wakeup; no bit given twice, no receiver overlooked | `Ipc`, `Event`, `Mailbox`, `MessageQueue`, `BoundedFifo` |
| Heap (`src/mem.c`) | chained blocks, lowest free block, used memory | init, malloc, realloc, free | blocks tile the heap; no two neighbours free; the search starts right | `Heap` |
| Heap of several regions (`src/memheap.c`) | ring of blocks, free list, available size, lock | init, alloc, realloc, free | ring, free list and size agree; blocks of others stay | `MemHeap` |
| Completion, work queue, data queue, pipe, ring buffer (`components/drivers/src`) | flag, lists, indices, bytes | wait/done; queue/cancel; push/pop/reset; read/write; put/get | no lost wakeup; FIFO; a woken thread finds its cause | `Completion`, `WorkQueue`, `DataQueue`, `Pipe`, `RingBuffer`, `ByteQueue` |
| Devices and portals (`src/device.c`, `portal.c`, console of `kservice.c`) | reference count, open flag, receive callback | open, close, change of console and shell device | open while somebody uses it, afterwards only if its close handler failed | `Device` |
| Shell (`components/finsh`) | token semaphore, bytes received, state of the decoder, line, history | one key after another | every byte is served; line and history are a line editor's | `Shell`, `LineEditor` |
| Calendar, RTC (`src/Board/datetime.c`, `rtc.c`, `led_key.c`) | seconds, the date being edited, menu page | conversions, keys of the menu | the clock follows the calendar; what is saved is shown; only dates are offered | `Calendar` |
| Other drivers (`src/Board`) | registers | read, write | decided by the controllers | not modelled |
| Registry of objects (`object.c`), kernel services (`kservice.c`) | name tables | find, register, print | lookups by name, no protocol | not modelled |
| Soft timers, parser and commands of finsh, `src/Chip`, `src/App`, other ports | | | not built, vendor code or demonstrations | not modelled |

How the components interact. Everything blocks and wakes through three calls of
the thread table: `rt_thread_suspend` takes the caller off its ready list,
`rt_thread_resume` takes a thread off its wait list and stops its timer,
`rt_thread_timeout` is the callback of a thread's timer and does the same with
an error. A thread has **one** list node, so it is on one list at a time. After
a change somebody must call `rt_schedule`, which picks a thread and asks PendSV
for the switch. SysTick ends time slices and runs `rt_timer_check`; device
handlers release semaphores, send mail or free blocks.

What is hard. The kernel is a set of short stretches with the interrupts
disabled. *Between* two of them anything may happen: a tick, a nested handler, a
timeout of the very thread the call works on, another thread. Many functions
test first and disable the interrupts afterwards (`rt_thread_suspend`,
`rt_thread_resume`, `rt_ipc_list_resume_all`), write back what they read before
(`rt_timer_control`), or do one job in several stretches
(`rt_thread_resume`, `rt_thread_detach`, `rt_timer_start`, `rt_timer_stop`).
Counters wrap (ticks, semaphore values, hold counts, queue indices).
`PROJECT.json` lists the hazards line by line with the properties that watch
them.

## 2. Modules

    Kernel ─┬─ Scheduler ── MCScheduler          AlarmClock ◁─ Timer ─┬─ MCTimer
            │                                    ◁─ : implements    └─ MCData
            └─ Ipc ─┬─ Semaphore ── MCSemaphore      ◁─ CountingSemaphore
                    ├─ Mutex ── MCMutex              ◁─ RecursiveLock
                    ├─ Mailbox, MessageQueue, DataQueue ─┐  ◁─ BoundedFifo
                    └─ MemPool, Event, Completion,       ├─ Objects ── MCObjects
                       WorkQueue, Pipe ──────────────────┘
    Heap, MemHeap, Calendar, Device ──┬─ Data ── MCData
    RingBuffer ◁─ ByteQueue ──────────┤
    Shell ◁─ LineEditor ──────────────┘

    ListLemmas ─┬─ Kernel_proofs ─┬─ Scheduler_proofs
                │                 ├─ Semaphore_proofs
                │                 ├─ Mutex_proofs
                │                 └─ Objects_proofs ── Buffers_proofs
                └─ Services_proofs (Timer, Data)

**Kernel** holds the thread table as one record `k` and the C functions that run
with the interrupts disabled as operators from table to table:
`rt_schedule_insert_thread`, `rt_schedule_remove_thread`, `rt_schedule`,
`rt_thread_suspend`, `rt_thread_resume`, `rt_thread_timeout`,
`rt_thread_control`, `rt_ipc_list_suspend` and so on. A doubly linked list is
the sequence of its threads; unlinking a node removes it from whichever list it
is on, as the pointers do. A thread's timer is only "running" or not: it may
expire at any time, which covers every timeout value.

**Scheduler** is the machine: threads, nested handlers, PendSV. One step is one
stretch with the interrupts disabled. `pc[t]` names the stretch thread `t`
executes next inside a kernel call:

| `pc` | the thread is |
|---|---|
| `user` | in its own code |
| `resuming`, `insert` | in `rt_thread_resume`, between the test of the state and the first critical section, and between the two sections |
| `unlinked`, `stopped` | in `rt_thread_detach`, before the timer is stopped, before the thread is closed |
| `schedule` | about to call the `rt_schedule` that ends a call |
| `sleep`, `woken` | in `rt_thread_sleep`, before and after its `rt_schedule` |

`cpu` is the thread whose context is in the registers; `k.current` is
`rt_current_thread`; `sw` is `rt_thread_switch_interrupt_flag` with the from and
to threads. Thread code runs only when no handler is active and no PendSV is
pending; handlers nest up to `MaxNest`; PendSV runs below all of them. `due`
remembers the handler that is in the middle of `rt_tick_increase`, between the
end of the slice and `rt_thread_yield`, where another handler may still come.
The constants fix who calls what, after the callers in the repository: a thread
suspends only itself, and one thread, the `Manager`, starts, resumes, detaches
and re-prioritises others.

**Ipc** is what the IPC objects share. Here the switch is immediate (Scheduler
shows that this is what the threads see) and a handler is one step. It has the
wait lists, the timeouts, and the detach functions with the loop of
`rt_ipc_list_resume_all`, which looks at the list before it disables the
interrupts. The modules on top of it add their fields and calls; a call is split
where the code enables the interrupts: blocking section, `rt_schedule`, another
turn of the loop, return. Delete and detach differ only in freeing memory and
share an action.

- **Semaphore**, **Mutex**: the caller is handed what it waits for.
- **MemPool**, **Mailbox**, **MessageQueue**, **DataQueue**, **Pipe**: the caller
  is woken, looks again, and may have to wait again. The rest of its waiting time
  is not counted: it may give up at any turn, which covers every waiting time.
  The mailbox keeps its ring of offsets; the message queue its two lists, with the
  copy of a message outside the critical sections; the data queue its indices, and
  wakes a pusher only at the low-water mark; of a pipe only the number of bytes is
  kept, because RingBuffer shows that they come out in order; a forced write that does
  not fit leaves a full pipe or an empty one (`Filled`).
- **Event**: `rt_event_send` scans the receivers in one section and clears bits on
  the way.
- **Completion**, **WorkQueue**: tests, suspensions and wakeups in several
  sections of their own, without the wait lists of `ipc.c`. A caller of the work queue
  wakes the worker in the three stretches of `rt_thread_resume` (`wq_wake`, `wq_unlink`,
  `wq_insert`).
- **Objects** puts all of them but semaphores and mutexes on one thread table; a
  behaviour is about one of the objects.

**Timer** is `timer.c` with a tick counter of `TickModulus` values. Starting has
two critical sections, stopping clears the flag late, `rt_timer_check` runs
callbacks that may stop, start, re-time or detach their own timer. Ticks may
pass inside a start (`MaxStall`). `rt_timer_control` reads the flag of the timer
(`seen`) and writes it back in a second step (`control_write`), with
`rt_timer_check` possible in between.

The rest is used by one caller at a time, or locks itself.

- **Heap** and **MemHeap** are the allocators over a range of addresses in words.
  A call is one step, except where it gives the lock back: while realloc copies
  from the old block to the new one other callers come in (`moving`, `moves`).
- **RingBuffer** has the indices with their mirror bits and the bytes. A forced block
  that does not fit is copied as the code does it, with whatever lies behind its end.
- **Calendar** has the tables and conversions, the editor of a date, and the keys
  of the menu; the Gregorian calendar at its end is what they are held against.
- **Shell** has the bytes on the serial line and their tokens, the decoder of
  escape sequences and the editing of the line. The handler of the line may come
  between any two reads of the thread.
- **Device** has the reference counts and who holds which device. The close handlers
  of the devices in `Unclosing` may fail, and leave their device open.
- **Data** puts these parts side by side; a behaviour is about one of them. `MCData`
  adds the timers.

**AlarmClock**, **CountingSemaphore**, **RecursiveLock**, **BoundedFifo**,
**ByteQueue** and **LineEditor** are the abstract specifications: what a user of a
timer, a semaphore, a mutex, a queue, a buffer or the shell may rely on, with no
list, no index, no tick counter and no thread table. BoundedFifo lets a call take
effect at one instant between its beginning and its end. The refinement mappings
are `ImplementsAlarms` in Timer, `Counting` in Semaphore, `Lock` in Mutex,
`RingIsQueue` in RingBuffer, `Editor` in Shell, and `ImplementsBuffer` in Objects.

Faulty variants of some operators stand in front of them, marked `Faulty:`.
They are used by nothing; each one shows a plausible bug that breaks one of the
properties.

### Rules of use the models assume

- Nobody releases a semaphore whose value is at its limit; a mutex is not taken
  more than `MaxHold` times. The code checks neither.
- An object that will be deleted or detached is waited on only for ever, and not
  released by handlers. Otherwise `rt_ipc_list_resume_all` can find the list
  emptied by a timeout after it looked, and resume what is not a thread.
- A thread suspends only itself. `rt_thread_suspend` of another thread tests the
  state before it disables the interrupts.
- A caller of `rt_thread_resume` or of a change of priority calls `rt_schedule`
  next; a thread blocks or exits only with the scheduler unlocked.
- The threads that the Manager resumes or detaches neither sleep nor wait (`Untimed` in
  `Scheduler_proofs`): they come back through the Manager alone. `rt_thread_resume`
  (`thread.c:667`) tests the state before it disables the interrupts, so that a timeout
  or a wakeup in the gap would make the thread READY before it is unlinked.
- Timers are started with the delays the code asserts (below half the range).
- A timer is made one-shot or periodic while it is at rest, except those in `Retyped`,
  of whose own flags nothing is claimed: `rt_timer_control` reads and writes the flag
  with the interrupts enabled.
- If `rt_mp_free` resumes the head of an empty list (see Findings), the bytes it
  takes for a thread are assumed not to read as a suspended one.
- An event, a mailbox or a message queue is detached only while every thread inside
  a call on it is suspended: a thread that was woken in its loop goes on to use it.
- Work is handed to a work queue by threads less urgent than its worker; work handed
  in between the worker's look at the list and its suspension, by a handler say,
  would not be noticed. One thread hands in works, except in the run `workqueue`
  (`WorkRule` in `Objects_proofs`): a second one could wake the worker between the
  stretches of the first one's `rt_thread_resume`.
- The indices of a data queue stay below their 16-bit limit (`MaxIndex`).
- `rt_ringbuffer_put_force` gets a block that fits, or a whole buffer across the
  mirror, or has one of the lengths in `Forced`; the run `data` has none of these, the
  run `ring_force` has one. Pipes write blocks of any length by force.
- The serial line is not faster than the buffer of its driver; nothing but characters
  and line ends comes right behind a CR; TAB is not pressed while old text is behind
  the line.
- A device is used by one caller at a time, is not STANDALONE, and opens when it
  becomes the console; a portal is opened both ways and not twice.

## 3. Runs

| Run | Instance | What it shows |
|---|---|---|
| `scheduler` | 4 threads, 3 priorities, nesting 2, lock 1; 717 956 states | From boot on, with nested handlers, timeouts, detach, exit and changes of priority: `ReadyTable`, `ContextOK`, `TimeoutOnlySuspended`, `HighestPriorityRuns`, `NoUseAfterFree`, `CriticalKeepsProcessor`, `SwitchesToReady` |
| `scheduler_live` | idle and two peers, nesting 1, lock 1; 2 107 states | `FairShare`: round robin starves nobody; `SleepEnds`: a sleeper becomes ready |
| `scheduler_detach` | a sleeper that is detached | finding 1 |
| `timer_detach` | callbacks that detach their timer | finding 2 |
| `semaphore` | 3 clients, a FIFO semaphore and a priority one that is detached, values 0 and 1; 78 900 states | `WaitListOK`, `NoWaitWithToken`, `DetachSafe`, each implements CountingSemaphore, `FifoServed` |
| `mutex` | 3 clients of 3 priorities, a priority mutex and a FIFO one that is detached, hold 2, one mutex per thread; 645 954 states | `MutexOK`, `OwnerInherits`, `PriorityRestored`, each implements RecursiveLock |
| `mutex_nested` | two mutexes per thread | finding 3 |
| `objects` | 3 clients and handlers on one of 15 objects: two pools, mailboxes, events, message queues and data queues, three pipes, a completion, a work queue; 486 905 states | `NoBlockLost`, `NoLostWakeup`, `WokenForCause`, `EventServed`; mailboxes, message queues and data queues implement BoundedFifo |
| `data` | three timers with 8 ticks, delays 1 and 2 and one tick of stall, the heap, two regions, a ring buffer, the clock, its editor, the shell or the devices; 444 601 states | `ListOrdered`, `ActivatedIffListed`, `DetachedNotListed`, `EarlyFirst`, and the timers implement AlarmClock; `HeapsOK`, `OthersKept`, `CalendarOK`, `ShellOK`, `DevicesHeld`; the ring buffer implements ByteQueue |
| `ring_force` | blocks of two bytes forced into a ring buffer of four | finding 6 |
| `mempool_timeout` | one pool, timed waits | finding 4 |
| `workqueue` | a work queue with two callers | finding 5 |

Each behaviour of `objects` and `data` is about one object or part, the *subject*,
chosen in the initial state. The other objects are dead (on the list `dying`), the
other parts stay as they are. Two subjects of `data` are about timers: in one (`timers`)
three timers keep their delays and types, in the other (`types`) there are two, one of
which is retyped and re-timed at any moment, while it runs and in its callback too.

Bounds, and why they are enough.

- *Threads.* Beside the idle thread and the Manager, `scheduler` has a peer of
  the Manager and a more urgent thread: preemption from above, round robin and a
  change of priority all happen. The IPC runs have three clients, so that a third
  one interferes while the first hands something to the second; b and c share a
  priority in `semaphore` and `objects`.
- *Nesting.* `MaxNest = 2` lets a handler interrupt SysTick between the end of
  the slice and the yield, and two handlers ask for a switch before PendSV.
- *Lock.* `MaxLock = 1` separates locked from unlocked.
- *Slices.* Only the Manager outlives one tick, so both branches of
  `rt_tick_increase` occur.
- *Ticks.* `TickModulus = 8` with delays 1 and 2 wraps many times; any start tick
  is reached. Half the range is 3, so both signs of a difference occur.
- *Values.* `MaxValue = 1` and `MaxHold = 2` are the least values with "none",
  "some" and "full", and with one nested take.
- *`MaxSuspended`.* Bounds the count that finding 4 lets grow; it exceeds the
  number of clients, so no wait is cut off before the count is wrong.
- *Queues* hold two elements of two values, so that a queue is empty, part full and
  full, and one element can overtake another; a data queue has indices up to
  `MaxIndex = 4`, so that both go round once. Pools have one and two blocks, a
  message queue two, a pipe two bytes.
- *Events.* The receivers ask for one bit or for both, with CLEAR and without
  (`Requests`), so that one send serves none, the first, a later one or several of the
  waiting threads.
- *Waiting.* Of each kind of object one is waited on with a timeout and one for ever
  and detached, in priority and in FIFO order.
- *Heaps.* 24 words with headers and least blocks of 3 give four blocks side by side,
  so that a block has a free neighbour on either side, on both or on none; the regions
  of MemHeap have 43 and 22 words, so that the small one is full while the large one
  is not.
- *Calendar.* The clock is checked at the end of every day of one cycle of leap years
  and around the ends of all years and of February up to 2067, where TLC's integers
  end (the code's are unsigned and go on to 2136); dates are edited from the first
  second of 2000 and from the last ones of 2015, of 2025, and of January and February
  2016 and 2026, two changes each (`MaxEdits`), over which the menu's own wrap-around at
  2016 and 2025 happens. 2100 is no leap year and the code takes it for one: it is
  beyond the bound.
- *Shell.* Lines of two characters and the terminator reach every limit: the start,
  the middle, the end and the overflow of the line; two lines of history, the third
  pushes the first one out; two bytes and tokens. One character is typed, the other
  comes from completion; they occur in either order. In one half of the behaviours
  all keys are pressed and a byte is sent when the shell is at rest; in the other half
  bytes come at any time, and fewer keys are pressed.
- *Devices.* Two portals back to back on two pipes, a serial line, and a device that
  may refuse; each is opened at most once by callers (`MaxOpens`), beside console,
  shell and portals. The close handler of the serial line may fail (`Unclosing`).

`scheduler` and `scheduler_live` check for deadlock. The others do not: every client
may wait for ever on objects nobody releases, and edits and counters are bounded.

The passing runs fire every action of their specifications, and every property they
check fails for at least one of the faulty variants.

### Fairness

`FairSpec` of Scheduler assumes: boot goes on; a thread that has the processor
again and again takes the next stretch of the kernel call it is in and leaves the
critical section it is in (strong fairness, because handlers take the processor
away in between); handlers end, SysTick comes again and again, PendSV runs when
handlers leave room for it; `rt_timer_check` serves a timer that is due again and
again. The hardware gives all of this: SysTick is periodic and PendSV is pending
until it is taken. Nothing is assumed of a thread in its own code: it may compute
for ever, and `FairShare` must come from the ticks.

`FairSpec` of Semaphore assumes only that handlers go on releasing.

## 4. Proofs

| Module | Theorem | States |
|---|---|---|
| `Scheduler_proofs` | `Invariance` | `Spec => []IInv` |
| | `TypeCorrect` | `Spec => []TypeOK` |
| | `ReadyTableConsistent` | `Spec => []ReadyTable` |
| | `RegistersFollow` | `Spec => []ContextOK` |
| | `TimersOfSuspended` | `Spec => []TimeoutOnlySuspended` |
| | `FreedUnused` | `Spec => []NoUseAfterFree` |
| | `CriticalUndisturbed` | `Spec => CriticalKeepsProcessor` |
| | `ReadyLoaded` | `Spec => SwitchesToReady` |
| | `TopThreadRuns` | `Spec => []HighestPriorityRuns` |
| `Semaphore_proofs` | `Invariance` | `Spec => []SemInv` |
| | `TypeCorrect` | `Spec => []TypeOK` |
| | `WaitersListedRight` | `Spec => []WaitListOK` |
| | `NoLostWakeup` | `Spec => []NoWaitWithToken` |
| | `DetachIsSafe` | `Spec => []DetachSafe` |
| | `SemaphoresCount` | `Spec => Implements` |
| | `SemaphoresImplement` | `Spec => \A q \in Sems : Counting(q)!Spec` |
| `Mutex_proofs` | `Invariance` | `Spec => []MutexInv` |
| | `TypeCorrect` | `Spec => []TypeOK` |
| | `MutexFieldsAgree` | `Spec => []MutexOK` |
| | `Inheritance` | `MaxOwned = 1 => (Spec => []Inherits(...))` |
| | `NoInversion` | `MaxOwned = 1 => (Spec => []OwnerInherits)` |
| | `PrioritiesRestored` | `MaxOwned = 1 => (Spec => []PriorityRestored)` |
| | `MutexesLock` | `Spec => Implements` |
| | `MutexesImplement` | `Spec => \A q \in Mutexes : Lock(q)!Spec` |
| `Objects_proofs` | `Invariance` | `Spec => []ObjectsInv` |
| | `ObjectsTypes` | `Spec => []TypeOK` |
| | `BlocksKept` | `Spec => []NoBlockLost` |
| | `WakeupsKept` | `Spec => []NoLostWakeup` |
| | `CauseKept` | `Spec => []WokenForCause` |
| | `EventsServe` | `Spec => EventServed` |
| `Buffers_proofs` | `BuffersImplemented` | `Spec => ImplementsBuffer` |
| | `BuffersSpec` | `\A o \in Buffers : Spec /\ subject = o => Buffer(o)!Spec` |
| `Services_proofs` | `Invariance` | `Spec => []TimerInv` |
| | `TypeCorrect` | `Spec => []TypeOK` |
| | `OrderedList` | `Spec => []ListOrdered` |
| | `EarlyInsertedFirst` | `Spec => EarlyFirst` |
| | `FlagShowsList` | `Spec => []ActivatedIffListed` |
| | `DetachedGone` | `Spec => []DetachedNotListed` |
| | `AlarmsImplemented` | `Spec => ImplementsAlarms` |
| | `DeviceInvariance` | `DeviceSpec => []DeviceInv` |
| | `DevicesStayHeld`, `DevicesHold` | `DeviceSpec => []DevicesHeld`, `DataSpec => []DevicesHeld` |
| | `DataInvariance` | `DataSpec => []DataInv` |
| | `DataTypes` | `DataSpec => []DataType` |
| | `HeapsHold` | `DataSpec => []HeapsOK` |
| | `BlocksOfOthers` | `DataSpec => OthersKept` |
| | `RingImplements` | `DataSpec => RingIsQueue` |
| | `ShellEdits` | `DataSpec => ShellOK` |

They hold for every value of the constants: any number of threads, priorities,
timers, objects of each kind and devices, any width of the tick counter, any slices,
nesting, limits, sizes and depths, heaps, buffers, lines and histories of any length.
What the passing runs check of safety is proved, all but `CalendarOK`.

### Assumptions

The named `ASSUME`s of the modules type the constants; TLC evaluates them in every
run. Those that say more than a type:

- `StallAssumption` (Timer): a delay and the longest stall together stay within half
  the range of the counter. The assertion of `rt_timer_start` is on the delay alone;
  if more ticks than that pass inside a start, the difference changes sign and the
  list is no longer in the order of expiry.
- `IpcAssumption`: finitely many threads; the idle thread is the least urgent.
- `SemaphoreAssumption`, `MutexAssumption`: there is an object; finitely many mutexes.
- `MailboxAssumption`, `DataQueueAssumption`, `PipeAssumption`: the second wait list of
  an object is no first list, and different objects have different ones (they are
  fields of the objects); every ring has room for one item. `MemPoolAssumption`,
  `MessageQueueAssumption`: finitely many blocks; no message is in two queues, and the
  mark for "no message" is none. `WorkQueueAssumption`: the mark for "no work" is no work,
  and the worker is more urgent than its callers (a rule of use).
- `ObjectsAssumption`: an object is of one kind.
- `HeapAssumption`, `MemHeapAssumption`: a heap has room for one block. The code asserts
  it of neither; a smaller one has no place for its two headers. Requests to the regions
  are for one word at least.
- `RingAssumption`: the pool has a word, so that the buffer is not empty
  (`rt_ringbuffer_init` rounds its length down).
- `ShellAssumption`: the bytes that control the line are no characters of it; the
  terminal sends characters, control bytes and whole escape sequences of the arrow keys
  (`Strokes`); the names of the commands fit the line.
- `DeviceAssumption`: finitely many portals, two different pipes each, no portal of
  portals.

Hypotheses of theorems, most of them what a finding requires:

- `Untimed` (all theorems of Scheduler): no thread that the Manager resumes, detaches or
  deletes ever sleeps or waits. The instance of `scheduler` satisfies it, the one of
  `scheduler_detach` does not (finding 1).
- `"detach" \notin CallbackOps` (`DetachedGone`): no callback detaches its timer
  (finding 2). `"start" \notin CallbackOps` (`FlagShowsList`): none restarts its own
  timer; a one-shot timer would be listed without the flag. `ActivatedIffListed` itself
  leaves out the timers in `Retyped`; the other theorems on timers hold of them too.
- `MaxOwned = 1` (priorities of Mutex): a thread owns one mutex at a time (finding 3).
  `MutexOK` and the refinement of the lock do not need it.
- `WorkRule` (all theorems of Objects and Buffers): one thread hands work to the work
  queue (finding 5). The instance of `objects` satisfies it, the one of `workqueue` does
  not.
- `Forced = {}` (`RingImplements`): no block is forced into the ring buffer that neither
  fits nor replaces a whole buffer across the mirror (finding 6). That the ends stay in
  their places (`RingInv`, `DataTypes`) does not need it.

### The inductive invariants

None of the properties is inductive.

*Scheduler.* `IInv` is

- `Sound`: lists are free of duplicates, bitmap and lists agree, and the list a
  thread is on determines its state. Without it `rt_schedule_insert_thread` could
  append a thread twice.
- `ReadyListed`: the converse, except for the thread being detached. It shows that
  `rt_schedule` finds somebody, and with `IdleReady` that the idle thread is there
  once the system runs.
- `InCallOn`: the thread a half-finished `rt_thread_resume` or `rt_thread_detach`
  works on is on no list, has no running timer and is not current, so that no
  handler can touch it in the gap. This is the heart of the argument that the
  gaps are harmless, and where `Untimed` is needed: a thread with a running timer, or
  one that waits, could become READY in the gap.
- `CurrentReady`: a current thread that is not READY owes an `rt_schedule`.
- `DeadQueued`: an exited thread that still runs is on the defunct list, so the
  idle thread, which must be running itself, cannot have released it.
- `ContextOK` and `Pending`: the registers belong to the right thread; a pending
  switch leads to a ready thread, and none is pending under the scheduler lock.
- `Booting`: nothing runs before `rt_system_scheduler_start`.

`HighestPriorityRuns` needs one more conjunct, `TopRuns`: the same claim inside
handlers and while a switch is pending. Only `rt_schedule` establishes it; each
other action leaves the head of the highest list alone or owes an `rt_schedule`.

*Timer.* The counter wraps, so timeouts cannot be compared. The proofs reason on
`Gap`, the signed ticks to go, which behaves as a difference of integers while its
values stay within half the range. `TimerInv` adds to the types:

- `TimerList`: the list holds each timer once, ordered by gap.
- `ListedBounds`: a listed timer is in no call and its gap lies in an interval less
  than half the range wide, from `MaxStall` overdue up. This is what makes the
  comparison in the search loop right; a timer may be overdue when it is linked,
  because its timeout was computed in an earlier section.
- `StartBounds`: a timeout that a start has computed and not used yet is at most
  `MaxStall` ticks old.

*Semaphore and Mutex.* `SemInv` and `MutexInv` share their shape:

- `Settled` (Kernel_proofs): the ready table is sound, a READY thread is on its list
  and a suspended one on none; it holds between two sections, since each of these
  calls changes a thread's state and its place in one section.
- `Waits`: the lists hold exactly the threads suspended in a take on the object, with
  the error still `RT_EOK`. That error distinguishes the thread that was handed
  something from the one that timed out before either has run again.
- `Runs`: the current thread is READY, or has just blocked and owes an `rt_schedule`.
- `Detaching`: one thread detaches an object at a time, and one that is still at it
  finds somebody on the list. `DetachSafe` follows; the rule that no timer runs on such
  an object is what keeps the unguarded look at the list right.

`SemInv` ends with `NoWaitWithToken`, which is inductive only together with these.
`MutexInv` has `Owners`: value, owner, depth and list agree, and an owner that is
boosted knows the priority it goes back to. `Inherits` is the second invariant of
Mutex, for one mutex per thread: an owner is at least as urgent as its waiters, the
others have the priority they were given, a waiter owns nothing (so that a change of
priority never moves a thread that is on a wait list), and the lists are ordered.

*Objects.* `ObjectsInv` says of the threads what all kinds of objects have in common,
and has one part for each kind.

- `Calm`, that is `Waits`, `Runs` and `Detaching`, is what Semaphore and Mutex have, for
  calls that are loops: a thread that was woken is on its way to look again.
- `Locked` takes its place while `rt_data_queue_reset` wakes one thread after the other
  with the scheduler locked: the caller stays the current thread, and the rest is as it
  would be with the scheduler unlocked.
- `Way` are the threads woken for an object that have not looked again yet, and
  `Served` the form of every invariant against lost wakeups: while somebody is on the
  list, at least `n` are on their way, where `n` counts what is there to be had (free
  blocks, mails, free places, messages, items). `NoLostWakeup` itself is not inductive:
  two threads may be on their way when the second thing arrives. Of a data queue `n` is
  the number of places below the low-water mark, because pop wakes nobody above it.
- `PoolInv` to `PipeInv` add the data: the free and the used blocks of a pool are its
  blocks, each once; the free, the queued and the held messages likewise; offsets and
  number of entries of a ring agree. A completion has one waiter, and a flag that shows
  whether it was woken.
- `AtWork` is about the work queue, which has no list: where its worker is suspended,
  who may wake it, and that there is a work when it is woken; there is one caller.

*Device.* `DeviceInv` counts, for every device, the opens that are owed a close:
`holds` for callers, one each for console and shell, and one for every open portal
that has the device as a pipe. A device without opens is closed unless it is in `Unclosing`.
A portal is followed call by call: its pipe is opened
for an owner of its own, which becomes the portal when that is opened itself.

*Heap and MemHeap.* The properties speak of the headers that `next` leads over, and
most of a proof is about how headers, free list and sizes change together.

- `Chain` and `Tiles`: the headers tile the addresses, each block ends where the next
  one begins, with room for its own header, and `prev` leads back.
- `Apart`: no two free blocks are neighbours. It is broken *inside* a call, between the
  cut or the release of a block and the merge, so it is stated with the set of blocks
  where it may fail; that it holds again at the end is what `plug_holes` and the merges
  of `rt_memheap_free` are for. It bounds the merging to one block on either side.
- The sums of the lengths of all blocks, of the used ones and of the free ones: the
  first is the size of the heap, the others are `used_mem` and `available_size`. They
  are sums over a set of addresses that is fixed, so that a step changes a term or two.
- `ListedIn`: the free list of a region names each free block once. While a block is
  taken off it for a merge, it is the list without that block.
- `MovesOK`: a call of realloc that gave the lock back holds its old block, and no other
  call does; so nothing that others do in between takes the block away.

*RingBuffer.* `RingInv` has `Ends`: the mirror bits differ exactly when the write end
stands at or before the read end. With it the number of bytes determines both ends, and
`Wrap` turns the offset of a byte into its index. One lemma says what a store appends,
one what a get removes, one what a forced put of a byte, or of a whole buffer, drops.
The block of any length that is forced in keeps `RingInv` too.

*Shell.* `KeyServed` needs what is on its way. `ShellInv` says

- `CountOK`: there are no more bytes in the buffer than tokens, counting the one the
  thread has taken; a token may lead to an empty buffer, a byte never stays without one.
- `InputOK`: the byte the thread has seen last, those in the buffer and those the
  terminal is about to send may follow one another (`Follows`): an escape sequence is
  never torn apart, although the thread reads it byte by byte over several turns of its
  loop and bytes arrive in between, and nothing but characters and line ends follows a CR.
- `EditOK`: the cursor is within the line, the line within its buffer, characters before
  its end, and the lines of the history fit it.
- `TabsOK`: a TAB is served only while the line ends in a terminator (a rule of use).

### The argument

It comes in layers: facts about sequences (`ListLemmas`); what each kernel function
does to the lists and to a settled table (`Kernel_proofs`: `RemoveEffect`,
`InsertEffect`, `EnqueueEffect`, `HighestReady`, `HeadKept`, and the lemmas on
`Settled`); what a kind of step preserves (a thread goes on, stops itself, is woken,
is turned away; a handler reschedules); one lemma per action; the induction.

The refinements are proved for one object at a time. A step of the system is a step
of the abstract object or leaves it unchanged: blocking is the abstract wait, the
release hands over at once, a timeout or the end of the object refuses, and the
`rt_schedule` between them is invisible. `Implements` states this as the action
formula that TLC can check for all objects at once (initial condition and
`[Next]` of each); the last theorems restate it as the abstract specification.

A mailbox and a data queue keep their items in a ring, a message queue in a list of
blocks with contents; what the buffer of the mapping holds is read off these. Four
groups of lemmas carry the proof that they implement BoundedFifo: what a place written
or an offset moved does to the items of a ring, and a block linked or unlinked to those
of a list (`RingPut`, `CopiedPush`, ...); that the calls of the mapping are the threads
in `Way` and on the lists (`Roles`); which change of items and calls is which step of
the buffer (`FifoMoves`); and one lemma per kind of object that goes through its actions
(`MailMaps`, `MsgMaps`, `DataMaps`). A send takes effect when the item is linked,
which for a message is after the copy and the second section; a receive when it is
unlinked; a thread that finds the buffer full or empty again does nothing the buffer
sees.

The loop of `rt_ipc_list_resume_all` that the model takes in one step, in a reset, is
a recursive function, and so is the scan of `rt_event_send`. The induction theorems of
the library cannot be used with these provers; the lemmas about the loops take the least
index at which the loop would leave the invariant, which is a fact about the natural
numbers, and show that there is none. The sums of the heaps are the recursive function
behind `MapThenSumSet`: the lemmas about them (`FoldIs`, `Total`...) take a least subset on
which the function would not add up, which is a fact about finite sets. So does
`LongestPrefix`, on which the completion of the shell rests.

In the parts that Data puts together a step is one of the subject, and leaves the other
parts alone; each part has three lemmas: it starts with its invariant, a step of its own
keeps it and does what its step properties say, and the invariant implies the properties
(`HeapStarts`, `HeapSteps`, `HeapHolds`, ...). The refinements are part of the step: a
call of the ring buffer is a step of the queue, a key of the shell one of the editor.

The proof of the refinements found a flaw in the model: the cases of a mapping
overlapped for a thread that is suspended with an error, so that the mapping was not
defined by the text; TLC takes the first arm and could not show it. The arms are now
exclusive. SANY and tlapm differ on how tightly `SUBSET` and `\`, and `+` and `%`, bind;
such terms are parenthesised wherever they occur.

### Only model-checked

Liveness and anything about ENABLED (`FairShare`, `SleepEnds`, `FifoServed`): out of
the prover's reach. `CalendarOK`: that seconds and dates convert both ways. Its terms are
divisions by constants and searches in tables of running totals, which the prover knows
little of, and it holds only up to 2100, which the code takes for a leap year; TLC goes
over the ends of the days of a cycle of leap years and of the years up to 2067.

## 5. Findings

Shown by a run:

1. `thread.c:309`. `rt_thread_detach` and `rt_thread_delete` unlink the thread,
   detach its timer and close it in three stretches. A timeout between the first
   two puts it back on a ready list, where it is then closed and scheduled.
2. `timer.c:214`. `rt_timer_detach` leaves `RT_TIMER_FLAG_ACTIVATED`; a periodic
   timer detached in its own callback is started again by `rt_timer_check`.
3. `ipc.c:811`. A thread that takes a second mutex while boosted, and releases
   them in the order it took them, keeps the boosted priority while it owns
   nothing.
4. `mempool.c:438`. A timed-out caller of `rt_mp_alloc` stays counted in
   `suspend_thread_count`; the next `rt_mp_free` resumes the head of an empty
   list.
5. `workqueue.c:41`. A caller links a work and wakes the worker in two stretches; if
   the work is taken or cancelled in between, the worker is woken for nothing and
   takes the head of the empty list for a work.

6. `ringbuffer.c:109`. `rt_ringbuffer_put_force` takes a block that does not fit for one
   of the whole buffer, copies that many bytes, more than the block has, and turns both
   mirrors over. Unless the old content reaches around the end of the buffer the ends
   are then equal on the same side: the buffer is empty, and the new bytes are gone as
   well as the old ones. `pipe.c:148` calls it with any length.

Met while modelling and not shown by a run of their own; most are outside the rules of
use, or no sentence of the repository says otherwise:

- `thread.c:667`: a thread that sleeps or waits while another one resumes it may become
  READY between the test of its state and its unlink (676), which then takes it off its
  ready list and leaves the bit of the list set (with b in `Managed` TLC finds
  `ReadyTable` violated); a more urgent one may even have exited by then.
- `timer.c:469`: SET_ONESHOT and SET_PERIODIC write back an ACTIVATED that
  `rt_timer_check` cleared after they read the flag, or clear one that was set.
- `device.c:254`: a device whose close handler fails stays open with a count of 0.
- `dataqueue.c:80`: once `put_index` wraps at 16 bits, the difference is promoted to
  int and the test for a full queue fails.
- `completion.c:99`: a done that comes after the timeout, before the waiter runs, is
  lost with the flag.
- `workqueue.c:41`: the worker looks at the list with the interrupts enabled.
- `pipe.c:94`: a read that leaves bytes behind wakes no second reader.
- `mem.c:450`: `lfree` is not lowered when rt_realloc cuts a block, so that it is then
  not "pointer to the lowest free block" (`mem.c:127`); `HeapsOK` asks that it is a free
  block or the end.
- `memheap.c:670`: when `rt_realloc` finds room in another heap it does not free the
  old block.
- `datetime.c:126`: every month of a common year is a day shorter in the editor, not
  only February.
- `shell.c:526`: a CR with another byte right behind it is lost; `shell.c:646`: a line
  cleared for its length leaves its text behind, without a terminator.
- `device.c:213`: a portal that is opened twice never closes its pipes;
  `kservice.c:1095`: the console does not look whether its device opened;
  `kservice.c:1126`: `rt_kputs` restores the open flags it read before the write.

## 6. Not modelled, and the plan

Not modelled: printing, string and memory functions, hooks, statistics, stack
checks, the layout of stack frames and exception frames, lookup of objects by
name, device initialisation and register access, soft timers, the parser and the
commands of finsh, the vendor library. They are pure I/O or data, not built for this
board, or keep no protocol of their own. Most lines of the repository are the vendor
library, register headers, its copies for other boards, and CPU ports. The I2C and
UART drivers of the board wait for flags that the controllers set; the infrared
receiver is arithmetic on the lengths of pulses. `rt_thread_suspend` of another
thread, and mutexes combined with other changes of priority, are outside the rules of
use above.

What is left is proving that the conversions of Calendar agree with the Gregorian
calendar up to 2100.

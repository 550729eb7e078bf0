----------------------------- MODULE Scheduler ------------------------------
(***************************************************************************)
(* Threads, interrupts and the PendSV exception of one Cortex-M0 core on   *)
(* top of the ready table: scheduler.c, thread.c, clock.c, irq.c, idle.c   *)
(* and libcpu/arm/cortex-m0/context_rvds.S.                                *)
(*                                                                         *)
(* A step is one stretch of code with the interrupts disabled. Between two *)
(* such stretches of a thread an interrupt may come, and with it a switch  *)
(* to another thread; pc[t] says which stretch thread t executes next.     *)
(*                                                                         *)
(* How the threads use the kernel is fixed by the constants, after the     *)
(* callers in the repository: a thread suspends only itself; one thread,   *)
(* the Manager, starts, resumes, detaches and re-prioritises the others;   *)
(* interrupt handlers wake the first thread that waits on an IPC object; a *)
(* caller of rt_thread_resume or rt_thread_control then calls rt_schedule; *)
(* and a thread blocks or exits only while the scheduler is not locked.    *)
(* Rule of use: the threads that the Manager resumes or detaches neither   *)
(* sleep nor wait; a timeout between the stretches of rt_thread_resume or  *)
(* rt_thread_detach would make such a thread ready (the instance of        *)
(* MCSchedulerDetach.cfg breaks the rule, and shows it of the second).     *)
(***************************************************************************)
EXTENDS Kernel

CONSTANTS Idle,        \* the idle thread
          Manager,     \* the thread that manages the others
          Managed,     \* threads the Manager resumes
          Detachable,  \* threads the Manager detaches or deletes
          Waiters,     \* threads that wait on an IPC object
          Sleepers,    \* threads that call rt_thread_sleep
          Reaped,      \* threads with a cleanup function, or allocated
          NewPrios,    \* priorities the Manager gives to other threads
          init_tick,   \* thread -> its time slice, in ticks
          MaxNest,     \* bound on rt_interrupt_nest
          MaxLock,     \* bound on rt_scheduler_lock_nest
          Defunct,     \* rt_thread_defunct
          Waiting      \* the wait list of an IPC object

ASSUME SchedulerAssumption ==
    /\ Idle \in Threads /\ Manager \in Threads \ {Idle}
    /\ Managed \cup Detachable \cup Waiters \cup Sleepers \cup Reaped
          \subseteq Threads \ {Idle}
    /\ Manager \notin Managed \cup Detachable
    /\ NewPrios \subseteq Prios
    /\ init_tick \in [Threads -> Nat \ {0}]
    /\ MaxNest \in Nat \ {0} /\ MaxLock \in Nat
    /\ Queues = {Defunct, Waiting} /\ Defunct # Waiting

VARIABLES k,             \* the thread table, see Kernel
          rt_interrupt_nest,
          sw,            \* rt_thread_switch_interrupt_flag and the threads to
                         \* switch from and to, served by PendSV
          cpu,           \* the thread whose context is in the registers
          pc,            \* where each thread is inside a kernel call
          target,        \* the thread the Manager's call works on
          remaining_tick,
          due            \* nesting level at which SysTick owes a yield, or 0

vars == <<k, rt_interrupt_nest, sw, cpu, pc, target, remaining_tick, due>>

Points == {"user", "resuming", "insert", "schedule", "sleep", "woken", "unlinked", "stopped"}

TypeOK ==
    /\ k \in KernelType
    /\ rt_interrupt_nest \in 0 .. MaxNest
    /\ sw \in [flag : BOOLEAN, from : Threads \cup {NoThread}, to : Threads \cup {NoThread}]
    /\ cpu \in Threads \cup {NoThread}
    /\ pc \in [Threads -> Points]
    /\ target \in Threads \cup {NoThread}
    /\ remaining_tick \in [Threads -> Nat \ {0}]
    /\ due \in 0 .. MaxNest

\* The two threads mean nothing while the flag is clear.
NoSwitch == [flag |-> FALSE, from |-> NoThread, to |-> NoThread]

Init ==
    /\ k = rt_system_scheduler_init
    /\ rt_interrupt_nest = 0
    /\ sw = NoSwitch
    /\ cpu = NoThread
    /\ pc = [t \in Threads |-> "user"]
    /\ target = NoThread
    /\ remaining_tick = init_tick
    /\ due = 0

-----------------------------------------------------------------------------
(* Building blocks *)

\* Faulty: a pending switch is forgotten.
switch_from_last(from, to) == [flag |-> TRUE, from |-> from, to |-> to]

\* rt_hw_context_switch and rt_hw_context_switch_interrupt, one routine on this core
rt_hw_context_switch(from, to) ==
    [flag |-> TRUE, from |-> IF sw.flag THEN sw.from ELSE from, to |-> to]

\* rt_schedule on table u, with the request for a context switch
Schedule(u) ==
    /\ k' = rt_schedule(u)
    /\ sw' = IF k'.current = u.current THEN sw
             ELSE rt_hw_context_switch(u.current, k'.current)

\* Code of thread s: no interrupt handler is active and no PendSV pending.
InThread(s, point) ==
    /\ rt_interrupt_nest = 0 /\ ~sw.flag /\ cpu = s
    /\ pc[s] = point

\* Code of an interrupt handler that is not in the middle of rt_tick_increase.
InHandler == rt_interrupt_nest > 0 /\ rt_interrupt_nest # due

Goto(s, point) == pc' = [pc EXCEPT ![s] = point]

-----------------------------------------------------------------------------
(* Boot, with the interrupts disabled: rtthread_startup in components.c *)

BootStartup(x) ==
    /\ k.current = NoThread /\ k.stat[x] = "init"
    /\ k' = rt_thread_resume([k EXCEPT !.stat[x] = "suspend", !.prio[x] = init_priority[x]], x)
    /\ UNCHANGED <<rt_interrupt_nest, sw, cpu, pc, target, remaining_tick, due>>

rt_system_scheduler_start ==
    /\ k.current = NoThread /\ k.stat[Idle] # "init"
    /\ k' = [k EXCEPT !.current = Head(k.ready[highest_ready_priority(k)])]
    /\ sw' = [flag |-> TRUE, from |-> NoThread, to |-> k'.current]
    /\ UNCHANGED <<rt_interrupt_nest, cpu, pc, target, remaining_tick, due>>

-----------------------------------------------------------------------------
(* The Manager's calls *)

\* rt_thread_startup up to the test of the state in rt_thread_resume
rt_thread_startup(x) ==
    /\ InThread(Manager, "user") /\ k.stat[x] = "init"
    /\ k' = [k EXCEPT !.stat[x] = "suspend", !.prio[x] = init_priority[x]]
    /\ Goto(Manager, "resuming") /\ target' = x
    /\ UNCHANGED <<rt_interrupt_nest, sw, cpu, remaining_tick, due>>

\* rt_thread_resume in three stretches. The state is tested with the interrupts
\* enabled, and what it was is not looked at again.
rt_thread_resume_test(x) ==
    /\ InThread(Manager, "user") /\ x \in Managed /\ k.stat[x] = "suspend"
    /\ Goto(Manager, "resuming") /\ target' = x
    /\ UNCHANGED <<k, rt_interrupt_nest, sw, cpu, remaining_tick, due>>

rt_thread_resume_unlink ==
    /\ InThread(Manager, "resuming")
    /\ k' = resume_unlink(k, target)
    /\ Goto(Manager, "insert")
    /\ UNCHANGED <<rt_interrupt_nest, sw, cpu, target, remaining_tick, due>>

rt_thread_resume_insert ==
    /\ InThread(Manager, "insert")
    /\ k' = rt_schedule_insert_thread(k, target)
    /\ Goto(Manager, "schedule") /\ target' = NoThread
    /\ UNCHANGED <<rt_interrupt_nest, sw, cpu, remaining_tick, due>>

\* rt_thread_detach and rt_thread_delete of another thread: three stretches,
\* none of which is protected against what happens between them.
detach_unlink(x) ==
    /\ InThread(Manager, "user") /\ x \in Detachable /\ k.stat[x] # "close"
    /\ k' = IF k.stat[x] # "init" THEN rt_schedule_remove_thread(k, x) ELSE k
    /\ Goto(Manager, "unlinked") /\ target' = x
    /\ UNCHANGED <<rt_interrupt_nest, sw, cpu, remaining_tick, due>>

detach_timer ==
    /\ InThread(Manager, "unlinked")
    /\ k' = rt_timer_stop(k, target)
    /\ Goto(Manager, "stopped")
    /\ UNCHANGED <<rt_interrupt_nest, sw, cpu, target, remaining_tick, due>>

\* Faulty: a dead thread is released at once.
close_releasing(u, x) == [u EXCEPT !.stat[x] = "close"]

close(u, x) ==
    LET c == [u EXCEPT !.stat[x] = "close"]
    IN  IF x \in Reaped THEN rt_list_insert_after(c, Defunct, x) ELSE c

detach_close ==
    /\ InThread(Manager, "stopped")
    /\ k' = close(k, target)
    /\ Goto(Manager, "user") /\ target' = NoThread
    /\ UNCHANGED <<rt_interrupt_nest, sw, cpu, remaining_tick, due>>

change_priority(x, p) ==
    /\ InThread(Manager, "user") /\ x # Idle /\ p \in NewPrios
    /\ k' = rt_thread_control(k, x, p)
    /\ Goto(Manager, "schedule")
    /\ UNCHANGED <<rt_interrupt_nest, sw, cpu, target, remaining_tick, due>>

-----------------------------------------------------------------------------
(* Calls of any thread s *)

\* The rt_schedule that ends a call
ScheduleStep(s) ==
    /\ \/ InThread(s, "schedule") /\ Goto(s, "user")
       \/ InThread(s, "sleep") /\ Goto(s, "woken")
    /\ Schedule(k)
    /\ UNCHANGED <<rt_interrupt_nest, cpu, target, remaining_tick, due>>

suspend_self(s) ==
    /\ InThread(s, "user") /\ s \in Managed /\ k.lock_nest = 0
    /\ k' = rt_thread_suspend(k, s)
    /\ Goto(s, "schedule")
    /\ UNCHANGED <<rt_interrupt_nest, sw, cpu, target, remaining_tick, due>>

\* What every blocking IPC call does when it has to wait (rt_sem_take and the
\* like), for ever or with a timeout
ipc_wait(s, timed) ==
    /\ InThread(s, "user") /\ s \in Waiters /\ k.lock_nest = 0
    /\ LET u == rt_ipc_list_suspend([k EXCEPT !.error[s] = "RT_EOK"],
                                    Waiting, s, "RT_IPC_FLAG_FIFO")
       IN  k' = IF timed THEN rt_timer_start(u, s) ELSE u
    /\ Goto(s, "schedule")
    /\ UNCHANGED <<rt_interrupt_nest, sw, cpu, target, remaining_tick, due>>

\* Faulty: the timer is started before rt_thread_suspend, which stops it.
sleep_timer_first(s) ==
    /\ InThread(s, "user") /\ s \in Sleepers /\ k.lock_nest = 0
    /\ k' = rt_thread_suspend(rt_timer_start(k, s), s)
    /\ Goto(s, "sleep")
    /\ UNCHANGED <<rt_interrupt_nest, sw, cpu, target, remaining_tick, due>>

rt_thread_sleep(s) ==
    /\ InThread(s, "user") /\ s \in Sleepers /\ k.lock_nest = 0
    /\ k' = rt_timer_start(rt_thread_suspend(k, s), s)
    /\ Goto(s, "sleep")
    /\ UNCHANGED <<rt_interrupt_nest, sw, cpu, target, remaining_tick, due>>

\* The end of rt_thread_sleep, after the thread is scheduled again
sleep_return(s) ==
    /\ InThread(s, "woken")
    /\ k' = [k EXCEPT !.error[s] = IF @ = "RT_ETIMEOUT" THEN "RT_EOK" ELSE @]
    /\ Goto(s, "user")
    /\ UNCHANGED <<rt_interrupt_nest, sw, cpu, target, remaining_tick, due>>

rt_thread_yield(s) ==
    /\ InThread(s, "user") /\ MovesToTail(k)
    /\ k' = move_to_tail(k)
    /\ Goto(s, "schedule")
    /\ UNCHANGED <<rt_interrupt_nest, sw, cpu, target, remaining_tick, due>>

\* Faulty: the thread stays in the ready table.
exit_staying_ready(s) ==
    /\ InThread(s, "user") /\ s # Idle /\ k.lock_nest = 0
    /\ k' = close(rt_timer_stop(k, k.current), k.current)
    /\ Goto(s, "schedule")
    /\ UNCHANGED <<rt_interrupt_nest, sw, cpu, target, remaining_tick, due>>

rt_thread_exit(s) ==
    /\ InThread(s, "user") /\ s # Idle /\ k.lock_nest = 0
    /\ k' = close(rt_timer_stop(rt_schedule_remove_thread(k, k.current), k.current), k.current)
    /\ Goto(s, "schedule")
    /\ UNCHANGED <<rt_interrupt_nest, sw, cpu, target, remaining_tick, due>>

rt_enter_critical(s) ==
    /\ InThread(s, "user") /\ k.lock_nest < MaxLock
    /\ k' = [k EXCEPT !.lock_nest = @ + 1]
    /\ UNCHANGED <<rt_interrupt_nest, sw, cpu, pc, target, remaining_tick, due>>

\* Faulty: the nesting goes below zero; no rt_schedule follows.
exit_critical_unclamped(s) ==
    /\ InThread(s, "user")
    /\ k' = [k EXCEPT !.lock_nest = @ - 1]
    /\ IF k.lock_nest - 1 <= 0 THEN Goto(s, "schedule") ELSE UNCHANGED pc
    /\ UNCHANGED <<rt_interrupt_nest, sw, cpu, target, remaining_tick, due>>
exit_critical_silent(s) ==
    /\ InThread(s, "user")
    /\ k' = [k EXCEPT !.lock_nest = IF @ - 1 <= 0 THEN 0 ELSE @ - 1]
    /\ UNCHANGED <<rt_interrupt_nest, sw, cpu, pc, target, remaining_tick, due>>

rt_exit_critical(s) ==
    /\ InThread(s, "user")
    /\ k' = [k EXCEPT !.lock_nest = IF @ - 1 <= 0 THEN 0 ELSE @ - 1]
    /\ IF k.lock_nest - 1 <= 0 THEN Goto(s, "schedule") ELSE UNCHANGED pc
    /\ UNCHANGED <<rt_interrupt_nest, sw, cpu, target, remaining_tick, due>>

\* One turn of the loop of rt_thread_idle_excute: a dead thread is freed.
rt_thread_idle_excute ==
    /\ InThread(Idle, "user") /\ k.queue[Defunct] # << >>
    /\ k' = rt_list_remove(k, Head(k.queue[Defunct]))
    /\ UNCHANGED <<rt_interrupt_nest, sw, cpu, pc, target, remaining_tick, due>>

-----------------------------------------------------------------------------
(* Interrupt handlers *)

rt_interrupt_enter ==
    /\ k.current # NoThread /\ rt_interrupt_nest < MaxNest
    /\ rt_interrupt_nest' = rt_interrupt_nest + 1
    /\ UNCHANGED <<k, sw, cpu, pc, target, remaining_tick, due>>

rt_interrupt_leave ==
    /\ InHandler
    /\ rt_interrupt_nest' = rt_interrupt_nest - 1
    /\ UNCHANGED <<k, sw, cpu, pc, target, remaining_tick, due>>

\* SysTick: the slice of the current thread shrinks; when it is used up,
\* rt_thread_yield follows. Another interrupt may come between the two.
rt_tick_increase ==
    /\ InHandler /\ due = 0
    /\ LET used == remaining_tick[k.current] = 1
       IN  /\ remaining_tick' = [remaining_tick EXCEPT ![k.current] =
                                    IF used THEN init_tick[k.current] ELSE @ - 1]
           /\ due' = IF used THEN rt_interrupt_nest ELSE 0
    /\ UNCHANGED <<k, rt_interrupt_nest, sw, cpu, pc, target>>

tick_yield ==
    /\ due > 0 /\ rt_interrupt_nest = due
    /\ due' = 0
    /\ IF MovesToTail(k) THEN Schedule(move_to_tail(k)) ELSE UNCHANGED <<k, sw>>
    /\ UNCHANGED <<rt_interrupt_nest, cpu, pc, target, remaining_tick>>

\* rt_timer_check finds the timer of thread x expired.
rt_timer_check(x) ==
    /\ InHandler /\ x \in k.timer
    /\ Schedule(rt_thread_timeout(k, x))
    /\ UNCHANGED <<rt_interrupt_nest, cpu, pc, target, remaining_tick, due>>

\* A device interrupt wakes the first waiting thread (rt_sem_release and the
\* like) and reschedules.
ipc_wake ==
    /\ InHandler /\ k.queue[Waiting] # << >>
    /\ Schedule(rt_ipc_list_resume(k, Waiting))
    /\ UNCHANGED <<rt_interrupt_nest, cpu, pc, target, remaining_tick, due>>

-----------------------------------------------------------------------------
\* PendSV has the lowest priority: it runs when no other handler is active.
PendSV_Handler ==
    /\ sw.flag /\ rt_interrupt_nest = 0
    /\ sw' = NoSwitch
    /\ cpu' = sw.to
    /\ UNCHANGED <<k, rt_interrupt_nest, pc, target, remaining_tick, due>>

Next ==
    \/ rt_system_scheduler_start
    \/ \E x \in Threads : BootStartup(x) \/ rt_thread_startup(x)
    \/ \E x \in Threads : rt_thread_resume_test(x) \/ detach_unlink(x)
    \/ rt_thread_resume_unlink
    \/ rt_thread_resume_insert
    \/ detach_timer
    \/ detach_close
    \/ \E x \in Threads, p \in Prios : change_priority(x, p)
    \/ \E s \in Threads :
          \/ ScheduleStep(s)
          \/ suspend_self(s)
          \/ \E timed \in BOOLEAN : ipc_wait(s, timed)
          \/ rt_thread_sleep(s)
          \/ sleep_return(s)
          \/ rt_thread_yield(s)
          \/ rt_thread_exit(s)
          \/ rt_enter_critical(s)
          \/ rt_exit_critical(s)
    \/ rt_thread_idle_excute
    \/ rt_interrupt_enter
    \/ rt_interrupt_leave
    \/ rt_tick_increase
    \/ tick_yield
    \/ \E x \in Threads : rt_timer_check(x)
    \/ ipc_wake
    \/ PendSV_Handler

Spec == Init /\ [][Next]_vars

\* Boot ends. A thread that has the processor again and again gets on with the
\* kernel call it is in, and gives up the scheduler lock it holds. Handlers end
\* and leave time for PendSV; SysTick comes again and again, and rt_timer_check
\* serves the timers that are due.
InCall(s) ==
    \/ ScheduleStep(s) \/ sleep_return(s)
    \/ s = Manager /\ (rt_thread_resume_unlink \/ rt_thread_resume_insert)
    \/ s = Manager /\ (detach_timer \/ detach_close)
Unlock(s) == k.lock_nest > 0 /\ rt_exit_critical(s)

Fairness ==
    /\ WF_vars(BootStartup(Idle)) /\ WF_vars(rt_system_scheduler_start)
    /\ \A s \in Threads : SF_vars(InCall(s)) /\ SF_vars(Unlock(s))
    /\ WF_vars(rt_interrupt_enter) /\ SF_vars(rt_interrupt_leave)
    /\ SF_vars(rt_tick_increase) /\ WF_vars(tick_yield)
    /\ SF_vars(PendSV_Handler)
    /\ \A x \in Sleepers \cup Waiters : SF_vars(rt_timer_check(x))

FairSpec == Spec /\ Fairness

-----------------------------------------------------------------------------
(* Properties *)

OnReadyList(t) == \E p \in Prios : Contains(k.ready[p], t)
BeingDetached(t) == pc[Manager] \in {"unlinked", "stopped"} /\ target = t

\* The ready table, the bitmap and the thread states tell the same story
\* (scheduler.c, thread.c): a list holds each of its threads once, at the
\* thread's current priority and in state READY; a bit is set exactly when its
\* list has a thread; and a READY thread is on its list unless another thread
\* is just taking it out of the system.
ReadyTable ==
    /\ \A p \in Prios : IsInjective(k.ready[p])
    /\ \A p \in Prios, t \in Threads :
          Contains(k.ready[p], t) => k.prio[t] = p /\ k.stat[t] = "ready"
    /\ k.group = {p \in Prios : k.ready[p] # << >>}
    /\ \A t \in Threads :
          k.stat[t] = "ready" /\ ~BeingDetached(t) => OnReadyList(t)

\* rt_current_thread and the registers agree except while a switch is pending,
\* and then PendSV will save the registers into the thread they belong to and
\* load the thread that is current by then, however many handlers asked for a
\* switch before it ran (context_rvds.S).
ContextOK ==
    IF sw.flag THEN sw.from = cpu /\ sw.to = k.current ELSE cpu = k.current

\* The RT_ASSERT of rt_thread_timeout: whenever the timer of a thread can
\* expire, the thread is suspended.
TimeoutOnlySuspended == \A t \in k.timer : k.stat[t] = "suspend"

\* "It will select one thread with the highest priority level" (rt_schedule):
\* in thread code that owes no rt_schedule and has not locked the scheduler,
\* the running thread heads the list of the highest ready priority.
HighestPriorityRuns ==
    rt_interrupt_nest = 0 /\ ~sw.flag /\ k.current # NoThread /\ k.lock_nest = 0
       /\ pc[k.current] \in {"user", "woken"}
       => k.current = Head(k.ready[highest_ready_priority(k)])

\* A thread whose memory the idle thread has released is not used by anyone:
\* it is not running, no switch saves its context or loads it, its timer does
\* not run, and no call in progress works on it (idle.c, thread.c).
Freed(t) == t \in Reaped /\ k.stat[t] = "close" /\ ~Contains(k.queue[Defunct], t)
NoUseAfterFree ==
    \A t \in Threads : Freed(t) =>
        /\ t # cpu /\ t # k.current /\ ~(sw.flag /\ t \in {sw.from, sw.to})
        /\ t \notin k.timer /\ ~OnReadyList(t)
        /\ t # target

\* While a thread holds the scheduler lock (rt_enter_critical) no handler and
\* no tick takes the processor away from it.
CriticalKeepsProcessor == [][k.lock_nest > 0 => cpu' = cpu]_vars

\* PendSV only ever loads a thread that is ready: no suspended, detached or
\* exited thread runs again by itself.
SwitchesToReady == [][cpu' # cpu => cpu' # NoThread /\ k.stat[cpu'] = "ready"]_vars

\* "The thread object will be removed from thread queue" (rt_thread_detach,
\* thread.c): a closed thread is on no ready list.
DetachedLeavesQueue == \A t \in Threads : k.stat[t] = "close" => ~OnReadyList(t)

\* Round robin: a thread that stays ready at the highest ready priority gets
\* the processor again and again, whatever its peers of that priority do.
AtTop(t) == k.stat[t] = "ready" /\ k.group # {} /\ k.prio[t] = highest_ready_priority(k)
FairShare == \A t \in Threads : <>[]AtTop(t) => []<>(k.current = t)

\* A thread that is suspended in rt_thread_sleep is ready again some time: its
\* timer fires, or somebody resumed it before.
Sleeping(t) == pc[t] \in {"sleep", "woken"} /\ k.stat[t] = "suspend"
SleepEnds == \A t \in Threads : Sleeping(t) ~> ~Sleeping(t)
=============================================================================
